------------------------------ MODULE Pipeline ------------------------------
(***************************************************************************)
(* What a worker does to one artifact after its extractor answered:        *)
(* persistExtraction (internal/ingest/handler.go) and the five stages of   *)
(* Runner.ProcessArtifact (internal/pipeline/process.go), statement by     *)
(* statement, against the tables they share with the worker that processes *)
(* another artifact at the same time: chunks, evidence, classification,    *)
(* facts, relations and pipeline_stage.                                    *)
(*                                                                         *)
(* Attempts come from the queue: one worker at a time has an artifact and  *)
(* it is tried MaxAttempts times (JobStore, Ingest).  A text stands for    *)
(* what one extraction yields; unless it is blank it is one chunk, whose   *)
(* evidence id is the pair of artifact and text.  The facts of a text are  *)
(* those of Facts; the clustering of the last stage is Threads.            *)
(***************************************************************************)
EXTENDS Integers, Sequences, FiniteSets

CONSTANTS
  Artifact, Worker, NoArtifact,
  Text,           \* results of an extraction
  NoText,
  Blank,          \* the texts of white space only: a scan without OCR
  ContentHash,    \* [Artifact -> hash of the raw bytes]
  Extracted,      \* [Artifact -> texts its extractor may return]
  ClassOf,        \* [Text -> class] what classify's keyword rules give
  FactType, normalize, NoTitle,   \* see Facts
  TitleOf,        \* [Artifact -> title]
  RuleMatches,    \* [Text -> sequence of what the regular expressions find]
  ModelAnswers,   \* [pair of artifact and text -> answers of the local model]
  IgnoreReasonerErrors,   \* Runner.IgnoreReasonerErrors (TRUE in cmd/zora)
  MaxAttempts,
  DuplicateLimit, MatchLimit, ConflictLimit,   \* the LIMITs of reconcile.go: 8, 12, 24
  Faults,         \* subset of {"sql", "reasoner", "stop"}
  Flaky           \* bound: the artifacts whose processing "sql" faults hit

ASSUME AttemptsAssumption == MaxAttempts \in Nat \ {0}
ASSUME ReasonerAssumption == IgnoreReasonerErrors \in BOOLEAN
ASSUME FaultsAssumption == Faults \subseteq {"sql", "reasoner", "stop"}
ASSUME LimitsAssumption ==
  DuplicateLimit \in Nat /\ MatchLimit \in Nat /\ ConflictLimit \in Nat
ASSUME TablesAssumption == IsFiniteSet(Artifact)
ASSUME BlankAssumption == Blank \subseteq Text
ASSUME NoneAssumption == NoArtifact \notin Artifact /\ NoText \notin Text
ASSUME ExtractedAssumption == \A a \in Artifact : Extracted[a] \subseteq Text
(* The patterns find no titles (ruleFactsFromEvidence adds that one). *)
ASSUME MatchesAssumption ==
  \A t \in Text : /\ DOMAIN RuleMatches[t] \subseteq Nat
                  /\ \A k \in DOMAIN RuleMatches[t] : RuleMatches[t][k].type # "document_title"
ASSUME AnswersAssumption ==
  \A e \in Artifact \X Text : \A answer \in ModelAnswers[e] : DOMAIN answer \subseteq Nat

VARIABLES
  job,        \* how far the queue is with each artifact
  attempts,   \* attempts begun
  work,       \* what each worker is doing
  text,       \* extracted_text, search_document and artifact_chunk
  evidence,   \* the evidence table: pairs of artifact and text
  class,      \* artifact_classification: class and cited evidence
  facts,      \* extracted_fact
  relations,  \* artifact_relation (with its proposal)
  stage       \* pipeline_stage: status of each stage

derived == <<text, evidence, class, facts, relations>>
vars == <<job, attempts, work, derived, stage>>

Stages == {"extract_artifact", "classify_artifact", "extract_fields",
           "reconcile_artifact", "cluster_threads"}

Following == [s \in Stages |->
  CASE s = "extract_artifact"   -> "classify_artifact"
    [] s = "classify_artifact"  -> "extract_fields"
    [] s = "extract_fields"     -> "reconcile_artifact"
    [] s = "reconcile_artifact" -> "cluster_threads"
    [] OTHER                    -> "return"]

NoEvidence == <<NoArtifact, NoText>>

Fields == INSTANCE Facts WITH
  Matches <- [ev \in Artifact \X Text |-> RuleMatches[ev[2]]]

Unclassified == [class |-> NoText, ev |-> NoEvidence]
Free == [art |-> NoArtifact, stage |-> "return", at |-> "begin",
         found |-> {}, pending |-> {}]
Place(a, s, at) == [Free EXCEPT !.art = a, !.stage = s, !.at = at]

-----------------------------------------------------------------------------
(* Relations *)

Obliging   == {"due_date", "requested_action"}
Supporting == {"policy_number", "account_number", "vendor", "organization",
               "person", "appointment"}
Keys       == {"vendor", "organization", "policy_number", "account_number",
               "document_title"}

relationForExactFact(type) ==
  CASE type \in Obliging         -> "same_obligation_as"
    [] type \in Supporting       -> "supports"
    [] type = "document_title"   -> "related_to"
    [] OTHER                     -> "none"

Bare(f) == [type |-> f.type, value |-> f.value]

(* Mutant of Link: the evidence of the target is forgotten. *)
LinkOneSided(a, b, type, about, srcEv, tgtEv) ==
  [src |-> a, tgt |-> b, type |-> type, about |-> about, srcEv |-> srcEv, tgtEv |-> NoEvidence]

Link(a, b, type, about, srcEv, tgtEv) ==
  [src |-> a, tgt |-> b, type |-> type, about |-> about, srcEv |-> srcEv, tgtEv |-> tgtEv]

(* hashID of a relation: everything but the evidence it cites. *)
SameId(r, q) ==
  r.src = q.src /\ r.tgt = q.tgt /\ r.type = q.type /\ r.about = q.about

(* "c.class IS NULL OR c.class = ?" in the queries for other artifacts. *)
ClassAgrees(a, b) == class[b] = Unclassified \/ class[b].class = class[a].class

(* The facts of other artifacts of the class. *)
Others(a) == {q \in Artifact \X UNION {facts[b] : b \in Artifact} :
                q[1] # a /\ q[2] \in facts[q[1]] /\ ClassAgrees(a, q[1])}

(* Mutant of Limited: one row too few. *)
LimitedShort(R, n) ==
  IF Cardinality(R) < n THEN {R} ELSE {S \in SUBSET R : Cardinality(S) = n - 1}

(* LIMIT n: which rows are the latest is left open. *)
Limited(R, n) ==
  IF Cardinality(R) <= n THEN {R} ELSE {S \in SUBSET R : Cardinality(S) = n}

SameBytes(a) == {b \in Artifact \ {a} : attempts[b] > 0 /\ ContentHash[b] = ContentHash[a]}

duplicateRelations(a, B) == {Link(a, b, "duplicate_of", "bytes", NoEvidence, NoEvidence) : b \in B}

(* The facts that factMatchRelations asks for, and who has one.  A fact is *)
(* one row of an artifact (FactsDiffer), so that rows count as artifacts.  *)
Matchable(a) == {f \in facts[a] : relationForExactFact(f.type) # "none"}
Holders(a, f) == {q[1] : q \in {q \in Others(a) : Bare(q[2]) = Bare(f)}}

factMatchRelations(a, f, B) ==
  {Link(a, q[1], relationForExactFact(f.type), Bare(f), f.ev, q[2].ev) :
     q \in {q \in Others(a) : q[1] \in B /\ Bare(q[2]) = Bare(f)}}

sharesFactKey(a, b) ==
  \E f \in facts[a], g \in facts[b] : f.type \in Keys /\ Bare(f) = Bare(g)

(* The amounts that are compared, if the artifact has a key at all. *)
Amounts(a) == {f \in facts[a] : f.type = "amount" /\ \E g \in facts[a] : g.type \in Keys}
OtherAmounts(a, f) == {q \in Others(a) : q[2].type = "amount" /\ q[2].value # f.value}

amountConflictRelations(a, f, R) ==
  {Link(a, q[1], "updates_fact", <<f.value, q[2].value>>, f.ev, q[2].ev) :
     q \in {q \in R : sharesFactKey(a, q[1])}}

-----------------------------------------------------------------------------
Init ==
  /\ job = [a \in Artifact |-> "queued"]
  /\ attempts = [a \in Artifact |-> 0]
  /\ work = [w \in Worker |-> Free]
  /\ text = [a \in Artifact |-> NoText]
  /\ evidence = {}
  /\ class = [a \in Artifact |-> Unclassified]
  /\ facts = [a \in Artifact |-> {}]
  /\ relations = {}
  /\ stage = [a \in Artifact |-> [s \in Stages |-> "none"]]

At(w, s, at) == work[w].art # NoArtifact /\ work[w].stage = s /\ work[w].at = at

Move(w, at) == work' = [work EXCEPT ![w].at = at]
Find(w, S) == work' = [work EXCEPT ![w].found = S, ![w].at = "write"]
Propose(w, asks, S) ==
  work' = [work EXCEPT ![w].found = asks, ![w].pending = S, ![w].at = "write"]

(* The queue hands the artifact to a worker; its row is in place. *)
Begin(w, a) ==
  /\ work[w] = Free
  /\ job[a] \in {"queued", "failed"}
  /\ job' = [job EXCEPT ![a] = "running"]
  /\ attempts' = [attempts EXCEPT ![a] = @ + 1]
  /\ work' = [work EXCEPT ![w] = Place(a, "extract_artifact", "read")]
  /\ UNCHANGED <<derived, stage>>

(* ON DELETE SET NULL of every column that cites the evidence of a. *)
Forget(a, ev) == IF ev[1] = a THEN NoEvidence ELSE ev

(* Mutant of Cascade: foreign keys are not enforced. *)
CascadeOff(a) == UNCHANGED <<evidence, class, facts, relations>>

(* DELETE FROM artifact_chunk: evidence goes with its chunk. *)
Cascade(a) ==
  /\ evidence' = {ev \in evidence : ev[1] # a}
  /\ class' = [class EXCEPT ![a].ev = NoEvidence]
  /\ facts' = [facts EXCEPT ![a] = {[f EXCEPT !.ev = NoEvidence] : f \in @}]
  /\ relations' = {Link(r.src, r.tgt, r.type, r.about, Forget(a, r.srcEv), Forget(a, r.tgtEv)) :
                     r \in relations}

(* persistExtraction: one transaction replaces text and chunks. *)
PersistExtraction(w) ==
  /\ At(w, "extract_artifact", "read")
  /\ LET a == work[w].art
     IN  /\ \E t \in Extracted[a] : text' = [text EXCEPT ![a] = t]
         /\ Cascade(a)
  /\ Move(w, "succeed")
  /\ UNCHANGED <<job, attempts, stage>>

-----------------------------------------------------------------------------
(* The stages of ProcessArtifact *)

MarkStageRunning(w) ==
  /\ work[w].at = "mark" /\ work[w].stage \in Stages
  /\ stage' = [stage EXCEPT ![work[w].art][work[w].stage] = "running"]
  /\ Move(w, "read")
  /\ UNCHANGED <<job, attempts, derived>>

MarkStageSucceeded(w) ==
  /\ work[w].at = "succeed"
  /\ stage' = [stage EXCEPT ![work[w].art][work[w].stage] = "succeeded"]
  /\ work' = [work EXCEPT ![w] = Place(work[w].art, Following[work[w].stage], "mark")]
  /\ UNCHANGED <<job, attempts, derived>>

(* The chunk of a text; a blank one has none, and no fallback evidence. *)
Pieces(a) == {<<a, t>> : t \in {text[a]} \ Blank}

(* UpsertEvidenceForArtifact: one row for each chunk; old rows stay. *)
UpsertEvidence(w) ==
  /\ At(w, "classify_artifact", "read")
  /\ evidence' = evidence \cup Pieces(work[w].art)
  /\ Move(w, "write")
  /\ UNCHANGED <<job, attempts, text, class, facts, relations, stage>>

bestEvidenceForClass(a) == IF text[a] \in Blank THEN NoEvidence ELSE <<a, text[a]>>

(* ClassifyArtifact: keyword rules, citing the best evidence. *)
ClassifyArtifact(w) ==
  /\ At(w, "classify_artifact", "write")
  /\ LET a == work[w].art
     IN  class' = [class EXCEPT ![a] =
                     [class |-> ClassOf[text[a]], ev |-> bestEvidenceForClass(a)]]
  /\ Move(w, "succeed")
  /\ UNCHANGED <<job, attempts, text, evidence, facts, relations, stage>>

(* FieldRequest: the title and the evidence that ListEvidence finds. *)
Request(a) ==
  [artifact |-> a, title |-> TitleOf[a],
   evidence |-> IF <<a, text[a]>> \in evidence THEN << <<a, text[a]>> >> ELSE <<>>]

(* ExtractFacts, whatever the local model answers. *)
ExtractFacts(w) ==
  /\ At(w, "extract_fields", "read")
  /\ LET a == work[w].art
     IN  \E answer \in ModelAnswers[<<a, text[a]>>] :
           Find(w, Fields!ExtractFacts(answer, Request(a)))
  /\ UNCHANGED <<job, attempts, derived, stage>>

(* A statement on behalf of a may fail: the database is busy or gone. *)
SqlMayFail(a) == "sql" \in Faults /\ a \in Flaky

(* It returned an error and the runner asks again without the model.  An   *)
(* error of this second call is dropped along with its facts.              *)
ExtractRuleFacts(w) ==
  /\ At(w, "extract_fields", "read")
  /\ IgnoreReasonerErrors
  /\ LET a == work[w].art
     IN  \/ /\ "reasoner" \in Faults \/ SqlMayFail(a)
            /\ Find(w, Fields!RuleFacts(Request(a)))
         \/ SqlMayFail(a) /\ Find(w, {})
  /\ UNCHANGED <<job, attempts, derived, stage>>

(* The foreign key to evidence, and the primary key. *)
Storable(S) ==
  /\ \A f \in S : f.ev \in evidence \cup {NoEvidence}
  /\ \A f, g \in S : Fields!FactId(f) = Fields!FactId(g) => f = g

(* Mutant of ReplaceFacts: old facts are not deleted. *)
AddFacts(w) ==
  /\ At(w, "extract_fields", "write")
  /\ facts' = [facts EXCEPT ![work[w].art] = @ \cup work[w].found]
  /\ Move(w, "succeed")
  /\ UNCHANGED <<job, attempts, text, evidence, class, relations, stage>>

(* ReplaceFacts: delete and insert in one transaction. *)
ReplaceFacts(w) ==
  /\ At(w, "extract_fields", "write")
  /\ Storable(work[w].found)
  /\ facts' = [facts EXCEPT ![work[w].art] = work[w].found]
  /\ Move(w, "succeed")
  /\ UNCHANGED <<job, attempts, text, evidence, class, relations, stage>>

(* ReconcileArtifact: LoadFacts and the query for the same bytes. *)
FindDuplicates(w) ==
  /\ At(w, "reconcile_artifact", "read")
  /\ LET a == work[w].art
     IN  \E B \in Limited(SameBytes(a), DuplicateLimit) :
           Propose(w, Matchable(a) \cup Amounts(a), duplicateRelations(a, B))
  /\ UNCHANGED <<job, attempts, derived, stage>>

(* One query for each fact. *)
FindMatches(w) ==
  /\ At(w, "reconcile_artifact", "write")
  /\ LET a == work[w].art
     IN  \E f \in work[w].found \cap Matchable(a) :
         \E B \in Limited(Holders(a, f), MatchLimit) :
           Propose(w, work[w].found \ {f}, work[w].pending \cup factMatchRelations(a, f, B))
  /\ UNCHANGED <<job, attempts, derived, stage>>

(* Then one for each amount, with sharesFactKey asked of every row; it     *)
(* takes an error of its query for a "no".                                 *)
FindConflicts(w) ==
  /\ At(w, "reconcile_artifact", "write")
  /\ LET a == work[w].art
     IN  /\ work[w].found \subseteq Amounts(a)
         /\ \E f \in work[w].found : \E R \in Limited(OtherAmounts(a, f), ConflictLimit) :
              LET all == amountConflictRelations(a, f, R)
              IN  \E S \in IF SqlMayFail(a) THEN SUBSET all ELSE {all} :
                    Propose(w, work[w].found \ {f}, work[w].pending \cup S)
  /\ UNCHANGED <<job, attempts, derived, stage>>

(* The evidence a new row cites must still be there (foreign keys). *)
Insertable(r) == {r.srcEv, r.tgtEv} \subseteq evidence \cup {NoEvidence}

(* Every query was made: its relations are to be stored. *)
Reconciled(w) == At(w, "reconcile_artifact", "write") /\ work[w].found = {}

(* The order of the lists that ReconcileArtifact appends. *)
ListedBefore(r, q) ==
  \/ r.type = "duplicate_of" /\ q.type # "duplicate_of"
  \/ r.type # "updates_fact" /\ q.type = "updates_fact"

(* StoreRelationProposal: a known relation keeps the evidence it cites. *)
StoreRelation(w) ==
  /\ Reconciled(w)
  /\ \E r \in work[w].pending :
       /\ \A q \in work[w].pending : ~ListedBefore(q, r)
       /\ Propose(w, {}, work[w].pending \ {r})
       /\ \/ (\E q \in relations : SameId(q, r)) /\ UNCHANGED relations
          \/ /\ ~\E q \in relations : SameId(q, r)
             /\ Insertable(r)
             /\ relations' = relations \cup {r}
  /\ UNCHANGED <<job, attempts, text, evidence, class, facts, stage>>

RelationsStored(w) ==
  /\ Reconciled(w)
  /\ work[w].pending = {}
  /\ Move(w, "succeed")
  /\ UNCHANGED <<job, attempts, derived, stage>>

(* ClusterArtifact: see Threads. *)
ClusterArtifact(w) ==
  /\ At(w, "cluster_threads", "read")
  /\ Move(w, "succeed")
  /\ UNCHANGED <<job, attempts, derived, stage>>

Process(w) ==
  \/ PersistExtraction(w) \/ MarkStageRunning(w) \/ MarkStageSucceeded(w)
  \/ UpsertEvidence(w) \/ ClassifyArtifact(w)
  \/ ExtractFacts(w) \/ ExtractRuleFacts(w) \/ ReplaceFacts(w)
  \/ FindDuplicates(w) \/ FindMatches(w) \/ FindConflicts(w)
  \/ StoreRelation(w) \/ RelationsStored(w)
  \/ ClusterArtifact(w)

-----------------------------------------------------------------------------
(* The end of an attempt *)

Return(w) ==
  /\ work[w].art # NoArtifact /\ work[w].stage = "return"
  /\ job' = [job EXCEPT ![work[w].art] = "succeeded"]
  /\ work' = [work EXCEPT ![w] = Free]
  /\ UNCHANGED <<attempts, derived, stage>>

(* A statement of the worker's stage must fail, or may by a fault. *)
Doomed(w) ==
  \/ /\ Reconciled(w)
     /\ \E r \in work[w].pending : ~Insertable(r) /\ ~\E q \in relations : SameId(q, r)
  \/ At(w, "extract_fields", "write") /\ ~Storable(work[w].found)

Unlucky(w) ==
  \/ SqlMayFail(work[w].art) /\ ~(At(w, "extract_fields", "read") /\ IgnoreReasonerErrors)
  \/ "reasoner" \in Faults /\ At(w, "extract_fields", "read") /\ ~IgnoreReasonerErrors

(* Jobs.Fail; the mutant is off by one. *)
ExhaustedLate(a) == attempts[a] > MaxAttempts
Exhausted(a) == attempts[a] >= MaxAttempts

(* The stage errs: MarkStageFailed, unless the failing statement was itself *)
(* a mark, or outside the stages (persistExtraction, the LoadClassification *)
(* at the end); an error of that mark is ignored.                           *)
Marks(w) == /\ work[w].stage \notin {"extract_artifact", "return"}
            /\ work[w].at \notin {"mark", "succeed"}

Err(w) ==
  /\ work[w].art # NoArtifact
  /\ Doomed(w) \/ Unlucky(w)
  /\ LET a == work[w].art
         failed == [stage EXCEPT ![a][work[w].stage] = "failed"]
     IN  /\ \/ Marks(w) /\ stage' = failed
            \/ (SqlMayFail(a) \/ ~Marks(w)) /\ UNCHANGED stage
         /\ job' = [job EXCEPT ![a] = IF Exhausted(a) THEN "dead" ELSE "failed"]
         /\ work' = [work EXCEPT ![w] = Free]
  /\ UNCHANGED <<attempts, derived>>

(* The process ends; its jobs stay running, which no one repairs. *)
Stop ==
  /\ "stop" \in Faults
  /\ \E w \in Worker : work[w] # Free
  /\ work' = [w \in Worker |-> Free]
  /\ UNCHANGED <<job, attempts, derived, stage>>

Next ==
  \/ \E w \in Worker : \/ \E a \in Artifact : Begin(w, a)
                       \/ Process(w) \/ Return(w) \/ Err(w)
  \/ Stop

Spec == Init /\ [][Next]_vars

-----------------------------------------------------------------------------
(* Properties *)

Evidence == (Artifact \X Text) \cup {NoEvidence}

TypeOK ==
  /\ job \in [Artifact -> {"queued", "running", "failed", "succeeded", "dead"}]
  /\ attempts \in [Artifact -> 0..MaxAttempts]
  /\ \A w \in Worker : /\ work[w].art \in Artifact \cup {NoArtifact}
                       /\ work[w].stage \in Stages \cup {"return"}
                       /\ work[w].at \in {"begin", "mark", "read", "write", "succeed"}
  /\ text \in [Artifact -> Text \cup {NoText}]
  /\ evidence \subseteq Artifact \X Text
  /\ \A a \in Artifact : class[a].ev \in Evidence /\ \A f \in facts[a] : f.ev \in Evidence
  /\ \A r \in relations : r.src \in Artifact /\ r.tgt \in Artifact /\ {r.srcEv, r.tgtEv} \subseteq Evidence
  /\ stage \in [Artifact -> [Stages -> {"none", "running", "succeeded", "failed"}]]

(***************************************************************************)
(* Nothing cites evidence that is gone, or of another artifact, and no     *)
(* evidence is of a text that is gone, although a retry deletes the chunks *)
(* under evidence, facts, classes and relations that another worker is     *)
(* just reading.                                                           *)
(***************************************************************************)
CitationsExist ==
  LET there == evidence \cup {NoEvidence}
  IN  /\ evidence \subseteq {<<a, text[a]>> : a \in Artifact}
      /\ \A a \in Artifact : class[a].ev \in there /\ \A f \in facts[a] : f.ev \in there
      /\ \A r \in relations : /\ {r.srcEv, r.tgtEv} \subseteq there
                              /\ r.srcEv[1] \in {r.src, NoArtifact}
                              /\ r.tgtEv[1] \in {r.tgt, NoArtifact}

(***************************************************************************)
(* Whatever the model answers, its facts pass the keys of extracted_fact:  *)
(* an evidence id it made up, a fact of another artifact, or one fact in   *)
(* two spellings never makes the statement, and with it the job, fail.     *)
(***************************************************************************)
FactsCanBeStored ==
  \A w \in Worker : At(w, "extract_fields", "write") => Storable(work[w].found)

(***************************************************************************)
(* An artifact whose job succeeded was understood from its present text:   *)
(* every stage is marked succeeded, its evidence is that of the text, and  *)
(* its class and all its facts cite it, whatever earlier attempts left.  A *)
(* text without a chunk has no evidence, no facts, and a class that cites  *)
(* nothing.                                                                *)
(***************************************************************************)
SucceededMeansUnderstood ==
  \A a \in Artifact : job[a] = "succeeded" =>
    /\ \A s \in Stages : stage[a][s] = "succeeded"
    /\ {e \in evidence : e[1] = a} = Pieces(a)
    /\ class[a].class = ClassOf[text[a]]
    /\ class[a].ev \in IF Pieces(a) = {} THEN {NoEvidence} ELSE Pieces(a)
    /\ \A f \in facts[a] : f.ev \in Pieces(a)

(***************************************************************************)
(* Of two artifacts that succeeded, the later one to reconcile saw the     *)
(* other: the same bytes, or a fact they share within a class, are on      *)
(* record in at least one direction, unless so many are like them that     *)
(* the LIMIT of the query may have cut the other off.  What an artifact    *)
(* was like may be gone if it was tried again, which counts as like.       *)
(***************************************************************************)
Related(a, b, type, about) ==
  \E r \in relations : /\ {r.src, r.tgt} = {a, b}
                       /\ r.type = type /\ r.about = about

HasFact(a, about) == \E f \in facts[a] : Bare(f) = about

Copies(a) == {c \in Artifact : attempts[c] > 0 /\ ContentHash[c] = ContentHash[a]}
Mentions(about) == {c \in Artifact : HasFact(c, about) \/ attempts[c] > 1}

LikenessIsOnRecord ==
  \A a, b \in Artifact : a # b /\ job[a] = "succeeded" /\ job[b] = "succeeded" =>
    /\ ContentHash[a] = ContentHash[b] /\ Cardinality(Copies(a)) <= DuplicateLimit + 1 =>
         Related(a, b, "duplicate_of", "bytes")
    /\ \A f \in facts[a], g \in facts[b] :
         /\ Bare(f) = Bare(g)
         /\ relationForExactFact(f.type) # "none"
         /\ class[a].class = class[b].class
         /\ Cardinality(Mentions(Bare(f))) <= MatchLimit + 1
         => Related(a, b, relationForExactFact(f.type), Bare(f))

(***************************************************************************)
(* A relation between artifacts that succeeded cites evidence on both      *)
(* sides.  DESIGN.md: "Every claim cites the artifact (and where possible  *)
(* the span) it came from."                                                *)
(***************************************************************************)
Cites(r) == r.type # "duplicate_of" => NoEvidence \notin {r.srcEv, r.tgtEv}

Succeeded(r) == job[r.src] = "succeeded" /\ job[r.tgt] = "succeeded"

RelationsCite == \A r \in relations : Succeeded(r) => Cites(r)

(***************************************************************************)
(* A relation between two artifacts that succeeded at their first attempt  *)
(* cites evidence on both sides and still holds: both have the fact it is  *)
(* about, although one was processed while the other's facts were written. *)
(***************************************************************************)
FirstRelationsHold ==
  \A r \in relations :
    Succeeded(r) /\ attempts[r.src] = 1 /\ attempts[r.tgt] = 1 =>
      /\ Cites(r)
      /\ r.type = "supports" =>
           \A a \in {r.src, r.tgt} : HasFact(a, r.about)

=============================================================================
