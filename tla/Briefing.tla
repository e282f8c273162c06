------------------------------- MODULE Briefing -------------------------------
(***************************************************************************)
(* POST /action-items (internal/server/server.go, generateActionItems):    *)
(* candidates are selected, the local model is asked about them, which     *)
(* takes minutes, its answer is validated, and what is left of it is       *)
(* stored as a briefing.  In the meantime other requests do the same, and  *)
(* workers extract artifacts anew and put them into threads.               *)
(*                                                                         *)
(* How candidates are ranked and cut is Selection; here any artifact whose *)
(* text scores well enough is one.  A text is known by the quotes that     *)
(* occur in it.  A request's briefing has the request as its id.           *)
(***************************************************************************)
EXTENDS Integers, FiniteSets

CONSTANTS
  Artifact, Request, Thread,
  Text, NoText,
  Foreign,       \* an id that is no artifact's
  Quote,         \* what a text may say
  NoQuote,       \* the empty quote
  Says,          \* [Text -> SUBSET Quote] after normalizeEvidence
  Scoring,       \* the texts that score zero or more
  Extracted,     \* [Artifact -> texts its extractor may return]
  Answers,       \* what the model may answer: sets of items
  NoRequest, NoThread,
  Faults         \* subset of {"sql", "model", "stop"}

ASSUME TextAssumption == NoText \notin Text /\ Scoring \subseteq Text
ASSUME NoneAssumption == Foreign \notin Artifact /\ NoRequest \notin Request
                           /\ NoThread \notin Thread /\ NoQuote \notin Quote
ASSUME ExtractedAssumption == \A a \in Artifact : Extracted[a] \subseteq Text
ASSUME FaultsAssumption == Faults \subseteq {"sql", "model", "stop"}

VARIABLES
  text,       \* extracted_text and the chunks of each artifact
  members,    \* thread_member: pairs of thread and artifact
  request,    \* where each request is and what it has read
  briefings,  \* briefing and briefing_item rows, a function from the ids in use
  stage       \* generate_briefing rows of pipeline_stage: the briefing they name

tables == <<text, members, briefings, stage>>
vars == <<text, members, request, briefings, stage>>

New == [at |-> "new", pending |-> {}, candidates |-> {}, items |-> {}]

Ids(candidates) == {c.art : c \in candidates}

Init ==
  /\ text \in {f \in [Artifact -> Text \cup {NoText}] :
                \A a \in Artifact : f[a] \in Extracted[a] \cup {NoText}}
  /\ members = {}
  /\ request = [r \in Request |-> New]
  /\ briefings = <<>>
  /\ stage = [a \in Artifact |-> NoRequest]

-----------------------------------------------------------------------------
(* The workers *)

(* persistExtraction of a first or a repeated attempt. *)
Extract(a) ==
  /\ \E t \in Extracted[a] : text' = [text EXCEPT ![a] = t]
  /\ UNCHANGED <<members, request, briefings, stage>>

(* ClusterArtifact: nobody ever leaves a thread. *)
Join(t, a) ==
  /\ text[a] # NoText
  /\ members' = members \cup {<<t, a>>}
  /\ UNCHANGED <<text, request, briefings, stage>>

-----------------------------------------------------------------------------
(* Select: the rows of the period, then for every row a query for chunks.  *)

SelectRows(r) ==
  /\ request[r].at = "new"
  /\ request' = [request EXCEPT ![r].at = "select",
                                ![r].pending = {a \in Artifact : text[a] # NoText}]
  /\ UNCHANGED tables

SelectRow(r) ==
  /\ request[r].at = "select"
  /\ \E a \in request[r].pending :
       request' = [request EXCEPT
         ![r].pending = @ \ {a},
         ![r].candidates = IF text[a] \in Scoring THEN @ \cup {[art |-> a, text |-> text[a]]}
                           ELSE @]
  /\ UNCHANGED tables

Selected(r) ==
  /\ request[r].at = "select"
  /\ request[r].pending = {}
  /\ request' = [request EXCEPT ![r].at = "ask"]
  /\ UNCHANGED tables

-----------------------------------------------------------------------------
(* ValidateGenerated *)

(* Mutant of validArtifactIDs: one known id is enough. *)
validArtifactIDsSome(ids, candidates) == ids \cap Ids(candidates) # {}

validArtifactIDs(ids, candidates) == ids # {} /\ ids \subseteq Ids(candidates)

(* Every snippet must be of one of the item's own artifacts. *)
SnippetsOfItem(item) == \A s \in item.snippets : s.art \in item.ids

Valid(item, candidates) ==
  /\ item.wellFormed
  /\ validArtifactIDs(item.ids, candidates)
  /\ SnippetsOfItem(item)

Quoted(item) == {s \in item.snippets : s.quote # NoQuote}

Matches(s, candidates) == \E c \in candidates : c.art = s.art /\ s.quote \in Says[c.text]

(* Mutant of SourceStatus: one quote that matches is enough. *)
SourceStatusOfOne(item, candidates) ==
  IF \E s \in Quoted(item) : Matches(s, candidates) THEN "verified" ELSE "unverified"

SourceStatus(item, candidates) ==
  IF Quoted(item) # {} /\ \A s \in Quoted(item) : Matches(s, candidates)
  THEN "verified" ELSE "unverified"

ValidateGenerated(answer, candidates) ==
  {[ids |-> item.ids, snippets |-> Quoted(item), status |-> SourceStatus(item, candidates)] :
     item \in {item \in answer : Valid(item, candidates)}}

(* The model answers about the candidates as they were. *)
ExtractActionItems(r) ==
  /\ request[r].at = "ask"
  /\ \E answer \in Answers :
       request' = [request EXCEPT
         ![r].items = ValidateGenerated(answer, request[r].candidates),
         ![r].at = "create"]
  /\ UNCHANGED tables

(* It errs or times out: the page shows the candidates. *)
GenerationFails(r) ==
  /\ "model" \in Faults
  /\ request[r].at = "ask"
  /\ request' = [request EXCEPT ![r].at = "failed"]
  /\ UNCHANGED tables

-----------------------------------------------------------------------------
(* CreateRun *)

Cited(r, item) == item.ids

Count(r, item, t) == Cardinality({a \in Cited(r, item) : <<t, a>> \in members})

(* The thread with the most artifacts of the item; among equals the one    *)
(* updated last, which is left open here.                                  *)
ThreadsOf(r, item) ==
  LET known == {t \in Thread : Count(r, item, t) > 0}
  IN  IF known = {} THEN {NoThread}
      ELSE {t \in known : \A u \in known : Count(r, item, u) <= Count(r, item, t)}

(* One transaction: the briefing, its items, their artifacts and threads. *)
CreateRun(r) ==
  /\ request[r].at = "create"
  /\ \E threadOf \in [request[r].items -> Thread \cup {NoThread}] :
       /\ \A item \in request[r].items : threadOf[item] \in ThreadsOf(r, item)
       /\ LET run == [candidates |-> request[r].candidates,
                      items |-> {[ids |-> i.ids, snippets |-> i.snippets,
                                  status |-> i.status, thread |-> threadOf[i]] :
                                   i \in request[r].items}]
          IN  briefings' = [q \in DOMAIN briefings \cup {r} |->
                              IF q = r THEN run ELSE briefings[q]]
  /\ request' = [request EXCEPT ![r].at = "get"]
  /\ UNCHANGED <<text, members, stage>>

(* Mutant of CreateRunFails: its error is ignored and the stages are marked. *)
CreateRunForgotten(r) ==
  /\ "sql" \in Faults
  /\ request[r].at \in {"create", "get"}
  /\ request' = [request EXCEPT ![r].at = "mark",
                                ![r].pending = Ids(request[r].candidates)]
  /\ UNCHANGED tables

(* The transaction is rolled back, or the briefing that was committed can  *)
(* not be read back: either way the caller is told that nothing was stored.*)
CreateRunFails(r) ==
  /\ "sql" \in Faults
  /\ request[r].at \in {"create", "get"}
  /\ request' = [request EXCEPT ![r].at = "failed"]
  /\ UNCHANGED tables

(* GetRun returns the briefing. *)
GetRun(r) ==
  /\ request[r].at = "get"
  /\ request' = [request EXCEPT ![r].at = "mark",
                                ![r].pending = Ids(request[r].candidates)]
  /\ UNCHANGED tables

(* markGenerateBriefingStage: a mark that fails is logged and skipped. *)
MarkStage(r) ==
  /\ request[r].at = "mark"
  /\ \E a \in request[r].pending :
       /\ request' = [request EXCEPT ![r].pending = @ \ {a}]
       /\ \/ stage' = [stage EXCEPT ![a] = r]
          \/ "sql" \in Faults /\ UNCHANGED stage
  /\ UNCHANGED <<text, members, briefings>>

Redirect(r) ==
  /\ request[r].at = "mark"
  /\ request[r].pending = {}
  /\ request' = [request EXCEPT ![r].at = "done"]
  /\ UNCHANGED tables

(* The process ends and takes its requests with it. *)
Stop ==
  /\ "stop" \in Faults
  /\ request' = [r \in Request |->
                   IF request[r].at \in {"new", "done"} THEN request[r]
                   ELSE [request[r] EXCEPT !.at = "failed"]]
  /\ request' # request
  /\ UNCHANGED tables

Generate(r) ==
  \/ SelectRows(r) \/ SelectRow(r) \/ Selected(r)
  \/ ExtractActionItems(r) \/ GenerationFails(r)
  \/ CreateRun(r) \/ CreateRunFails(r) \/ GetRun(r) \/ MarkStage(r) \/ Redirect(r)

Next ==
  \/ \E a \in Artifact : Extract(a) \/ \E t \in Thread : Join(t, a)
  \/ \E r \in Request : Generate(r)
  \/ Stop

Spec == Init /\ [][Next]_vars

-----------------------------------------------------------------------------
(* Properties *)

Candidate == [art : Artifact, text : Text]

TypeOK ==
  /\ text \in [Artifact -> Text \cup {NoText}]
  /\ members \subseteq Thread \X Artifact
  /\ \A r \in Request :
       /\ request[r].at \in {"new", "select", "ask", "create", "get", "mark", "done", "failed"}
       /\ request[r].pending \subseteq Artifact
       /\ request[r].candidates \subseteq Candidate
  /\ DOMAIN briefings \subseteq Request
  /\ \A r \in DOMAIN briefings : \A i \in briefings[r].items :
       /\ i.status \in {"verified", "unverified"}
       /\ i.thread \in Thread \cup {NoThread}
  /\ stage \in [Artifact -> Request \cup {NoRequest}]

(***************************************************************************)
(* Every stored item cites artifacts, only candidates of its own briefing, *)
(* and quotes none but those it cites: v0_implementation_guide.md,         *)
(* "Invalid uncited items are not persisted."                              *)
(***************************************************************************)
ItemsAreCited ==
  \A r \in DOMAIN briefings : \A i \in briefings[r].items :
    /\ i.ids # {}
    /\ i.ids \subseteq Ids(briefings[r].candidates)
    /\ {s.art : s \in i.snippets} \subseteq i.ids

(***************************************************************************)
(* A verified item has a quote, and each of its quotes was in the text the *)
(* model was shown, whatever became of the artifact while it answered.     *)
(***************************************************************************)
VerifiedWasShown ==
  \A r \in DOMAIN briefings : \A i \in briefings[r].items :
    i.status = "verified" =>
      /\ i.snippets # {}
      /\ \A s \in i.snippets : \E c \in briefings[r].candidates :
           c.art = s.art /\ s.quote \in Says[c.text]

(* A generate_briefing stage names a briefing that exists and had the      *)
(* artifact among its candidates, also after failures half-way.            *)
StageNamesItsBriefing ==
  \A a \in Artifact : stage[a] # NoRequest =>
    stage[a] \in DOMAIN briefings /\ a \in Ids(briefings[stage[a]].candidates)

(***************************************************************************)
(* Briefings keep the promise of Publication, whatever fails: what was     *)
(* shown is what the request has read, a briefing is there when its        *)
(* transaction is committed, and marks are rows of stages.                 *)
(***************************************************************************)
Reader == INSTANCE Publication WITH
  shown <- [r \in Request |-> request[r].candidates],
  published <- [r \in DOMAIN briefings |-> briefings[r].items],
  marked <- stage

ImplementsPublication == Reader!Spec

=============================================================================
