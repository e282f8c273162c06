------------------------------- MODULE Facts -------------------------------
(***************************************************************************)
(* The facts of an artifact (internal/pipeline/facts.go): those the        *)
(* regular expressions find in its evidence, those a local model answers   *)
(* with, the checks that every one of them passes, and their union.        *)
(*                                                                         *)
(* A request has the artifact, its title and its pieces of evidence in     *)
(* order.  A generated fact names an artifact (or none), a type, a value,  *)
(* a confidence in percent, a piece of evidence (or none) and a quote,     *)
(* known by the pieces that contain it; "sound" says that its value is one *)
(* of its type and its JSON is valid.                                      *)
(***************************************************************************)
EXTENDS Integers, Sequences

CONSTANTS
  FactType,      \* allowedFactTypes
  Matches,       \* [piece of evidence -> what the patterns find, in order]
  normalize,     \* [value -> its normal form]: lower case, single spaces
  NoArtifact, NoEvidence, NoTitle

Pieces(req) == {req.evidence[i] : i \in DOMAIN req.evidence}

-----------------------------------------------------------------------------
(* RuleFacts *)

Place(req) == UNION {{i} \X DOMAIN Matches[req.evidence[i]] : i \in DOMAIN req.evidence}

Earlier(p, q) == p[1] < q[1] \/ (p[1] = q[1] /\ p[2] < q[2])

MatchAt(p, req) == Matches[req.evidence[p[1]]][p[2]]

SameValue(f, g) == f.type = g.type /\ normalize[f.value] = normalize[g.value]

(* A type and value is taken where it is found first ("seen"). *)
FirstPlaces(req) ==
  {p \in Place(req) : \A q \in Place(req) :
     Earlier(q, p) => ~SameValue(MatchAt(q, req), MatchAt(p, req))}

(* The stored value is normal, the id is of the value as it is spelled.    *)
NewFact(g, ev, source) ==
  [type |-> g.type, value |-> normalize[g.value], spelled |-> g.value, ev |-> ev,
   source |-> source, confidence |-> g.confidence]

(* The title cites the first piece of evidence; without any it is dropped. *)
TitleFacts(req) ==
  {NewFact([type |-> "document_title", value |-> req.title, confidence |-> 65],
           req.evidence[i], "rule") : i \in {i \in DOMAIN req.evidence : i = 1 /\ req.title # NoTitle}}

RuleFacts(req) ==
  TitleFacts(req) \cup
  {NewFact(MatchAt(p, req), req.evidence[p[1]], "rule") : p \in FirstPlaces(req)}

-----------------------------------------------------------------------------
(* ValidateGeneratedFacts *)

(* matchEvidenceQuote: the first piece that contains the quote. *)
IsMatch(i, g, req) ==
  /\ i \in DOMAIN req.evidence
  /\ req.evidence[i] \in g.quoted
  /\ \A j \in DOMAIN req.evidence : j < i => req.evidence[j] \notin g.quoted

matchEvidenceQuote(g, req) == req.evidence[CHOOSE i \in DOMAIN req.evidence : IsMatch(i, g, req)]

(* Mutant of CitesEvidence: an evidence id is believed. *)
CitesAnything(g, req) ==
  g.ev # NoEvidence \/ \E i \in DOMAIN req.evidence : IsMatch(i, g, req)

(* An evidence id has to be known, but its quote is not looked up there. *)
CitesEvidence(g, req) ==
  IF g.ev # NoEvidence
  THEN g.ev \in Pieces(req)
  ELSE \E i \in DOMAIN req.evidence : IsMatch(i, g, req)

Cited(g, req) == IF g.ev # NoEvidence THEN g.ev ELSE matchEvidenceQuote(g, req)

Acceptable(g, req) ==
  /\ g.artifact \in {req.artifact, NoArtifact}
  /\ g.type \in FactType
  /\ g.sound /\ 0 <= g.confidence /\ g.confidence <= 100
  /\ CitesEvidence(g, req)

Repeats(g, h, req) == SameValue(g, h) /\ Cited(g, req) = Cited(h, req)

(* Places of an answer that become facts. *)
Kept(answer, req) ==
  {i \in DOMAIN answer :
     /\ Acceptable(answer[i], req)
     /\ \A j \in DOMAIN answer :
          j < i /\ Acceptable(answer[j], req) => ~Repeats(answer[i], answer[j], req)}

(* The facts of an answer, each at its place. *)
ValidateGeneratedFacts(answer, req) ==
  [i \in Kept(answer, req) |-> NewFact(answer[i], Cited(answer[i], req), "llm")]

-----------------------------------------------------------------------------
(* Facts that say the same. *)
Alike(f, g) == f.type = g.type /\ f.value = g.value

(* The rules come first, and of the model's facts the first with a value. *)
mergeFacts(rules, generated) ==
  rules \cup {generated[i] : i \in
    {i \in DOMAIN generated :
       /\ \A f \in rules : ~Alike(f, generated[i])
       /\ \A j \in DOMAIN generated : j < i => ~Alike(generated[j], generated[i])}}

ExtractFacts(answer, req) == mergeFacts(RuleFacts(req), ValidateGeneratedFacts(answer, req))

(* The primary key that ReplaceFacts inserts, in an artifact: a hash of these. *)
FactId(f) == <<f.type, f.spelled, f.ev, f.source>>

=============================================================================
