--------------------------- MODULE PipelineProofs ---------------------------
(***************************************************************************)
(* Proofs about the understanding pipeline, for any number of workers and  *)
(* artifacts, any texts, rules and answers of the model, any number of     *)
(* attempts, and every fault.                                              *)
(***************************************************************************)
EXTENDS Pipeline, FiniteSetTheorems, WellFoundedInduction, TLAPS

Busy(w) == work[w].art # NoArtifact

(* The places of a worker in the stages of its artifact. *)
Positions ==
  ({"extract_artifact"} \X {"read", "succeed"})
  \cup ({"classify_artifact", "extract_fields", "reconcile_artifact"}
           \X {"mark", "read", "write", "succeed"})
  \cup ({"cluster_threads"} \X {"mark", "read", "succeed"})
  \cup ({"return"} \X {"mark"})

Earlier == [s \in Stages \cup {"return"} |->
  CASE s = "extract_artifact"   -> {}
    [] s = "classify_artifact"  -> {"extract_artifact"}
    [] s = "extract_fields"     -> {"extract_artifact", "classify_artifact"}
    [] s = "reconcile_artifact" -> {"extract_artifact", "classify_artifact", "extract_fields"}
    [] s = "cluster_threads"    -> Stages \ {"cluster_threads"}
    [] OTHER                    -> Stages]

PastText(w) == work[w].stage # "extract_artifact" \/ work[w].at # "read"

PastEvidence(w) ==
  \/ work[w].stage \notin {"extract_artifact", "classify_artifact"}
  \/ work[w].stage = "classify_artifact" /\ work[w].at \in {"write", "succeed"}

PastClass(w) ==
  \/ work[w].stage \notin {"extract_artifact", "classify_artifact"}
  \/ work[w].stage = "classify_artifact" /\ work[w].at = "succeed"

PastFacts(w) ==
  \/ work[w].stage \notin {"extract_artifact", "classify_artifact", "extract_fields"}
  \/ work[w].stage = "extract_fields" /\ work[w].at = "succeed"

-----------------------------------------------------------------------------
(* What the tables hold about an artifact. *)

Ev(a) == <<a, text[a]>>

HasText(a) == text[a] \in Text
Evidenced(a) == text[a] \in Blank \/ Ev(a) \in evidence
Classified(a) == class[a] = [class |-> ClassOf[text[a]], ev |-> bestEvidenceForClass(a)]
FactsCiteText(a) == \A f \in facts[a] : f.ev = Ev(a)
Marked(a, S) == \A s \in S : stage[a][s] = "succeeded"

IsFact(f) ==
  f = [type |-> f.type, value |-> f.value, spelled |-> f.spelled, ev |-> f.ev,
       source |-> f.source, confidence |-> f.confidence]

(* Facts that may be stored, all from one piece of evidence, if there is any. *)
SoundFrom(S, ev) ==
  /\ ev[2] \in Blank => S = {}
  /\ \A f \in S : f.ev = ev /\ IsFact(f)
  /\ \A f, g \in S : Fields!FactId(f) = Fields!FactId(g) => f = g

Sound(S, a) == SoundFrom(S, Ev(a))

CitesItsOwn(r) ==
  /\ r.src \in Artifact /\ r.tgt \in Artifact
  /\ {r.srcEv, r.tgtEv} \subseteq Evidence
  /\ r.srcEv[1] \in {r.src, NoArtifact} /\ r.tgtEv[1] \in {r.tgt, NoArtifact}

(* A worker has its artifact for itself, and what it has done stands. *)
KnowsIts(w) ==
  LET a == work[w].art
  IN  /\ a \in Artifact
      /\ job[a] = "running"
      /\ <<work[w].stage, work[w].at>> \in Positions
      /\ PastText(w) => HasText(a)
      /\ PastEvidence(w) => Evidenced(a)
      /\ PastClass(w) => Classified(a)
      /\ PastFacts(w) => FactsCiteText(a)
      /\ Marked(a, Earlier[work[w].stage])
      /\ At(w, "extract_fields", "write") => Sound(work[w].found, a)
      /\ At(w, "reconcile_artifact", "write") => work[w].found \subseteq facts[a]
      /\ \A r \in work[w].pending : r.src = a /\ CitesItsOwn(r)

Understood(a) ==
  HasText(a) /\ Evidenced(a) /\ Classified(a) /\ FactsCiteText(a) /\ Marked(a, Stages)

WorkIsWhole ==
  work = [w \in Worker |-> [art |-> work[w].art, stage |-> work[w].stage, at |-> work[w].at,
                            found |-> work[w].found, pending |-> work[w].pending]]

Exclusive ==
  \A w, v \in Worker : Busy(w) /\ work[w].art = work[v].art => w = v

AttemptsLeft ==
  \A a \in Artifact : /\ job[a] \in {"queued", "failed"} => attempts[a] < MaxAttempts
                      /\ job[a] = "queued" <=> attempts[a] = 0

(* The columns whose values never surprise. *)
TablesTyped ==
  /\ job \in [Artifact -> {"queued", "running", "failed", "succeeded", "dead"}]
  /\ attempts \in [Artifact -> 0..MaxAttempts]
  /\ text \in [Artifact -> Text \cup {NoText}]
  /\ class = [a \in Artifact |-> class[a]]
  /\ \A a \in Artifact : class[a] = [class |-> class[a].class, ev |-> class[a].ev]
  /\ facts = [a \in Artifact |-> facts[a]]
  /\ stage \in [Artifact -> [Stages -> {"none", "running", "succeeded", "failed"}]]

(* Evidence is of present texts, and what is cited is there and one's own. *)
Cited(a) ==
  /\ class[a].ev \in evidence \cup {NoEvidence} /\ class[a].ev[1] \in {a, NoArtifact}
  /\ \A f \in facts[a] : /\ IsFact(f)
                         /\ f.ev \in evidence \cup {NoEvidence}
                         /\ f.ev[1] \in {a, NoArtifact}

CitedHolds ==
  /\ \A e \in evidence : e[1] \in Artifact /\ e = Ev(e[1]) /\ HasText(e[1]) /\ e[2] \notin Blank
  /\ \A a \in Artifact : Cited(a)
  /\ \A r \in relations : CitesItsOwn(r) /\ {r.srcEv, r.tgtEv} \subseteq evidence \cup {NoEvidence}

IInv ==
  /\ TablesTyped
  /\ WorkIsWhole
  /\ AttemptsLeft
  /\ Exclusive
  /\ CitedHolds
  /\ \A w \in Worker : Busy(w) => KnowsIts(w)
  /\ \A w \in Worker : ~Busy(w) => work[w] = Free
  /\ \A a \in Artifact : job[a] = "succeeded" => Understood(a)

-----------------------------------------------------------------------------
(* Steps of one worker *)

LEMMA WorkFields ==
  ASSUME WorkIsWhole, NEW w \in Worker
  PROVE  work[w] = [art |-> work[w].art, stage |-> work[w].stage, at |-> work[w].at,
                    found |-> work[w].found, pending |-> work[w].pending]
BY DEF WorkIsWhole

(* A worker that is given a new record. *)
IsWork(r) == r = [art |-> r.art, stage |-> r.stage, at |-> r.at, found |-> r.found,
                  pending |-> r.pending]

LEMMA Replaced ==
  ASSUME WorkIsWhole, NEW w \in Worker, NEW r, IsWork(r), work' = [work EXCEPT ![w] = r]
  PROVE  /\ WorkIsWhole'
         /\ work'[w] = r
         /\ \A v \in Worker \ {w} : work'[v] = work[v]
<1>1. w \in DOMAIN work BY DEF WorkIsWhole
<1>2. work'[w] = r BY <1>1
<1>3. \A v \in Worker \ {w} : work'[v] = work[v] BY <1>1 DEF WorkIsWhole
<1>4. work' = [v \in Worker |-> work'[v]] BY DEF WorkIsWhole
<1>5. \A v \in Worker : work'[v] = [art |-> work'[v].art, stage |-> work'[v].stage,
        at |-> work'[v].at, found |-> work'[v].found, pending |-> work'[v].pending]
  BY <1>2, <1>3, WorkFields DEF IsWork
<1>6. WorkIsWhole' BY <1>4, <1>5 DEF WorkIsWhole
<1>7. QED BY <1>2, <1>3, <1>6

LEMMA RecordUpdates ==
  ASSUME NEW r, r = [art |-> r.art, stage |-> r.stage, at |-> r.at, found |-> r.found,
                     pending |-> r.pending],
         NEW at, NEW f, NEW p
  PROVE  /\ [r EXCEPT !.at = at] = [art |-> r.art, stage |-> r.stage, at |-> at,
                                    found |-> r.found, pending |-> r.pending]
         /\ [r EXCEPT !.found = f] = [art |-> r.art, stage |-> r.stage, at |-> r.at,
                                      found |-> f, pending |-> r.pending]
         /\ [r EXCEPT !.pending = p] = [art |-> r.art, stage |-> r.stage, at |-> r.at,
                                        found |-> r.found, pending |-> p]
<1>1. DOMAIN r = {"art", "stage", "at", "found", "pending"} OBVIOUS
<1>2. [r EXCEPT !.at = at] = [art |-> r.art, stage |-> r.stage, at |-> at,
                              found |-> r.found, pending |-> r.pending]
  BY <1>1
<1>3. [r EXCEPT !.found = f] = [art |-> r.art, stage |-> r.stage, at |-> r.at,
                                found |-> f, pending |-> r.pending]
  BY <1>1
<1>4. [r EXCEPT !.pending = p] = [art |-> r.art, stage |-> r.stage, at |-> r.at,
                                  found |-> r.found, pending |-> p]
  BY <1>1
<1>5. QED BY <1>2, <1>3, <1>4

LEMMA Moved ==
  ASSUME WorkIsWhole, NEW w \in Worker, NEW at,
         Move(w, at)
  PROVE  /\ WorkIsWhole'
         /\ work'[w] = [art |-> work[w].art, stage |-> work[w].stage, at |-> at,
                         found |-> work[w].found, pending |-> work[w].pending]
         /\ \A v \in Worker \ {w} : work'[v] = work[v]
<1> DEFINE new == [art |-> work[w].art, stage |-> work[w].stage, at |-> at,
                         found |-> work[w].found, pending |-> work[w].pending]
<1>1. new = [work[w] EXCEPT !.at = at] BY RecordUpdates, WorkFields
<1>2. work' = [work EXCEPT ![w] = new] BY <1>1 DEF WorkIsWhole, Move
<1>3. IsWork(new) BY DEF IsWork
<1> HIDE DEF new
<1>4. /\ WorkIsWhole'
      /\ work'[w] = new
      /\ \A v \in Worker \ {w} : work'[v] = work[v]
  BY <1>2, <1>3, Replaced
<1>5. QED BY <1>4 DEF new

LEMMA Found ==
  ASSUME WorkIsWhole, NEW w \in Worker, NEW f,
         Find(w, f)
  PROVE  /\ WorkIsWhole'
         /\ work'[w] = [art |-> work[w].art, stage |-> work[w].stage, at |-> "write",
                         found |-> f, pending |-> work[w].pending]
         /\ \A v \in Worker \ {w} : work'[v] = work[v]
<1> DEFINE new == [art |-> work[w].art, stage |-> work[w].stage, at |-> "write",
                         found |-> f, pending |-> work[w].pending]
<1> DEFINE half == [art |-> work[w].art, stage |-> work[w].stage, at |-> work[w].at,
                         found |-> f, pending |-> work[w].pending]
<1>0. half = [work[w] EXCEPT !.found = f] BY RecordUpdates, WorkFields
<1>1. new = [half EXCEPT !.at = "write"] OBVIOUS
<1>2. work' = [work EXCEPT ![w] = new] BY <1>0, <1>1 DEF WorkIsWhole, Find
<1>3. IsWork(new) BY DEF IsWork
<1> HIDE DEF new
<1>4. /\ WorkIsWhole'
      /\ work'[w] = new
      /\ \A v \in Worker \ {w} : work'[v] = work[v]
  BY <1>2, <1>3, Replaced
<1>5. QED BY <1>4 DEF new

LEMMA Proposed ==
  ASSUME WorkIsWhole, NEW w \in Worker, NEW f, NEW p,
         Propose(w, f, p)
  PROVE  /\ WorkIsWhole'
         /\ work'[w] = [art |-> work[w].art, stage |-> work[w].stage, at |-> "write",
                         found |-> f, pending |-> p]
         /\ \A v \in Worker \ {w} : work'[v] = work[v]
<1> DEFINE new == [art |-> work[w].art, stage |-> work[w].stage, at |-> "write",
                   found |-> f, pending |-> p]
           third == [art |-> work[w].art, stage |-> work[w].stage, at |-> work[w].at,
                     found |-> f, pending |-> work[w].pending]
           half == [art |-> work[w].art, stage |-> work[w].stage, at |-> work[w].at,
                    found |-> f, pending |-> p]
<1>0. third = [work[w] EXCEPT !.found = f] BY RecordUpdates, WorkFields
<1>1. half = [third EXCEPT !.pending = p] OBVIOUS
<1>2. new = [half EXCEPT !.at = "write"] OBVIOUS
<1>3. work' = [work EXCEPT ![w] = new] BY <1>0, <1>1, <1>2 DEF WorkIsWhole, Propose
<1>4. IsWork(new) BY DEF IsWork
<1> HIDE DEF new
<1>5. /\ WorkIsWhole'
      /\ work'[w] = new
      /\ \A v \in Worker \ {w} : work'[v] = work[v]
  BY <1>3, <1>4, Replaced
<1>6. QED BY <1>5 DEF new

LEMMA FollowingIs ==
  /\ Following["extract_artifact"] = "classify_artifact"
  /\ Following["classify_artifact"] = "extract_fields"
  /\ Following["extract_fields"] = "reconcile_artifact"
  /\ Following["reconcile_artifact"] = "cluster_threads"
  /\ Following["cluster_threads"] = "return"
BY DEF Following, Stages

LEMMA EarlierIs ==
  /\ Earlier["extract_artifact"] = {}
  /\ Earlier["classify_artifact"] = {"extract_artifact"}
  /\ Earlier["extract_fields"] = {"extract_artifact", "classify_artifact"}
  /\ Earlier["reconcile_artifact"] = {"extract_artifact", "classify_artifact", "extract_fields"}
  /\ Earlier["cluster_threads"] = Stages \ {"cluster_threads"}
  /\ Earlier["return"] = Stages
BY DEF Earlier, Stages

-----------------------------------------------------------------------------
(* What a step leaves alone *)

(* The rows of an artifact b are the same. *)
RowsKept(b) ==
  /\ job'[b] = job[b] /\ attempts'[b] = attempts[b] /\ text'[b] = text[b]
  /\ class'[b] = class[b] /\ facts'[b] = facts[b] /\ stage'[b] = stage[b]
  /\ Ev(b) \in evidence => Ev(b) \in evidence'

LEMMA OthersKnow ==
  ASSUME NEW v \in Worker, KnowsIts(v), work'[v] = work[v], RowsKept(work[v].art)
  PROVE  KnowsIts(v)'
<1> DEFINE a == work[v].art
<1>1. /\ Ev(a)' = Ev(a) /\ (HasText(a) => HasText(a)') /\ (Evidenced(a) => Evidenced(a)')
      /\ (Classified(a) => Classified(a)') /\ (FactsCiteText(a) => FactsCiteText(a)')
  BY DEF RowsKept, Ev, HasText, Evidenced, Classified, FactsCiteText, bestEvidenceForClass
<1>2. /\ (PastText(v)' <=> PastText(v)) /\ (PastEvidence(v)' <=> PastEvidence(v))
      /\ (PastClass(v)' <=> PastClass(v)) /\ (PastFacts(v)' <=> PastFacts(v))
      /\ \A s, at : At(v, s, at)' <=> At(v, s, at)
  BY DEF PastText, PastEvidence, PastClass, PastFacts, At
<1>3. /\ Marked(a, Earlier[work[v].stage]) => Marked(a, Earlier[work[v].stage])'
      /\ Sound(work[v].found, a) => Sound(work[v].found, a)'
  BY <1>1 DEF RowsKept, Marked, Sound
<1>4. \A r : CitesItsOwn(r)' <=> CitesItsOwn(r) BY DEF CitesItsOwn
<1>5. QED BY <1>1, <1>2, <1>3, <1>4 DEF KnowsIts, RowsKept

LEMMA OthersUnderstood ==
  ASSUME NEW b, Understood(b), RowsKept(b)
  PROVE  Understood(b)'
BY DEF RowsKept, Understood, Ev, HasText, Evidenced, Classified, FactsCiteText, Marked,
       bestEvidenceForClass

(* A step of a worker that touches nothing but what is its artifact's. *)
LEMMA OneWorkerSteps ==
  ASSUME IInv, NEW w \in Worker, Busy(w),
         WorkIsWhole', \A v \in Worker \ {w} : work'[v] = work[v],
         \A b \in Artifact \ {work[w].art} : RowsKept(b),
         Busy(w)' => work'[w].art = work[w].art /\ KnowsIts(w)',
         ~Busy(w)' => work'[w] = Free,
         \A b \in Artifact : b = work[w].art /\ job'[b] = "succeeded" => Understood(b)',
         job'[work[w].art] = "failed" => attempts[work[w].art] < MaxAttempts,
         job'[work[w].art] # "queued", attempts' = attempts,
         TablesTyped', CitedHolds'
  PROVE  IInv'
<1> DEFINE a == work[w].art
<1>1. ASSUME NEW v \in Worker \ {w}, Busy(v)' PROVE KnowsIts(v)' /\ work'[v].art # a
  <2>1. Busy(v) /\ work[v].art # a BY <1>1 DEF Busy, IInv, Exclusive
  <2>2. KnowsIts(v) /\ work[v].art \in Artifact BY <2>1 DEF IInv, KnowsIts
  <2>3. RowsKept(work[v].art) BY <2>1, <2>2
  <2>4. QED BY <2>1, <2>2, <2>3, OthersKnow
<1>2. \A v \in Worker : Busy(v)' => KnowsIts(v)' BY <1>1
<1>3. \A v \in Worker : ~Busy(v)' => work'[v] = Free BY DEF IInv, Busy
<1>4. Exclusive'
  <2>1. \A v \in Worker : Busy(v)' => Busy(v) /\ work'[v].art = work[v].art
    BY DEF Busy
  <2>2. QED BY <2>1 DEF Exclusive, IInv, Busy
<1>5. AttemptsLeft'
  <2>1. job[a] = "running" BY DEF IInv, KnowsIts
  <2>2. QED BY <2>1 DEF AttemptsLeft, IInv, RowsKept
<1>6. ASSUME NEW b \in Artifact, job'[b] = "succeeded" PROVE Understood(b)'
  <2>1. CASE b = a BY <1>6, <2>1
  <2>2. CASE b # a
    <3>1. RowsKept(b) BY <2>2
    <3>2. Understood(b) BY <1>6, <3>1 DEF RowsKept, IInv
    <3>3. QED BY <3>1, <3>2, OthersUnderstood
  <2>3. QED BY <2>1, <2>2
<1>7. QED BY <1>2, <1>3, <1>4, <1>5, <1>6 DEF IInv

(* A step that changes the position of a worker only. *)
LEMMA QuietStep ==
  ASSUME IInv, NEW w \in Worker, Busy(w), UNCHANGED <<job, attempts, derived, stage>>,
         WorkIsWhole', \A v \in Worker \ {w} : work'[v] = work[v],
         work'[w].art = work[w].art, KnowsIts(w)'
  PROVE  IInv'
<1>1. TablesTyped' BY DEF TablesTyped, IInv, derived
<1>2. CitedHolds' BY DEF CitedHolds, Cited, CitesItsOwn, Ev, HasText, IInv, derived
<1>3. \A b \in Artifact : RowsKept(b) BY DEF RowsKept, derived
<1>4. job[work[w].art] = "running" BY DEF IInv, KnowsIts
<1>5. Busy(w)' BY DEF Busy
<1>6. job'[work[w].art] = "running" BY <1>4
<1>7. QED BY <1>1, <1>2, <1>3, <1>5, <1>6, OneWorkerSteps

-----------------------------------------------------------------------------
(* Init and the steps of the stages *)

LEMMA InitIInv == Init => IInv
<1> SUFFICES ASSUME Init PROVE IInv OBVIOUS
<1>1. MaxAttempts > 0 /\ 0 \in 0..MaxAttempts BY AttemptsAssumption
<1>2. TablesTyped
  <2>1. stage \in [Artifact -> [Stages -> {"none", "running", "succeeded", "failed"}]]
    BY DEF Init
  <2>2. text \in [Artifact -> Text \cup {NoText}] BY DEF Init
  <2>3. QED BY <1>1, <2>1, <2>2 DEF Init, TablesTyped, Unclassified
<1>3. \A w \in Worker : work[w] = Free /\ ~Busy(w) BY DEF Init, Busy, Free
<1>4. WorkIsWhole BY <1>3 DEF Init, WorkIsWhole, Free
<1>5. CitedHolds BY DEF Init, CitedHolds, Cited, Unclassified, NoEvidence
<1>6. QED BY <1>1, <1>2, <1>3, <1>4, <1>5 DEF Init, IInv, AttemptsLeft, Exclusive

(* A record of work with a place and nothing found. *)
LEMMA Placed ==
  ASSUME NEW a, NEW s, NEW at
  PROVE  Place(a, s, at) = [art |-> a, stage |-> s, at |-> at, found |-> {}, pending |-> {}]
<1> DEFINE r1 == [art |-> a, stage |-> "return", at |-> "begin", found |-> {}, pending |-> {}]
           r2 == [art |-> a, stage |-> s, at |-> "begin", found |-> {}, pending |-> {}]
<1>1. [Free EXCEPT !.art = a] = r1 BY DEF Free
<1>2. [r1 EXCEPT !.stage = s] = r2 OBVIOUS
<1>3. [r2 EXCEPT !.at = at] =
        [art |-> a, stage |-> s, at |-> at, found |-> {}, pending |-> {}] OBVIOUS
<1>4. QED BY <1>1, <1>2, <1>3 DEF Place

LEMMA BeginStep ==
  ASSUME IInv, NEW w \in Worker, NEW a \in Artifact, Begin(w, a)
  PROVE  IInv'
<1> DEFINE new == [art |-> a, stage |-> "extract_artifact", at |-> "read",
                   found |-> {}, pending |-> {}]
<1>0. new = Place(a, "extract_artifact", "read") BY Placed
<1>1. work' = [work EXCEPT ![w] = new] BY <1>0 DEF Begin
<1>2. IsWork(new) BY DEF IsWork
<1>3. /\ WorkIsWhole' /\ work'[w] = new
      /\ \A v \in Worker \ {w} : work'[v] = work[v]
  <2> HIDE DEF new
  <2>1. QED BY <1>1, <1>2, Replaced DEF IInv
<1>4. job[a] \in {"queued", "failed"} /\ job' = [job EXCEPT ![a] = "running"]
      /\ attempts' = [attempts EXCEPT ![a] = @ + 1] /\ UNCHANGED <<derived, stage>>
  BY DEF Begin
<1>5. TablesTyped'
  <2>1. attempts[a] \in Nat /\ attempts[a] + 1 \in 0..MaxAttempts
    BY <1>4, AttemptsAssumption DEF IInv, TablesTyped, AttemptsLeft
  <2>2. attempts' \in [Artifact -> 0..MaxAttempts] BY <1>4, <2>1 DEF IInv, TablesTyped
  <2>3. QED BY <1>4, <2>2 DEF IInv, TablesTyped, derived
<1>6. CitedHolds' BY <1>4 DEF CitedHolds, Cited, CitesItsOwn, Ev, HasText, IInv, derived
<1>7. \A b \in Artifact \ {a} : RowsKept(b)
  BY <1>4 DEF RowsKept, derived, IInv, TablesTyped
<1>8. \A v \in Worker \ {w} : Busy(v) => work[v].art # a /\ KnowsIts(v)
  BY <1>4 DEF IInv, KnowsIts
<1>9. KnowsIts(w)'
  BY <1>3, <1>4, EarlierIs
  DEF KnowsIts, Positions, PastText, PastEvidence, PastClass, PastFacts, Marked, At, IInv,
      TablesTyped
<1>10. \A v \in Worker : Busy(v)' => KnowsIts(v)'
  <2>1. ASSUME NEW v \in Worker \ {w}, Busy(v)' PROVE KnowsIts(v)'
    <3>1. Busy(v) BY <1>3, <2>1 DEF Busy
    <3>2. work[v].art \in Artifact \ {a} /\ KnowsIts(v) BY <1>8, <3>1 DEF KnowsIts
    <3>3. RowsKept(work[v].art) BY <1>7, <3>2
    <3>4. QED BY <1>3, <3>2, <3>3, OthersKnow
  <2>2. QED BY <1>9, <2>1
<1>11. \A v \in Worker : ~Busy(v)' => work'[v] = Free
  BY <1>3, NoneAssumption DEF IInv, Busy
<1>12. Exclusive' BY <1>3, <1>8 DEF Exclusive, Busy, IInv
<1>13. AttemptsLeft' BY <1>4 DEF AttemptsLeft, IInv, TablesTyped
<1>14. \A b \in Artifact : job'[b] = "succeeded" => Understood(b)'
  <2>1. ASSUME NEW b \in Artifact, job'[b] = "succeeded" PROVE Understood(b)'
    <3>1. b # a /\ job[b] = "succeeded" BY <1>4, <2>1 DEF IInv, TablesTyped
    <3>2. QED BY <1>7, <3>1, OthersUnderstood DEF IInv
  <2>2. QED BY <2>1
<1>15. QED
  BY <1>3, <1>5, <1>6, <1>10, <1>11, <1>12, <1>13, <1>14 DEF IInv

(* What the guard of a step of a worker says. *)
LEMMA Standing ==
  ASSUME IInv, NEW w \in Worker, NEW s, NEW at, At(w, s, at)
  PROVE  /\ Busy(w) /\ KnowsIts(w) /\ work[w].stage = s /\ work[w].at = at
         /\ work[w].art \in Artifact /\ WorkIsWhole
         /\ job[work[w].art] = "running"
BY DEF At, Busy, IInv, KnowsIts

LEMMA PersistExtractionStep ==
  ASSUME IInv, NEW w \in Worker, PersistExtraction(w)
  PROVE  IInv'
<1> DEFINE a == work[w].art
<1>1. /\ Busy(w) /\ KnowsIts(w) /\ work[w].stage = "extract_artifact" /\ work[w].at = "read"
      /\ a \in Artifact /\ WorkIsWhole /\ job[a] = "running"
  BY Standing DEF PersistExtraction
<1>2. /\ Cascade(a) /\ UNCHANGED <<job, attempts, stage>>
      /\ \E t \in Extracted[a] : text' = [text EXCEPT ![a] = t]
  BY DEF PersistExtraction
<1>3. /\ WorkIsWhole'
      /\ work'[w] = [art |-> a, stage |-> "extract_artifact", at |-> "succeed",
                      found |-> work[w].found, pending |-> work[w].pending]
      /\ \A v \in Worker \ {w} : work'[v] = work[v]
  BY <1>1, Moved DEF PersistExtraction
<1>4. /\ text' \in [Artifact -> Text \cup {NoText}] /\ text'[a] \in Text
      /\ \A b \in Artifact \ {a} : text'[b] = text[b]
  BY <1>1, <1>2, ExtractedAssumption DEF IInv, TablesTyped
<1>5. evidence' = {ev \in evidence : ev[1] # a} BY <1>2 DEF Cascade
<1>6. /\ class' = [b \in Artifact |-> class'[b]]
      /\ \A b \in Artifact \ {a} : class'[b] = class[b]
      /\ class'[a] = [class |-> class[a].class, ev |-> NoEvidence]
  <2>1. class = [b \in Artifact |-> class[b]]
        /\ class[a] = [class |-> class[a].class, ev |-> class[a].ev]
    BY <1>1 DEF IInv, TablesTyped
  <2>2. class' = [class EXCEPT ![a] = [class[a] EXCEPT !.ev = NoEvidence]]
    BY <1>2, <2>1 DEF Cascade
  <2>3. [class[a] EXCEPT !.ev = NoEvidence] = [class |-> class[a].class, ev |-> NoEvidence]
    BY <2>1
  <2>4. QED BY <1>1, <2>1, <2>2, <2>3
<1>7. /\ facts' = [b \in Artifact |-> facts'[b]]
      /\ \A b \in Artifact \ {a} : facts'[b] = facts[b]
      /\ facts'[a] = {[f EXCEPT !.ev = NoEvidence] : f \in facts[a]}
  BY <1>1, <1>2 DEF Cascade, IInv, TablesTyped
<1>8. \A f \in facts'[a] : IsFact(f) /\ f.ev = NoEvidence
  <2>1. ASSUME NEW f \in facts[a]
        PROVE  [f EXCEPT !.ev = NoEvidence] =
                 [type |-> f.type, value |-> f.value, spelled |-> f.spelled,
                  ev |-> NoEvidence, source |-> f.source, confidence |-> f.confidence]
    BY <1>1 DEF IInv, CitedHolds, Cited, IsFact
  <2>2. ASSUME NEW f \in facts'[a] PROVE IsFact(f) /\ f.ev = NoEvidence
    <3>1. PICK g \in facts[a] : f = [g EXCEPT !.ev = NoEvidence] BY <1>7
    <3>2. f = [type |-> g.type, value |-> g.value, spelled |-> g.spelled,
               ev |-> NoEvidence, source |-> g.source, confidence |-> g.confidence]
      BY <2>1, <3>1
    <3>3. QED BY <3>2 DEF IsFact
  <2>3. QED BY <2>2
<1>9. TablesTyped'
  <2>1. \A b \in Artifact : class'[b] = [class |-> class'[b].class, ev |-> class'[b].ev]
    BY <1>6 DEF IInv, TablesTyped
  <2>2. QED BY <1>2, <1>4, <1>6, <1>7, <2>1 DEF IInv, TablesTyped
<1>10. \A b \in Artifact \ {a} : RowsKept(b)
  BY <1>2, <1>4, <1>5, <1>6, <1>7 DEF RowsKept, Ev
<1>11. CitedHolds'
  <2>1. \A e \in evidence' : e[1] \in Artifact /\ e = Ev(e[1])' /\ HasText(e[1])' /\ e[2] \notin Blank
    BY <1>4, <1>5 DEF IInv, CitedHolds, Ev, HasText
  <2>2. \A b \in Artifact : Cited(b)'
    <3>1. ASSUME NEW b \in {a} PROVE Cited(b)'
      BY <1>6, <1>8 DEF Cited, NoEvidence
    <3>2. ASSUME NEW b \in Artifact \ {a} PROVE Cited(b)'
      BY <1>5, <1>6, <1>7, NoneAssumption DEF IInv, CitedHolds, Cited
    <3>3. QED BY <3>1, <3>2
  <2>3. ASSUME NEW r \in relations'
        PROVE  CitesItsOwn(r)' /\ {r.srcEv, r.tgtEv} \subseteq evidence' \cup {NoEvidence}
    <3>1. PICK q \in relations :
            r = [src |-> q.src, tgt |-> q.tgt, type |-> q.type, about |-> q.about,
                 srcEv |-> Forget(a, q.srcEv), tgtEv |-> Forget(a, q.tgtEv)]
      BY <1>2 DEF Cascade, Link
    <3>2. /\ r.src = q.src /\ r.tgt = q.tgt
          /\ r.srcEv = Forget(a, q.srcEv) /\ r.tgtEv = Forget(a, q.tgtEv)
      BY <3>1
    <3>3. CitesItsOwn(q) /\ {q.srcEv, q.tgtEv} \subseteq evidence \cup {NoEvidence}
      BY DEF IInv, CitedHolds
    <3>4. {r.srcEv, r.tgtEv} \subseteq evidence' \cup {NoEvidence}
      BY <1>5, <3>2, <3>3 DEF Forget
    <3>5. CitesItsOwn(r)'
      BY <3>2, <3>3 DEF CitesItsOwn, Forget, Evidence, NoEvidence
    <3>6. QED BY <3>4, <3>5
  <2>4. QED BY <2>1, <2>2, <2>3 DEF CitedHolds
<1>12. KnowsIts(w)'
  <2>1. \A r \in work[w].pending : r.src = a /\ CitesItsOwn(r)' BY <1>1 DEF KnowsIts, CitesItsOwn
  <2>2. QED
    BY <1>1, <1>2, <1>3, <1>4, <2>1, EarlierIs
    DEF KnowsIts, Positions, PastText, PastEvidence, PastClass, PastFacts, Marked, At, HasText
<1>13. QED BY <1>1, <1>2, <1>3, <1>9, <1>10, <1>11, <1>12, OneWorkerSteps DEF Busy

-----------------------------------------------------------------------------
(* The facts of a request, for any evidence, any findings of the rules and  *)
(* any answer of a model                                                   *)

(* What the patterns find in a piece of evidence. *)
Matches == [ev \in Artifact \X Text |-> RuleMatches[ev[2]]]

(* Requests as ExtractFacts builds them, here with any evidence. *)
IsRequest(req) == req.evidence \in Seq(DOMAIN Matches)

(* A model's answer: a list of whatever. *)
IsAnswer(answer) == DOMAIN answer \subseteq Nat

LEMMA MatchesAre ==
  ASSUME NEW e \in DOMAIN Matches
  PROVE  /\ DOMAIN Matches[e] \subseteq Nat
         /\ \A k \in DOMAIN Matches[e] : Matches[e][k].type # "document_title"
<1>1. e[2] \in Text /\ Matches[e] = RuleMatches[e[2]] BY DEF Matches
<1>2. QED BY <1>1, MatchesAssumption

LEMMA EvidenceOf ==
  ASSUME NEW req, IsRequest(req), NEW i \in DOMAIN req.evidence
  PROVE  i \in Nat /\ i >= 1 /\ req.evidence[i] \in DOMAIN Matches
BY DEF IsRequest

LEMMA PlacesArePairs ==
  ASSUME NEW req, IsRequest(req), NEW p \in Fields!Place(req)
  PROVE  /\ p = <<p[1], p[2]>>
         /\ p[1] \in DOMAIN req.evidence /\ p[1] \in Nat
         /\ p[2] \in DOMAIN Matches[req.evidence[p[1]]] /\ p[2] \in Nat
<1>1. PICK i \in DOMAIN req.evidence : p \in {i} \X DOMAIN Matches[req.evidence[i]]
  BY DEF Fields!Place, Matches
<1>2. req.evidence[i] \in DOMAIN Matches /\ i \in Nat BY EvidenceOf
<1>3. p = <<p[1], p[2]>> /\ p[1] = i /\ p[2] \in DOMAIN Matches[req.evidence[i]] BY <1>1
<1>4. QED BY <1>2, <1>3, MatchesAre

LEMMA MatchedQuote ==
  ASSUME NEW req, NEW g, \E i \in DOMAIN req.evidence : Fields!IsMatch(i, g, req)
  PROVE  Fields!matchEvidenceQuote(g, req) \in Fields!Pieces(req)
<1>1. (CHOOSE i \in DOMAIN req.evidence : Fields!IsMatch(i, g, req)) \in DOMAIN req.evidence OBVIOUS
<1>2. QED BY <1>1 DEF Fields!matchEvidenceQuote, Fields!Pieces

LEMMA AcceptableCites ==
  ASSUME NEW req, NEW g, Fields!Acceptable(g, req)
  PROVE  Fields!Cited(g, req) \in Fields!Pieces(req)
<1>1. CASE g.ev # NoEvidence BY <1>1 DEF Fields!Acceptable, Fields!CitesEvidence, Fields!Cited
<1>2. CASE g.ev = NoEvidence
  BY <1>2, MatchedQuote DEF Fields!Acceptable, Fields!CitesEvidence, Fields!Cited
<1>3. QED BY <1>1, <1>2

(* What the rules find is a title or a match that came first. *)
LEMMA RuleFactsAre ==
  ASSUME NEW req, NEW f \in Fields!RuleFacts(req)
  PROVE  \/ /\ 1 \in DOMAIN req.evidence
            /\ f = Fields!NewFact([type |-> "document_title", value |-> req.title,
                                   confidence |-> 65], req.evidence[1], "rule")
         \/ \E p \in Fields!FirstPlaces(req) :
              f = Fields!NewFact(Fields!MatchAt(p, req), req.evidence[p[1]], "rule")
BY DEF Fields!RuleFacts, Fields!TitleFacts

LEMMA ModelFactsAre ==
  ASSUME NEW answer, NEW req, NEW i \in DOMAIN Fields!ValidateGeneratedFacts(answer, req)
  PROVE  /\ i \in DOMAIN answer
         /\ Fields!Acceptable(answer[i], req)
         /\ Fields!ValidateGeneratedFacts(answer, req)[i] =
              Fields!NewFact(answer[i], Fields!Cited(answer[i], req), "llm")
BY DEF Fields!ValidateGeneratedFacts, Fields!Kept

-----------------------------------------------------------------------------
(***************************************************************************)
(* Every fact cites a piece of evidence of the request, whatever evidence  *)
(* ids and quotes the model makes up: storing it meets the foreign key.    *)
(***************************************************************************)
THEOREM FactsCite ==
  ASSUME NEW req, IsRequest(req), NEW answer, NEW f \in Fields!ExtractFacts(answer, req)
  PROVE  f.ev \in Fields!Pieces(req)
<1>1. CASE f \in Fields!RuleFacts(req)
  <2>1. CASE 1 \in DOMAIN req.evidence /\ f.ev = req.evidence[1] BY <2>1 DEF Fields!Pieces
  <2>2. CASE \E p \in Fields!FirstPlaces(req) : f.ev = req.evidence[p[1]]
    <3>1. PICK p \in Fields!FirstPlaces(req) : f.ev = req.evidence[p[1]] BY <2>2
    <3>2. p[1] \in DOMAIN req.evidence BY PlacesArePairs DEF Fields!FirstPlaces
    <3>3. QED BY <3>1, <3>2 DEF Fields!Pieces
  <2>3. QED BY <1>1, <2>1, <2>2, RuleFactsAre DEF Fields!NewFact
<1>2. CASE f \notin Fields!RuleFacts(req)
  <2>1. PICK i \in DOMAIN Fields!ValidateGeneratedFacts(answer, req) :
          f = Fields!ValidateGeneratedFacts(answer, req)[i]
    BY <1>2 DEF Fields!ExtractFacts, Fields!mergeFacts
  <2>2. f.ev = Fields!Cited(answer[i], req) /\ Fields!Acceptable(answer[i], req)
    BY <2>1, ModelFactsAre DEF Fields!NewFact
  <2>3. QED BY <2>2, AcceptableCites
<1>3. QED BY <1>1, <1>2

-----------------------------------------------------------------------------
LEMMA RulesDiffer ==
  ASSUME NEW req, IsRequest(req),
         NEW f \in Fields!RuleFacts(req), NEW g \in Fields!RuleFacts(req), Fields!Alike(f, g)
  PROVE  f = g
<1> DEFINE title == Fields!NewFact([type |-> "document_title", value |-> req.title,
                                    confidence |-> 65], req.evidence[1], "rule")
           match(p) == Fields!NewFact(Fields!MatchAt(p, req), req.evidence[p[1]], "rule")
<1>1. ASSUME NEW p \in Fields!FirstPlaces(req) PROVE match(p).type # title.type
  <2>1. p \in Fields!Place(req) BY DEF Fields!FirstPlaces
  <2>2. /\ req.evidence[p[1]] \in DOMAIN Matches
        /\ p[2] \in DOMAIN Matches[req.evidence[p[1]]]
    BY <2>1, PlacesArePairs, EvidenceOf
  <2>3. Matches[req.evidence[p[1]]][p[2]].type # "document_title" BY <2>2, MatchesAre
  <2>4. QED BY <2>3 DEF Matches, Fields!MatchAt, Fields!NewFact
<1>2. ASSUME NEW p \in Fields!FirstPlaces(req), NEW q \in Fields!FirstPlaces(req),
             Fields!Alike(match(p), match(q))
      PROVE  p = q
  <2>1. /\ Fields!SameValue(Fields!MatchAt(p, req), Fields!MatchAt(q, req))
        /\ Fields!SameValue(Fields!MatchAt(q, req), Fields!MatchAt(p, req))
    BY <1>2 DEF Fields!Alike, Fields!SameValue, Fields!NewFact
  <2>2. ~Fields!Earlier(p, q) /\ ~Fields!Earlier(q, p) BY <2>1 DEF Fields!FirstPlaces
  <2>3. p \in Fields!Place(req) /\ q \in Fields!Place(req) BY DEF Fields!FirstPlaces
  <2>4. p[1] = q[1] /\ p[2] = q[2] BY <2>2, <2>3, PlacesArePairs DEF Fields!Earlier
  <2>5. QED BY <2>3, <2>4, PlacesArePairs
<1> HIDE DEF title, match
<1>3. f = title \/ \E p \in Fields!FirstPlaces(req) : f = match(p)
  BY RuleFactsAre DEF title, match
<1>4. g = title \/ \E p \in Fields!FirstPlaces(req) : g = match(p)
  BY RuleFactsAre DEF title, match
<1>5. QED BY <1>1, <1>2, <1>3, <1>4 DEF Fields!Alike

(***************************************************************************)
(* No two facts of an artifact have one type and value, although texts     *)
(* overlap, patterns repeat and the model answers in other spellings.      *)
(***************************************************************************)
THEOREM FactsDiffer ==
  ASSUME NEW req, IsRequest(req), NEW answer, IsAnswer(answer),
         NEW f \in Fields!ExtractFacts(answer, req), NEW g \in Fields!ExtractFacts(answer, req),
         Fields!Alike(f, g)
  PROVE  f = g
<1> DEFINE G == Fields!ValidateGeneratedFacts(answer, req)
           First(i) == /\ i \in DOMAIN G
                       /\ \A h \in Fields!RuleFacts(req) : ~Fields!Alike(h, G[i])
                       /\ \A j \in DOMAIN G : j < i => ~Fields!Alike(G[j], G[i])
<1>1. DOMAIN G \subseteq Nat BY ModelFactsAre DEF IsAnswer
<1>2. f \in Fields!RuleFacts(req) \/ \E i \in DOMAIN G : First(i) /\ f = G[i]
  BY DEF Fields!ExtractFacts, Fields!mergeFacts
<1>3. g \in Fields!RuleFacts(req) \/ \E i \in DOMAIN G : First(i) /\ g = G[i]
  BY DEF Fields!ExtractFacts, Fields!mergeFacts
<1> HIDE DEF G
<1>4. Fields!Alike(g, f) BY DEF Fields!Alike
<1>5. CASE f \in Fields!RuleFacts(req) BY <1>3, <1>5, RulesDiffer
<1>6. CASE g \in Fields!RuleFacts(req) BY <1>2, <1>4, <1>6, RulesDiffer
<1>7. ASSUME NEW i \in DOMAIN G, First(i), f = G[i], NEW j \in DOMAIN G, First(j), g = G[j]
      PROVE  f = g
  <2>1. i \in Nat /\ j \in Nat BY <1>1
  <2>2. ~(i < j) BY <1>7
  <2>3. ~(j < i) BY <1>4, <1>7
  <2>4. QED BY <1>7, <2>1, <2>2, <2>3
<1>8. QED BY <1>2, <1>3, <1>5, <1>6, <1>7

(* So no primary key occurs twice. *)
THEOREM IdsDiffer ==
  ASSUME NEW req, IsRequest(req), NEW answer, IsAnswer(answer),
         NEW f \in Fields!ExtractFacts(answer, req), NEW g \in Fields!ExtractFacts(answer, req),
         Fields!FactId(f) = Fields!FactId(g)
  PROVE  f = g
<1>1. ASSUME NEW h \in Fields!ExtractFacts(answer, req) PROVE h.value = normalize[h.spelled]
  <2>1. CASE h \in Fields!RuleFacts(req) BY <2>1, RuleFactsAre DEF Fields!NewFact
  <2>2. CASE h \notin Fields!RuleFacts(req)
    BY <2>2, ModelFactsAre DEF Fields!ExtractFacts, Fields!mergeFacts, Fields!NewFact
  <2>3. QED BY <2>1, <2>2
<1>2. Fields!Alike(f, g) BY <1>1 DEF Fields!FactId, Fields!Alike
<1>3. QED BY <1>2, FactsDiffer

(* What ReplaceFacts is given is made of records of extracted_fact. *)
LEMMA FactsAreRows ==
  ASSUME NEW req, NEW answer, NEW f \in Fields!ExtractFacts(answer, req)
  PROVE  f = [type |-> f.type, value |-> f.value, spelled |-> f.spelled, ev |-> f.ev,
              source |-> f.source, confidence |-> f.confidence]
<1>1. \E g, ev, source : f = Fields!NewFact(g, ev, source)
  <2>1. CASE f \in Fields!RuleFacts(req)
    <3> DEFINE title == [type |-> "document_title", value |-> req.title, confidence |-> 65]
    <3>1. f = Fields!NewFact(title, req.evidence[1], "rule")
          \/ \E p \in Fields!FirstPlaces(req) :
               f = Fields!NewFact(Fields!MatchAt(p, req), req.evidence[p[1]], "rule")
      BY <2>1, RuleFactsAre
    <3> HIDE DEF title
    <3>2. QED BY <3>1
  <2>2. CASE f \notin Fields!RuleFacts(req)
    <3>1. PICK i \in DOMAIN Fields!ValidateGeneratedFacts(answer, req) :
            f = Fields!ValidateGeneratedFacts(answer, req)[i]
      BY <2>2 DEF Fields!ExtractFacts, Fields!mergeFacts
    <3>2. f = Fields!NewFact(answer[i], Fields!Cited(answer[i], req), "llm") BY <3>1, ModelFactsAre
    <3>3. QED BY <3>2
  <2>3. QED BY <2>1, <2>2
<1>2. QED BY <1>1 DEF Fields!NewFact

(* Without the model the facts are those of the rules, a part of the others. *)
LEMMA RulesAreKept ==
  ASSUME NEW req, NEW answer
  PROVE  Fields!RuleFacts(req) \subseteq Fields!ExtractFacts(answer, req)
BY DEF Fields!ExtractFacts, Fields!mergeFacts

-----------------------------------------------------------------------------
LEMMA LeastNatural ==
  ASSUME NEW T, T \subseteq Nat, T # {}
  PROVE  \E n \in T : \A m \in T : ~(m < n)
<1> DEFINE Less == {p \in Nat \X Nat : p[1] < p[2]}
<1>1. IsWellFoundedOn(Less, Nat) BY NatLessThanWellFounded DEF OpToRel
<1> HIDE DEF Less
<1>2. PICK n \in T : \A m \in T : <<m, n>> \notin Less BY <1>1, WFMin
<1>3. QED BY <1>2 DEF Less

(***************************************************************************)
(* Nothing that passes the checks is lost: for every such answer there is  *)
(* a fact of its type and value, of the rules or of the model.             *)
(***************************************************************************)
THEOREM NothingAcceptableIsLost ==
  ASSUME NEW req, NEW answer, IsAnswer(answer),
         NEW i \in DOMAIN answer, Fields!Acceptable(answer[i], req)
  PROVE  \E f \in Fields!ExtractFacts(answer, req) :
           f.type = answer[i].type /\ f.value = normalize[answer[i].value]
<1> DEFINE T == {j \in DOMAIN answer : /\ Fields!Acceptable(answer[j], req)
                                       /\ Fields!SameValue(answer[j], answer[i])}
           G == Fields!ValidateGeneratedFacts(answer, req)
<1>1. i \in T BY DEF Fields!SameValue
<1>2. PICK n \in T : \A m \in T : ~(m < n) BY <1>1, LeastNatural DEF IsAnswer
<1>3. n \in DOMAIN G
  <2>1. \A j \in DOMAIN answer : j < n /\ Fields!Acceptable(answer[j], req) =>
          ~Fields!Repeats(answer[n], answer[j], req)
    BY <1>2 DEF Fields!Repeats, Fields!SameValue
  <2>2. QED BY <2>1 DEF Fields!ValidateGeneratedFacts, Fields!Kept
<1>4. G[n].type = answer[i].type /\ G[n].value = normalize[answer[i].value]
  BY <1>3, ModelFactsAre DEF Fields!NewFact, Fields!SameValue
<1>5. CASE \E f \in Fields!RuleFacts(req) : Fields!Alike(f, G[n])
  BY <1>4, <1>5 DEF Fields!Alike, Fields!ExtractFacts, Fields!mergeFacts
<1>6. CASE \A f \in Fields!RuleFacts(req) : ~Fields!Alike(f, G[n])
  <2>1. ASSUME NEW j \in DOMAIN G, j < n PROVE ~Fields!Alike(G[j], G[n])
    <3>1. j \in DOMAIN answer /\ Fields!Acceptable(answer[j], req) BY ModelFactsAre
    <3>2. j \notin T BY <1>2, <2>1
    <3>3. QED
      BY <1>4, <3>1, <3>2, ModelFactsAre DEF Fields!Alike, Fields!NewFact, Fields!SameValue
  <2>2. G[n] \in Fields!ExtractFacts(answer, req)
    BY <1>3, <1>6, <2>1 DEF Fields!ExtractFacts, Fields!mergeFacts
  <2>3. QED BY <1>4, <2>2
<1>7. QED BY <1>5, <1>6

-----------------------------------------------------------------------------
FactsWith(answer, req) == Fields!ExtractFacts(answer, req)
FactsWithout(req) == Fields!RuleFacts(req)

(* Facts of one piece of evidence, of the rules or with any answer.  The   *)
(* request is a value: the database may change while the model answers.    *)
LEMMA FactsAreSound ==
  ASSUME NEW a \in Artifact, NEW t \in Text,
         NEW req, req.evidence = IF t \in Blank THEN <<>> ELSE << <<a, t>> >>,
         NEW answer, DOMAIN answer \subseteq Nat,
         NEW S, S \in {FactsWith(answer, req), FactsWithout(req)}
  PROVE  SoundFrom(S, <<a, t>>)
<1> DEFINE all == Fields!ExtractFacts(answer, req)
<1>1. S \subseteq all BY RulesAreKept DEF FactsWith, FactsWithout
<1>2. IsRequest(req)
  <2>1. <<a, t>> \in Artifact \X Text OBVIOUS
  <2>2. << <<a, t>> >> \in Seq(Artifact \X Text) /\ <<>> \in Seq(Artifact \X Text) BY <2>1
  <2>3. QED BY <2>2 DEF IsRequest, Matches
<1>3. Fields!Pieces(req) = IF t \in Blank THEN {} ELSE {<<a, t>>} BY DEF Fields!Pieces
<1>4. \A f \in all : f.ev = <<a, t>> /\ t \notin Blank BY <1>2, <1>3, FactsCite
<1>5. \A f \in all : IsFact(f) BY FactsAreRows DEF IsFact
<1>6. IsAnswer(answer) BY DEF IsAnswer
<1>7. ASSUME NEW f \in all, NEW g \in all, Fields!FactId(f) = Fields!FactId(g) PROVE f = g
  BY <1>2, <1>6, <1>7, IdsDiffer
<1>8. QED BY <1>1, <1>4, <1>5, <1>7 DEF SoundFrom

-----------------------------------------------------------------------------
(* The steps of the stages *)

(* A worker that only moves keeps what it had found. *)
LEMMA PendingStays ==
  ASSUME NEW w \in Worker, KnowsIts(w), NEW S, S \subseteq work[w].pending
  PROVE  \A r \in S : r.src = work[w].art /\ CitesItsOwn(r)'
BY DEF KnowsIts, CitesItsOwn

(* The parts of KnowsIts after a step, said of a fixed artifact and stage. *)
LEMMA Arrived ==
  ASSUME NEW w \in Worker, NEW a \in Artifact, NEW s, NEW at, NEW f,
         work'[w].art = a, work'[w].stage = s, work'[w].at = at, work'[w].found = f,
         job'[a] = "running", <<s, at>> \in Positions,
         PastText(w)' => HasText(a)', PastEvidence(w)' => Evidenced(a)',
         PastClass(w)' => Classified(a)', PastFacts(w)' => FactsCiteText(a)',
         \A q \in Earlier[s] : stage'[a][q] = "succeeded",
         At(w, "extract_fields", "write")' => Sound(f, a)',
         At(w, "reconcile_artifact", "write")' => f \subseteq facts'[a],
         \A r \in work'[w].pending : r.src = a /\ CitesItsOwn(r)'
  PROVE  KnowsIts(w)'
BY DEF KnowsIts, Marked

LEMMA MarkStageRunningStep ==
  ASSUME IInv, NEW w \in Worker, Busy(w), MarkStageRunning(w)
  PROVE  IInv'
<1>0. work[w].art \in Artifact BY DEF IInv, KnowsIts
<1> PICK a \in Artifact : a = work[w].art BY <1>0
<1> PICK s : s = work[w].stage OBVIOUS
<1>1. /\ KnowsIts(w) /\ WorkIsWhole /\ job[a] = "running"
      /\ work[w].at = "mark" /\ s \in Stages
      /\ stage' = [stage EXCEPT ![a][s] = "running"]
      /\ Move(w, "read") /\ UNCHANGED <<job, attempts, derived>>
  BY DEF IInv, KnowsIts, MarkStageRunning
<1>2. /\ WorkIsWhole'
      /\ work'[w] = [art |-> a, stage |-> s, at |-> "read",
                      found |-> work[w].found, pending |-> work[w].pending]
      /\ \A v \in Worker \ {w} : work'[v] = work[v]
  BY <1>1, Moved
<1>3. /\ stage' \in [Artifact -> [Stages -> {"none", "running", "succeeded", "failed"}]]
      /\ \A b \in Artifact \ {a} : stage'[b] = stage[b]
      /\ \A q \in Stages \ {s} : stage'[a][q] = stage[a][q]
  BY <1>1 DEF IInv, TablesTyped
<1>4. TablesTyped' BY <1>1, <1>3 DEF IInv, TablesTyped, derived
<1>5. CitedHolds' BY <1>1 DEF CitedHolds, Cited, CitesItsOwn, Ev, HasText, IInv, derived
<1>6. \A b \in Artifact \ {a} : RowsKept(b) BY <1>1, <1>3 DEF RowsKept, derived
<1>7. /\ <<s, "read">> \in Positions /\ s # "extract_artifact"
      /\ Earlier[s] \subseteq Stages \ {s}
  BY <1>1, EarlierIs DEF KnowsIts, Positions, Stages
<1>8. /\ (PastText(w)' => PastText(w)) /\ (PastEvidence(w)' => PastEvidence(w))
      /\ (PastClass(w)' => PastClass(w)) /\ (PastFacts(w)' => PastFacts(w))
      /\ ~At(w, "extract_fields", "write")' /\ ~At(w, "reconcile_artifact", "write")'
  BY <1>1, <1>2, <1>7 DEF PastText, PastEvidence, PastClass, PastFacts, At
<1>9. /\ (HasText(a)' <=> HasText(a)) /\ (Evidenced(a)' <=> Evidenced(a))
      /\ (Classified(a)' <=> Classified(a)) /\ (FactsCiteText(a)' <=> FactsCiteText(a))
  BY <1>1 DEF HasText, Evidenced, Classified, FactsCiteText, Ev, bestEvidenceForClass, derived
<1>10. \A q \in Earlier[s] : stage'[a][q] = "succeeded"
  BY <1>1, <1>3, <1>7 DEF KnowsIts, Marked
<1>11. \A r \in work[w].pending : r.src = a /\ CitesItsOwn(r)' BY <1>1, PendingStays
<1>12. KnowsIts(w)' BY <1>1, <1>2, <1>7, <1>8, <1>9, <1>10, <1>11, Arrived DEF KnowsIts
<1>13. QED BY <1>1, <1>2, <1>4, <1>5, <1>6, <1>12, OneWorkerSteps DEF Busy

LEMMA StageFollows ==
  ASSUME NEW s \in Stages
  PROVE  /\ Following[s] \notin {"extract_artifact", s}
         /\ Earlier[s] \subseteq Stages
         /\ Earlier[Following[s]] = Earlier[s] \cup {s}
         /\ <<Following[s], "mark">> \in Positions
         /\ s = "extract_artifact" => Following[s] = "classify_artifact"
         /\ s = "classify_artifact" => Following[s] = "extract_fields"
         /\ s = "extract_fields" => Following[s] = "reconcile_artifact"
BY FollowingIs, EarlierIs DEF Stages, Positions

LEMMA MarkStageSucceededStep ==
  ASSUME IInv, NEW w \in Worker, Busy(w), MarkStageSucceeded(w)
  PROVE  IInv'
<1>0. work[w].art \in Artifact BY DEF IInv, KnowsIts
<1> PICK a \in Artifact : a = work[w].art BY <1>0
<1> PICK s : s = work[w].stage OBVIOUS
<1> PICK next : next = Following[s] OBVIOUS
<1> DEFINE new == [art |-> a, stage |-> next, at |-> "mark", found |-> {}, pending |-> {}]
<1>1. /\ KnowsIts(w) /\ WorkIsWhole /\ job[a] = "running"
      /\ work[w].at = "succeed" /\ stage' = [stage EXCEPT ![a][s] = "succeeded"]
      /\ UNCHANGED <<job, attempts, derived>>
  BY DEF IInv, KnowsIts, MarkStageSucceeded
<1>2. s \in Stages BY <1>1 DEF KnowsIts, Positions, Stages
<1>3. /\ WorkIsWhole' /\ work'[w] = new
      /\ \A v \in Worker \ {w} : work'[v] = work[v]
  <2>1. new = Place(a, next, "mark") BY Placed
  <2>2. work' = [work EXCEPT ![w] = new] BY <2>1 DEF MarkStageSucceeded
  <2>3. IsWork(new) BY DEF IsWork
  <2> HIDE DEF new
  <2>4. QED BY <1>1, <2>2, <2>3, Replaced
<1>4. /\ stage' \in [Artifact -> [Stages -> {"none", "running", "succeeded", "failed"}]]
      /\ \A b \in Artifact \ {a} : stage'[b] = stage[b]
      /\ \A q \in Stages \ {s} : stage'[a][q] = stage[a][q]
      /\ stage'[a][s] = "succeeded"
  BY <1>1, <1>2 DEF IInv, TablesTyped
<1>5. TablesTyped' BY <1>1, <1>4 DEF IInv, TablesTyped, derived
<1>6. CitedHolds' BY <1>1 DEF CitedHolds, Cited, CitesItsOwn, Ev, HasText, IInv, derived
<1>7. \A b \in Artifact \ {a} : RowsKept(b) BY <1>1, <1>4 DEF RowsKept, derived
<1>8. /\ next \notin {"extract_artifact", s} /\ <<next, "mark">> \in Positions
      /\ Earlier[next] = Earlier[s] \cup {s} /\ Earlier[s] \subseteq Stages
      /\ s = "extract_artifact" => next = "classify_artifact"
      /\ s = "classify_artifact" => next = "extract_fields"
      /\ s = "extract_fields" => next = "reconcile_artifact"
  BY <1>2, StageFollows
<1>9. /\ PastText(w)
      /\ (PastEvidence(w)' => PastEvidence(w))
      /\ (PastClass(w)' => PastClass(w)) /\ (PastFacts(w)' => PastFacts(w))
      /\ ~At(w, "extract_fields", "write")' /\ ~At(w, "reconcile_artifact", "write")'
  BY <1>1, <1>3, <1>8 DEF PastText, PastEvidence, PastClass, PastFacts, At
<1>10. /\ (HasText(a)' <=> HasText(a)) /\ (Evidenced(a)' <=> Evidenced(a))
       /\ (Classified(a)' <=> Classified(a)) /\ (FactsCiteText(a)' <=> FactsCiteText(a))
  BY <1>1 DEF HasText, Evidenced, Classified, FactsCiteText, Ev, bestEvidenceForClass, derived
<1>11. \A q \in Earlier[next] : stage'[a][q] = "succeeded"
  BY <1>1, <1>4, <1>8 DEF KnowsIts, Marked
<1>12. KnowsIts(w)' BY <1>1, <1>3, <1>8, <1>9, <1>10, <1>11, Arrived DEF KnowsIts
<1>13. QED BY <1>1, <1>3, <1>5, <1>6, <1>7, <1>12, OneWorkerSteps DEF Busy

LEMMA UpsertEvidenceStep ==
  ASSUME IInv, NEW w \in Worker, UpsertEvidence(w)
  PROVE  IInv'
<1> DEFINE a == work[w].art
<1>1. /\ Busy(w) /\ KnowsIts(w) /\ work[w].stage = "classify_artifact" /\ work[w].at = "read"
      /\ a \in Artifact /\ WorkIsWhole /\ job[a] = "running"
  BY Standing DEF UpsertEvidence
<1>2. /\ evidence' = evidence \cup Pieces(a) /\ Move(w, "write")
      /\ UNCHANGED <<job, attempts, text, class, facts, relations, stage>>
  BY DEF UpsertEvidence
<1>3. /\ WorkIsWhole'
      /\ work'[w] = [art |-> a, stage |-> "classify_artifact", at |-> "write",
                      found |-> work[w].found, pending |-> work[w].pending]
      /\ \A v \in Worker \ {w} : work'[v] = work[v]
  BY <1>1, <1>2, Moved
<1>4. HasText(a) BY <1>1 DEF KnowsIts, PastText
<1>5. TablesTyped' BY <1>2 DEF IInv, TablesTyped
<1>6. CitedHolds'
  <2>1. \A e \in evidence' : e[1] \in Artifact /\ e = Ev(e[1])' /\ HasText(e[1])' /\ e[2] \notin Blank
    BY <1>1, <1>2, <1>4 DEF IInv, CitedHolds, Ev, HasText, Pieces
  <2>2. QED BY <1>2, <2>1 DEF CitedHolds, Cited, CitesItsOwn, IInv
<1>7. \A b \in Artifact : RowsKept(b) BY <1>2 DEF RowsKept
<1>8. \A r \in work[w].pending : r.src = a /\ CitesItsOwn(r)' BY <1>1, PendingStays
<1>9. KnowsIts(w)'
  BY <1>1, <1>2, <1>3, <1>4, <1>8
  DEF KnowsIts, Positions, PastText, PastEvidence, PastClass, PastFacts, Marked, At, HasText,
      Evidenced, Ev, Pieces
<1>10. QED BY <1>1, <1>2, <1>3, <1>5, <1>6, <1>7, <1>9, OneWorkerSteps DEF Busy

LEMMA ClassifyArtifactStep ==
  ASSUME IInv, NEW w \in Worker, ClassifyArtifact(w)
  PROVE  IInv'
<1> DEFINE a == work[w].art
           new == [class |-> ClassOf[text[a]], ev |-> bestEvidenceForClass(a)]
<1>1. /\ Busy(w) /\ KnowsIts(w) /\ work[w].stage = "classify_artifact" /\ work[w].at = "write"
      /\ a \in Artifact /\ WorkIsWhole /\ job[a] = "running"
  BY Standing DEF ClassifyArtifact
<1>2. /\ class' = [class EXCEPT ![a] = new] /\ Move(w, "succeed")
      /\ UNCHANGED <<job, attempts, text, evidence, facts, relations, stage>>
  BY DEF ClassifyArtifact
<1>3. /\ WorkIsWhole'
      /\ work'[w] = [art |-> a, stage |-> "classify_artifact", at |-> "succeed",
                      found |-> work[w].found, pending |-> work[w].pending]
      /\ \A v \in Worker \ {w} : work'[v] = work[v]
  BY <1>1, <1>2, Moved
<1>4. HasText(a) /\ Evidenced(a) BY <1>1 DEF KnowsIts, PastText, PastEvidence
<1>5. /\ class' = [b \in Artifact |-> class'[b]] /\ class'[a] = new
      /\ \A b \in Artifact \ {a} : class'[b] = class[b]
  BY <1>1, <1>2 DEF IInv, TablesTyped
<1>6. TablesTyped'
  <2>1. \A b \in Artifact : class'[b] = [class |-> class'[b].class, ev |-> class'[b].ev]
    BY <1>5 DEF IInv, TablesTyped
  <2>2. QED BY <1>2, <1>5, <2>1 DEF IInv, TablesTyped
<1>7. CitedHolds'
  <2>1. \A b \in Artifact : Cited(b)'
    BY <1>2, <1>4, <1>5 DEF IInv, CitedHolds, Cited, Evidenced, Ev, bestEvidenceForClass, NoEvidence
  <2>2. QED BY <1>2, <2>1 DEF IInv, CitedHolds, CitesItsOwn, Ev, HasText
<1>8. \A b \in Artifact \ {a} : RowsKept(b) BY <1>2, <1>5 DEF RowsKept
<1>9. \A r \in work[w].pending : r.src = a /\ CitesItsOwn(r)' BY <1>1, PendingStays
<1>10. KnowsIts(w)'
  BY <1>1, <1>2, <1>3, <1>4, <1>5, <1>9
  DEF KnowsIts, Positions, PastFacts, Marked, At, HasText, Evidenced, Classified, Ev,
      bestEvidenceForClass
<1>11. QED BY <1>1, <1>2, <1>3, <1>6, <1>7, <1>8, <1>10, OneWorkerSteps DEF Busy

-----------------------------------------------------------------------------
(* Facts and relations *)

(* What remains true of the artifact of a step that only moves its worker. *)
LEMMA Unmoved ==
  ASSUME NEW a \in Artifact, UNCHANGED <<job, attempts, derived, stage>>
  PROVE  /\ (HasText(a)' <=> HasText(a)) /\ (Evidenced(a)' <=> Evidenced(a))
         /\ (Classified(a)' <=> Classified(a)) /\ (FactsCiteText(a)' <=> FactsCiteText(a))
         /\ stage' = stage /\ job' = job /\ text' = text
BY DEF HasText, Evidenced, Classified, FactsCiteText, Ev, bestEvidenceForClass, derived

(* ExtractFacts and ExtractRuleFacts: some sound facts are found. *)
LEMMA FoundStep ==
  ASSUME IInv, NEW w \in Worker, At(w, "extract_fields", "read"),
         NEW S, Sound(S, work[w].art),
         Find(w, S),
         UNCHANGED <<job, attempts, derived, stage>>
  PROVE  IInv'
<1>1. /\ Busy(w) /\ KnowsIts(w) /\ work[w].stage = "extract_fields" /\ work[w].at = "read"
      /\ work[w].art \in Artifact /\ WorkIsWhole /\ job[work[w].art] = "running"
  BY Standing
<1> PICK a \in Artifact : a = work[w].art BY <1>1
<1>2. /\ WorkIsWhole'
      /\ work'[w] = [art |-> a, stage |-> "extract_fields", at |-> "write",
                      found |-> S, pending |-> work[w].pending]
      /\ \A v \in Worker \ {w} : work'[v] = work[v]
  BY <1>1, Found
<1>3. <<"extract_fields", "write">> \in Positions BY DEF Positions
<1>4. /\ PastText(w) /\ PastEvidence(w) /\ PastClass(w) /\ ~PastFacts(w)'
      /\ ~At(w, "reconcile_artifact", "write")'
  BY <1>1, <1>2 DEF PastText, PastEvidence, PastClass, PastFacts, At
<1>5. Sound(S, a)' BY DEF Sound, SoundFrom, Ev, derived
<1>6. \A r \in work[w].pending : r.src = a /\ CitesItsOwn(r)' BY <1>1, PendingStays
<1>7. \A q \in Earlier["extract_fields"] : stage'[a][q] = "succeeded"
  BY <1>1, Unmoved DEF KnowsIts, Marked
<1>8. KnowsIts(w)' BY <1>1, <1>2, <1>3, <1>4, <1>5, <1>6, <1>7, Unmoved, Arrived DEF KnowsIts
<1>9. QED BY <1>1, <1>2, <1>8, QuietStep

LEMMA RequestIsOfText ==
  ASSUME IInv, NEW w \in Worker, At(w, "extract_fields", "read")
  PROVE  /\ work[w].art \in Artifact /\ text[work[w].art] \in Text
         /\ Request(work[w].art).evidence =
              IF text[work[w].art] \in Blank THEN <<>> ELSE << <<work[w].art, text[work[w].art]>> >>
<1>1. KnowsIts(w) /\ work[w].art \in Artifact /\ PastText(w) /\ PastEvidence(w)
  BY Standing DEF PastText, PastEvidence, At
<1>2. HasText(work[w].art) /\ Evidenced(work[w].art) BY <1>1 DEF KnowsIts
<1>3. \A e \in evidence : e[2] \notin Blank BY DEF IInv, CitedHolds
<1>4. QED BY <1>1, <1>2, <1>3 DEF HasText, Evidenced, Request, Ev

LEMMA ExtractFactsStep ==
  ASSUME IInv, NEW w \in Worker, ExtractFacts(w)
  PROVE  IInv'
<1>0. At(w, "extract_fields", "read") BY DEF ExtractFacts
<1> PICK a : a = work[w].art OBVIOUS
<1> PICK t : t = text[a] OBVIOUS
<1> PICK req : req = Request(a) OBVIOUS
<1>1. /\ a \in Artifact /\ t \in Text
      /\ req.evidence = IF t \in Blank THEN <<>> ELSE << <<a, t>> >>
  BY <1>0, RequestIsOfText
<1>2. PICK answer \in ModelAnswers[<<a, t>>] : Find(w, FactsWith(answer, req))
  BY DEF ExtractFacts, FactsWith
<1>3. DOMAIN answer \subseteq Nat BY <1>1, AnswersAssumption
<1> PICK S : S = FactsWith(answer, req) OBVIOUS
<1>4. SoundFrom(S, <<a, t>>) BY <1>1, <1>3, FactsAreSound
<1>5. Sound(S, a) /\ Find(w, S) BY <1>2, <1>4 DEF Sound, Ev
<1>6. UNCHANGED <<job, attempts, derived, stage>> BY DEF ExtractFacts
<1>7. QED BY <1>0, <1>5, <1>6, FoundStep

LEMMA ExtractRuleFactsStep ==
  ASSUME IInv, NEW w \in Worker, ExtractRuleFacts(w)
  PROVE  IInv'
<1>0. At(w, "extract_fields", "read") BY DEF ExtractRuleFacts
<1> PICK a : a = work[w].art OBVIOUS
<1> PICK t : t = text[a] OBVIOUS
<1> PICK req : req = Request(a) OBVIOUS
<1>1. /\ a \in Artifact /\ t \in Text
      /\ req.evidence = IF t \in Blank THEN <<>> ELSE << <<a, t>> >>
  BY <1>0, RequestIsOfText
<1>2. PICK S : (S = FactsWithout(req) \/ S = {}) /\ Find(w, S)
  BY DEF ExtractRuleFacts, FactsWithout
<1>3. Sound(S, a)
  <2>1. CASE S = {} BY <2>1 DEF Sound, SoundFrom
  <2>2. CASE S = FactsWithout(req)
    <3>1. DOMAIN <<>> \subseteq Nat OBVIOUS
    <3>2. SoundFrom(S, <<a, t>>) BY <1>1, <2>2, <3>1, FactsAreSound
    <3>3. QED BY <3>2 DEF Sound, Ev
  <2>3. QED BY <1>2, <2>1, <2>2
<1>4. UNCHANGED <<job, attempts, derived, stage>> BY DEF ExtractRuleFacts
<1>5. QED BY <1>0, <1>2, <1>3, <1>4, FoundStep

LEMMA ReplaceFactsStep ==
  ASSUME IInv, NEW w \in Worker, ReplaceFacts(w)
  PROVE  IInv'
<1>1. /\ Busy(w) /\ KnowsIts(w) /\ work[w].stage = "extract_fields" /\ work[w].at = "write"
      /\ work[w].art \in Artifact /\ WorkIsWhole /\ job[work[w].art] = "running"
  BY Standing DEF ReplaceFacts
<1> PICK a \in Artifact : a = work[w].art BY <1>1
<1>2. /\ facts' = [facts EXCEPT ![a] = work[w].found] /\ Move(w, "succeed")
      /\ UNCHANGED <<job, attempts, text, evidence, class, relations, stage>>
      /\ At(w, "extract_fields", "write")
  BY DEF ReplaceFacts
<1>3. /\ WorkIsWhole'
      /\ work'[w] = [art |-> a, stage |-> "extract_fields", at |-> "succeed",
                      found |-> work[w].found, pending |-> work[w].pending]
      /\ \A v \in Worker \ {w} : work'[v] = work[v]
  BY <1>1, <1>2, Moved
<1>4. /\ facts' = [b \in Artifact |-> facts'[b]] /\ facts'[a] = work[w].found
      /\ \A b \in Artifact \ {a} : facts'[b] = facts[b]
  BY <1>2 DEF IInv, TablesTyped
<1>5. PastText(w) /\ PastEvidence(w) /\ PastClass(w)
  BY <1>1 DEF PastText, PastEvidence, PastClass
<1>6. Evidenced(a) /\ HasText(a) /\ Classified(a) /\ Sound(work[w].found, a)
  BY <1>1, <1>2, <1>5 DEF KnowsIts
<1>7. TablesTyped' BY <1>2, <1>4 DEF IInv, TablesTyped
<1>8. CitedHolds'
  <2>1. \A f \in facts'[a] : IsFact(f) /\ f.ev \in evidence /\ f.ev[1] = a
    <3>1. work[w].found # {} => Ev(a) \in evidence
      BY <1>6 DEF Sound, SoundFrom, Evidenced, Ev
    <3>2. QED BY <1>4, <1>6, <3>1 DEF Sound, SoundFrom, Ev
  <2>2. \A b \in Artifact : Cited(b)' BY <1>2, <1>4, <2>1 DEF IInv, CitedHolds, Cited
  <2>3. QED BY <1>2, <2>2 DEF IInv, CitedHolds, CitesItsOwn, Ev, HasText
<1>9. \A b \in Artifact \ {a} : RowsKept(b) BY <1>2, <1>4 DEF RowsKept
<1>10. /\ HasText(a)' /\ Evidenced(a)' /\ Classified(a)' /\ FactsCiteText(a)'
  BY <1>2, <1>4, <1>6
  DEF HasText, Evidenced, Classified, FactsCiteText, Sound, SoundFrom, Ev, bestEvidenceForClass
<1>11. /\ <<"extract_fields", "succeed">> \in Positions
       /\ ~At(w, "extract_fields", "write")' /\ ~At(w, "reconcile_artifact", "write")'
  BY <1>3 DEF Positions, At
<1>12. \A r \in work[w].pending : r.src = a /\ CitesItsOwn(r)' BY <1>1, PendingStays
<1>13. \A q \in Earlier["extract_fields"] : stage'[a][q] = "succeeded"
  BY <1>1, <1>2 DEF KnowsIts, Marked
<1>14. KnowsIts(w)' BY <1>1, <1>2, <1>3, <1>10, <1>11, <1>12, <1>13, Arrived
<1>15. QED BY <1>1, <1>2, <1>3, <1>7, <1>8, <1>9, <1>14, OneWorkerSteps DEF Busy

(* What LIMIT leaves of some rows. *)
LEMMA LimitedRows ==
  ASSUME NEW R, NEW n, NEW S \in Limited(R, n)
  PROVE  S \subseteq R /\ (Cardinality(R) <= n => S = R)
BY DEF Limited

(* Relations that reconciliation may find for an artifact, whatever the LIMITs leave. *)
Duplicates(a) == duplicateRelations(a, SameBytes(a))
MatchesOf(a) == UNION {factMatchRelations(a, f, Artifact) : f \in Matchable(a)}
Conflicts(a) == UNION {amountConflictRelations(a, f, OtherAmounts(a, f)) : f \in Amounts(a)}
Proposable(a) == Duplicates(a) \cup MatchesOf(a) \cup Conflicts(a)

(* A query of reconciliation: what is still to be asked, and what it adds. *)
Asks(w) ==
  \E Q \in SUBSET facts[work[w].art], T \in SUBSET Proposable(work[w].art) :
    \/ At(w, "reconcile_artifact", "read") /\ Propose(w, Q, T)
    \/ At(w, "reconcile_artifact", "write") /\ Propose(w, Q, work[w].pending \cup T)

LEMMA QueriesAsk ==
  ASSUME IInv, NEW w \in Worker, FindDuplicates(w) \/ FindMatches(w) \/ FindConflicts(w)
  PROVE  Asks(w)
<1>0. \E at : At(w, "reconcile_artifact", at)
  BY DEF FindDuplicates, FindMatches, FindConflicts
<1>1. work[w].art \in Artifact /\ KnowsIts(w) BY <1>0, Standing
<1> PICK a \in Artifact : a = work[w].art BY <1>1
<1>2. CASE FindDuplicates(w)
  <2>1. PICK B \in Limited(SameBytes(a), DuplicateLimit) :
          Propose(w, Matchable(a) \cup Amounts(a), duplicateRelations(a, B))
    BY <1>2 DEF FindDuplicates
  <2>2. duplicateRelations(a, B) \subseteq Proposable(a)
    BY LimitedRows DEF duplicateRelations, Proposable, Duplicates
  <2>3. Matchable(a) \cup Amounts(a) \subseteq facts[a] BY DEF Matchable, Amounts
  <2>4. At(w, "reconcile_artifact", "read") BY <1>2 DEF FindDuplicates
  <2>5. QED BY <2>1, <2>2, <2>3, <2>4 DEF Asks
<1>3. CASE FindMatches(w)
  <2>1. At(w, "reconcile_artifact", "write") BY <1>3 DEF FindMatches
  <2>2. PICK f \in work[w].found \cap Matchable(a) : \E B \in Limited(Holders(a, f), MatchLimit) :
          Propose(w, work[w].found \ {f}, work[w].pending \cup factMatchRelations(a, f, B))
    BY <1>3 DEF FindMatches
  <2>3. PICK B \in Limited(Holders(a, f), MatchLimit) :
          Propose(w, work[w].found \ {f}, work[w].pending \cup factMatchRelations(a, f, B))
    BY <2>2
  <2>4. B \subseteq Artifact BY LimitedRows DEF Holders, Others
  <2>5. factMatchRelations(a, f, B) \subseteq factMatchRelations(a, f, Artifact)
    BY <2>4 DEF factMatchRelations
  <2>6. factMatchRelations(a, f, B) \subseteq Proposable(a)
    BY <2>2, <2>5 DEF Proposable, MatchesOf
  <2>7. work[w].found \ {f} \subseteq facts[a] BY <1>1, <2>1 DEF KnowsIts
  <2>8. QED BY <2>1, <2>3, <2>6, <2>7 DEF Asks
<1>4. CASE FindConflicts(w)
  <2>1. At(w, "reconcile_artifact", "write") /\ work[w].found \subseteq Amounts(a)
    BY <1>4 DEF FindConflicts
  <2>2. PICK f \in work[w].found : \E R \in Limited(OtherAmounts(a, f), ConflictLimit) :
          \E T \in SUBSET amountConflictRelations(a, f, R) :
            Propose(w, work[w].found \ {f}, work[w].pending \cup T)
    BY <1>4 DEF FindConflicts
  <2>3. PICK R \in Limited(OtherAmounts(a, f), ConflictLimit) :
          \E T \in SUBSET amountConflictRelations(a, f, R) :
            Propose(w, work[w].found \ {f}, work[w].pending \cup T)
    BY <2>2
  <2>4. PICK T \in SUBSET amountConflictRelations(a, f, R) :
          Propose(w, work[w].found \ {f}, work[w].pending \cup T)
    BY <2>3
  <2>5. R \subseteq OtherAmounts(a, f) BY LimitedRows
  <2>6. amountConflictRelations(a, f, R) \subseteq amountConflictRelations(a, f, OtherAmounts(a, f))
    BY <2>5 DEF amountConflictRelations
  <2>7. f \in Amounts(a) BY <2>1
  <2>8. T \subseteq Proposable(a) BY <2>6, <2>7 DEF Proposable, Conflicts
  <2>9. work[w].found \ {f} \subseteq facts[a] BY <1>1, <2>1 DEF KnowsIts
  <2>10. QED BY <2>1, <2>4, <2>8, <2>9 DEF Asks
<1>5. QED BY <1>2, <1>3, <1>4

(* A relation that is found cites the facts it was found for. *)
LEMMA MatchesAreOfFacts ==
  ASSUME NEW a \in Artifact, NEW r \in MatchesOf(a) \cup Conflicts(a)
  PROVE  \E f \in facts[a], q \in Others(a) :
           /\ r.src = a /\ r.tgt = q[1] /\ r.srcEv = f.ev /\ r.tgtEv = q[2].ev
           /\ \/ r.about = Bare(f) /\ Bare(q[2]) = Bare(f)
              \/ r.type = "updates_fact"
<1>1. CASE r \in MatchesOf(a)
  <2>1. PICK f \in Matchable(a) : r \in factMatchRelations(a, f, Artifact) BY <1>1 DEF MatchesOf
  <2>2. f \in facts[a] BY DEF Matchable
  <2>3. PICK q \in Others(a) :
          /\ r = Link(a, q[1], relationForExactFact(f.type), Bare(f), f.ev, q[2].ev)
          /\ Bare(q[2]) = Bare(f)
    BY <2>1 DEF factMatchRelations
  <2>4. QED BY <2>2, <2>3 DEF Link
<1>2. CASE r \in Conflicts(a)
  <2>1. PICK f \in Amounts(a) : r \in amountConflictRelations(a, f, OtherAmounts(a, f))
    BY <1>2 DEF Conflicts
  <2>2. f \in facts[a] BY DEF Amounts
  <2>3. PICK q \in Others(a) :
          r = Link(a, q[1], "updates_fact", <<f.value, q[2].value>>, f.ev, q[2].ev)
    BY <2>1 DEF amountConflictRelations, OtherAmounts
  <2>4. QED BY <2>2, <2>3 DEF Link
<1>3. QED BY <1>1, <1>2

LEMMA MatchesCite ==
  ASSUME IInv, NEW a \in Artifact, NEW r \in Proposable(a)
  PROVE  r.src = a /\ CitesItsOwn(r)
<1>1. CASE r \in Duplicates(a)
  <2>1. PICK b \in SameBytes(a) : r = Link(a, b, "duplicate_of", "bytes", NoEvidence, NoEvidence)
    BY <1>1 DEF Duplicates, duplicateRelations
  <2>2. QED BY <2>1 DEF SameBytes, Link, CitesItsOwn, NoEvidence, Evidence
<1>2. CASE r \in MatchesOf(a) \cup Conflicts(a)
  <2>1. PICK f \in facts[a], q \in Others(a) :
          /\ r.src = a /\ r.tgt = q[1] /\ r.srcEv = f.ev /\ r.tgtEv = q[2].ev
    BY <1>2, MatchesAreOfFacts
  <2>2. q[1] \in Artifact /\ q[2] \in facts[q[1]] BY DEF Others
  <2>3. /\ f.ev \in evidence \cup {NoEvidence} /\ f.ev[1] \in {a, NoArtifact}
        /\ q[2].ev \in evidence \cup {NoEvidence} /\ q[2].ev[1] \in {q[1], NoArtifact}
    BY <2>2 DEF IInv, CitedHolds, Cited
  <2>4. evidence \subseteq Evidence BY DEF IInv, CitedHolds, Evidence, Ev, HasText
  <2>5. QED BY <2>1, <2>2, <2>3, <2>4 DEF CitesItsOwn, Evidence
<1>3. QED BY <1>1, <1>2 DEF Proposable

(* A step of reconciliation that proposes relations of the artifact, and   *)
(* may store some.                                                         *)
LEMMA ProposeStep ==
  ASSUME IInv, NEW w \in Worker, At(w, "reconcile_artifact", work[w].at),
         NEW Q, NEW S, Propose(w, Q, S), Q \subseteq facts[work[w].art],
         \A r \in S : r.src = work[w].art /\ CitesItsOwn(r),
         CitedHolds',
         UNCHANGED <<job, attempts, text, evidence, class, facts, stage>>
  PROVE  IInv'
<1>1. /\ Busy(w) /\ KnowsIts(w) /\ work[w].stage = "reconcile_artifact"
      /\ work[w].art \in Artifact /\ WorkIsWhole /\ job[work[w].art] = "running"
  BY Standing
<1> PICK a \in Artifact : a = work[w].art BY <1>1
<1>2. /\ WorkIsWhole'
      /\ work'[w] = [art |-> a, stage |-> "reconcile_artifact", at |-> "write",
                      found |-> Q, pending |-> S]
      /\ \A v \in Worker \ {w} : work'[v] = work[v]
  BY <1>1, Proposed
<1>3. /\ <<"reconcile_artifact", "write">> \in Positions /\ ~At(w, "extract_fields", "write")'
  BY <1>2 DEF Positions, At
<1>4. PastText(w) /\ PastEvidence(w) /\ PastClass(w) /\ PastFacts(w)
  BY <1>1 DEF PastText, PastEvidence, PastClass, PastFacts
<1>5. HasText(a)' /\ Evidenced(a)' /\ Classified(a)' /\ FactsCiteText(a)'
  BY <1>1, <1>4
  DEF KnowsIts, HasText, Evidenced, Classified, FactsCiteText, Ev, bestEvidenceForClass
<1>6. \A r \in S : r.src = a /\ CitesItsOwn(r)' BY DEF CitesItsOwn
<1>7. \A q \in Earlier["reconcile_artifact"] : stage'[a][q] = "succeeded"
  BY <1>1 DEF KnowsIts, Marked
<1>8. Q \subseteq facts'[a] OBVIOUS
<1>9. KnowsIts(w)' BY <1>1, <1>2, <1>3, <1>5, <1>6, <1>7, <1>8, Arrived
<1>10. TablesTyped' BY DEF IInv, TablesTyped
<1>11. \A b \in Artifact : RowsKept(b) BY DEF RowsKept
<1>12. QED BY <1>1, <1>2, <1>9, <1>10, <1>11, OneWorkerSteps DEF Busy

LEMMA QuietCited ==
  ASSUME IInv, UNCHANGED derived
  PROVE  CitedHolds'
BY DEF CitedHolds, Cited, CitesItsOwn, Ev, HasText, IInv, derived

(* FindDuplicates, FindMatches and FindConflicts. *)
LEMMA QueryStep ==
  ASSUME IInv, NEW w \in Worker, FindDuplicates(w) \/ FindMatches(w) \/ FindConflicts(w)
  PROVE  IInv'
<1>1. UNCHANGED <<job, attempts, derived, stage>> BY DEF FindDuplicates, FindMatches, FindConflicts
<1>2. PICK Q \in SUBSET facts[work[w].art], T \in SUBSET Proposable(work[w].art) :
        \/ At(w, "reconcile_artifact", "read") /\ Propose(w, Q, T)
        \/ At(w, "reconcile_artifact", "write") /\ Propose(w, Q, work[w].pending \cup T)
  BY QueriesAsk DEF Asks
<1>3. /\ At(w, "reconcile_artifact", work[w].at) /\ work[w].art \in Artifact /\ KnowsIts(w)
  BY <1>2, Standing DEF At
<1>4. PICK S : S \subseteq work[w].pending \cup T /\ Propose(w, Q, S) BY <1>2
<1>5. \A r \in S : r.src = work[w].art /\ CitesItsOwn(r) BY <1>3, <1>4, MatchesCite DEF KnowsIts
<1>6. QED BY <1>1, <1>3, <1>4, <1>5, QuietCited, ProposeStep DEF derived

LEMMA StoreRelationStep ==
  ASSUME IInv, NEW w \in Worker, StoreRelation(w)
  PROVE  IInv'
<1>1. /\ At(w, "reconcile_artifact", work[w].at) /\ work[w].art \in Artifact /\ KnowsIts(w)
  BY Standing DEF StoreRelation, Reconciled, At
<1>2. PICK r \in work[w].pending :
        /\ Propose(w, {}, work[w].pending \ {r})
        /\ \/ UNCHANGED relations
           \/ Insertable(r) /\ relations' = relations \cup {r}
  BY DEF StoreRelation
<1>3. UNCHANGED <<job, attempts, text, evidence, class, facts, stage>> BY DEF StoreRelation
<1> PICK S : S = work[w].pending \ {r} OBVIOUS
<1>4. /\ \A q \in S : q.src = work[w].art /\ CitesItsOwn(q)
      /\ CitesItsOwn(r)
  BY <1>1 DEF KnowsIts
<1>5. \A q \in relations' :
        CitesItsOwn(q) /\ {q.srcEv, q.tgtEv} \subseteq evidence \cup {NoEvidence}
  BY <1>2, <1>4 DEF Insertable, IInv, CitedHolds
<1>6. CitedHolds' BY <1>3, <1>5 DEF CitedHolds, Cited, CitesItsOwn, Ev, HasText, IInv
<1>7. QED BY <1>1, <1>2, <1>3, <1>4, <1>6, ProposeStep

(* RelationsStored and ClusterArtifact. *)
LEMMA StageDoneStep ==
  ASSUME IInv, NEW w \in Worker, NEW s \in {"reconcile_artifact", "cluster_threads"},
         At(w, s, work[w].at), Move(w, "succeed"), UNCHANGED <<job, attempts, derived, stage>>
  PROVE  IInv'
<1>1. /\ Busy(w) /\ KnowsIts(w) /\ work[w].stage = s
      /\ work[w].art \in Artifact /\ WorkIsWhole /\ job[work[w].art] = "running"
  BY Standing
<1> PICK a \in Artifact : a = work[w].art BY <1>1
<1>2. /\ WorkIsWhole'
      /\ work'[w] = [art |-> a, stage |-> s, at |-> "succeed",
                      found |-> work[w].found, pending |-> work[w].pending]
      /\ \A v \in Worker \ {w} : work'[v] = work[v]
  BY <1>1, Moved
<1>3. /\ <<s, "succeed">> \in Positions
      /\ ~At(w, "extract_fields", "write")' /\ ~At(w, "reconcile_artifact", "write")'
  BY <1>2 DEF Positions, At
<1>4. PastText(w) /\ PastEvidence(w) /\ PastClass(w) /\ PastFacts(w)
  BY <1>1 DEF PastText, PastEvidence, PastClass, PastFacts
<1>5. HasText(a) /\ Evidenced(a) /\ Classified(a) /\ FactsCiteText(a)
  BY <1>1, <1>4 DEF KnowsIts
<1>6. \A r \in work[w].pending : r.src = a /\ CitesItsOwn(r)' BY <1>1, PendingStays
<1>7. \A q \in Earlier[s] : stage'[a][q] = "succeeded" BY <1>1, Unmoved DEF KnowsIts, Marked
<1>8. KnowsIts(w)' BY <1>1, <1>2, <1>3, <1>5, <1>6, <1>7, Unmoved, Arrived
<1>9. QED BY <1>1, <1>2, <1>8, QuietStep

-----------------------------------------------------------------------------
(* The end of an attempt *)

LEMMA FreeIsFree == IsWork(Free) /\ Free.art = NoArtifact
BY DEF IsWork, Free

LEMMA Freed ==
  ASSUME WorkIsWhole, NEW w \in Worker, work' = [work EXCEPT ![w] = Free]
  PROVE  /\ WorkIsWhole' /\ work'[w] = Free /\ ~Busy(w)'
         /\ \A v \in Worker \ {w} : work'[v] = work[v]
BY Replaced, FreeIsFree DEF Busy

LEMMA ReturnStep ==
  ASSUME IInv, NEW w \in Worker, Return(w)
  PROVE  IInv'
<1>1. /\ Busy(w) /\ KnowsIts(w) /\ work[w].stage = "return" /\ WorkIsWhole
      /\ work[w].art \in Artifact
  BY DEF Return, IInv, Busy, KnowsIts
<1> PICK a \in Artifact : a = work[w].art BY <1>1
<1>2. /\ job' = [job EXCEPT ![a] = "succeeded"]
      /\ work' = [work EXCEPT ![w] = Free]
      /\ UNCHANGED <<attempts, derived, stage>>
  BY DEF Return
<1>3. /\ WorkIsWhole' /\ work'[w] = Free /\ ~Busy(w)'
      /\ \A v \in Worker \ {w} : work'[v] = work[v]
  BY <1>1, <1>2, Freed
<1>4. /\ job'[a] = "succeeded" /\ \A b \in Artifact \ {a} : job'[b] = job[b]
      /\ job' \in [Artifact -> {"queued", "running", "failed", "succeeded", "dead"}]
  BY <1>2 DEF IInv, TablesTyped
<1>5. TablesTyped' BY <1>2, <1>4 DEF IInv, TablesTyped, derived
<1>6. CitedHolds' BY <1>2, QuietCited DEF derived
<1>7. \A b \in Artifact \ {a} : RowsKept(b) BY <1>2, <1>4 DEF RowsKept, derived
<1>8. PastText(w) /\ PastEvidence(w) /\ PastClass(w) /\ PastFacts(w)
  BY <1>1 DEF PastText, PastEvidence, PastClass, PastFacts
<1>9. Understood(a) BY <1>1, <1>8, EarlierIs DEF KnowsIts, Understood
<1>10. Understood(a)'
  BY <1>2, <1>9
  DEF Understood, Ev, HasText, Evidenced, Classified, FactsCiteText, Marked,
      bestEvidenceForClass, derived
<1>11. QED BY <1>1, <1>2, <1>3, <1>4, <1>5, <1>6, <1>7, <1>10, OneWorkerSteps

LEMMA ErrStep ==
  ASSUME IInv, NEW w \in Worker, Err(w)
  PROVE  IInv'
<1>1. /\ Busy(w) /\ KnowsIts(w) /\ WorkIsWhole /\ work[w].art \in Artifact
  BY DEF Err, IInv, Busy, KnowsIts
<1> PICK a \in Artifact : a = work[w].art BY <1>1
<1>2. /\ job' = [job EXCEPT ![a] = IF Exhausted(a) THEN "dead" ELSE "failed"]
      /\ work' = [work EXCEPT ![w] = Free]
      /\ UNCHANGED <<attempts, derived>>
      /\ \/ UNCHANGED stage
         \/ \E s \in Stages : stage' = [stage EXCEPT ![a][s] = "failed"]
  <2>1. Marks(w) => work[w].stage \in Stages BY <1>1 DEF KnowsIts, Positions, Marks, Stages
  <2>2. QED BY <2>1 DEF Err
<1>3. /\ WorkIsWhole' /\ work'[w] = Free /\ ~Busy(w)'
      /\ \A v \in Worker \ {w} : work'[v] = work[v]
  BY <1>1, <1>2, Freed
<1>4. /\ job'[a] \in {"failed", "dead"} /\ (job'[a] = "failed" => attempts[a] < MaxAttempts)
      /\ \A b \in Artifact \ {a} : job'[b] = job[b]
      /\ job' \in [Artifact -> {"queued", "running", "failed", "succeeded", "dead"}]
  BY <1>2, AttemptsAssumption DEF IInv, TablesTyped, Exhausted
<1>5. /\ stage' \in [Artifact -> [Stages -> {"none", "running", "succeeded", "failed"}]]
      /\ \A b \in Artifact \ {a} : stage'[b] = stage[b]
  <2>1. CASE UNCHANGED stage BY <2>1 DEF IInv, TablesTyped
  <2>2. ASSUME NEW s \in Stages, stage' = [stage EXCEPT ![a][s] = "failed"] PROVE <1>5
    BY <2>2 DEF IInv, TablesTyped
  <2>3. QED BY <1>2, <2>1, <2>2
<1>6. TablesTyped' BY <1>2, <1>4, <1>5 DEF IInv, TablesTyped, derived
<1>7. CitedHolds' BY <1>2, QuietCited DEF derived
<1>8. \A b \in Artifact \ {a} : RowsKept(b) BY <1>2, <1>4, <1>5 DEF RowsKept, derived
<1>9. QED BY <1>1, <1>2, <1>3, <1>4, <1>6, <1>7, <1>8, OneWorkerSteps

LEMMA StopStep ==
  ASSUME IInv, Stop
  PROVE  IInv'
<1>1. /\ work' = [w \in Worker |-> Free] /\ UNCHANGED <<job, attempts, derived, stage>>
  BY DEF Stop
<1>2. \A w \in Worker : work'[w] = Free /\ ~Busy(w)' BY <1>1, FreeIsFree DEF Busy
<1>3. WorkIsWhole' BY <1>1, <1>2 DEF WorkIsWhole, Free
<1>4. TablesTyped' BY <1>1 DEF IInv, TablesTyped, derived
<1>5. CitedHolds' BY <1>1, QuietCited DEF derived
<1>6. Exclusive' BY <1>2 DEF Exclusive
<1>7. AttemptsLeft' BY <1>1 DEF IInv, AttemptsLeft
<1>8. \A a \in Artifact : RowsKept(a) BY <1>1 DEF RowsKept, derived
<1>9. \A a \in Artifact : job'[a] = "succeeded" => Understood(a)'
  BY <1>1, <1>8, OthersUnderstood DEF IInv
<1>10. QED BY <1>2, <1>3, <1>4, <1>5, <1>6, <1>7, <1>9 DEF IInv

LEMMA StutterIInv ==
  ASSUME IInv, UNCHANGED vars
  PROVE  IInv'
<1>1. UNCHANGED <<job, attempts, derived, stage>> /\ work' = work BY DEF vars, derived
<1>2. TablesTyped' /\ AttemptsLeft' BY <1>1 DEF IInv, TablesTyped, AttemptsLeft, derived
<1>3. WorkIsWhole' /\ Exclusive' BY <1>1 DEF IInv, WorkIsWhole, Exclusive, Busy
<1>4. CitedHolds' BY <1>1, QuietCited DEF derived
<1>5. \A a \in Artifact : RowsKept(a) BY <1>1 DEF RowsKept, derived
<1>6. \A w \in Worker : Busy(w)' => KnowsIts(w)'
  BY <1>1, <1>5, OthersKnow DEF IInv, Busy, KnowsIts
<1>7. \A w \in Worker : ~Busy(w)' => work'[w] = Free BY <1>1 DEF IInv, Busy
<1>8. \A a \in Artifact : job'[a] = "succeeded" => Understood(a)'
  BY <1>1, <1>5, OthersUnderstood DEF IInv
<1>9. QED BY <1>2, <1>3, <1>4, <1>6, <1>7, <1>8 DEF IInv

LEMMA NextIInv == IInv /\ [Next]_vars => IInv'
<1> SUFFICES ASSUME IInv, [Next]_vars PROVE IInv' OBVIOUS
<1>1. ASSUME NEW w \in Worker, Process(w) PROVE IInv'
  <2>1. CASE PersistExtraction(w) BY <2>1, PersistExtractionStep
  <2>2. CASE MarkStageRunning(w)
    <3>1. Busy(w)
      BY <2>2 DEF IInv, MarkStageRunning, Free
    <3>2. QED BY <2>2, <3>1, MarkStageRunningStep
  <2>3. CASE MarkStageSucceeded(w)
    <3>1. Busy(w)
      BY <2>3 DEF IInv, MarkStageSucceeded, Free
    <3>2. QED BY <2>3, <3>1, MarkStageSucceededStep
  <2>4. CASE UpsertEvidence(w) BY <2>4, UpsertEvidenceStep
  <2>5. CASE ClassifyArtifact(w) BY <2>5, ClassifyArtifactStep
  <2>6. CASE ExtractFacts(w) BY <2>6, ExtractFactsStep
  <2>7. CASE ExtractRuleFacts(w) BY <2>7, ExtractRuleFactsStep
  <2>8. CASE ReplaceFacts(w) BY <2>8, ReplaceFactsStep
  <2>9. CASE FindDuplicates(w) \/ FindMatches(w) \/ FindConflicts(w) BY <2>9, QueryStep
  <2>10. CASE StoreRelation(w) BY <2>10, StoreRelationStep
  <2>11. CASE RelationsStored(w) \/ ClusterArtifact(w)
    BY <2>11, StageDoneStep DEF RelationsStored, Reconciled, ClusterArtifact, At
  <2>12. QED
    BY <1>1, <2>1, <2>2, <2>3, <2>4, <2>5, <2>6, <2>7, <2>8, <2>9, <2>10, <2>11
    DEF Process
<1>2. QED
  BY <1>1, BeginStep, ReturnStep, ErrStep, StopStep, StutterIInv DEF Next

(* The inductive invariant of the pipeline holds, whatever fails and however *)
(* workers on different artifacts interleave.                                *)
THEOREM Invariant == Spec => []IInv
BY InitIInv, NextIInv, PTL DEF Spec

-----------------------------------------------------------------------------
(* Every reachable state is well typed. *)
THEOREM TypeCorrect == Spec => []TypeOK
<1>1. ASSUME IInv PROVE TypeOK
  <2>1. evidence \subseteq Artifact \X Text BY <1>1 DEF IInv, CitedHolds, Ev, HasText
  <2>2. evidence \cup {NoEvidence} \subseteq Evidence BY <2>1 DEF Evidence
  <2>3. ASSUME NEW w \in Worker
        PROVE  /\ work[w].art \in Artifact \cup {NoArtifact}
               /\ work[w].stage \in Stages \cup {"return"}
               /\ work[w].at \in {"begin", "mark", "read", "write", "succeed"}
    <3>1. CASE Busy(w) BY <1>1, <3>1 DEF IInv, KnowsIts, Positions, Stages
    <3>2. CASE ~Busy(w)
      <4>1. work[w] = Free BY <1>1, <3>2 DEF IInv
      <4>2. QED BY <4>1 DEF Free
    <3>3. QED BY <3>1, <3>2
  <2>4. \A a \in Artifact : class[a].ev \in Evidence /\ \A f \in facts[a] : f.ev \in Evidence
    BY <1>1, <2>2 DEF IInv, CitedHolds, Cited
  <2>5. \A r \in relations :
          r.src \in Artifact /\ r.tgt \in Artifact /\ {r.srcEv, r.tgtEv} \subseteq Evidence
    BY <1>1 DEF IInv, CitedHolds, CitesItsOwn
  <2>6. QED BY <1>1, <2>1, <2>3, <2>4, <2>5 DEF IInv, TablesTyped, TypeOK
<1>2. QED BY <1>1, Invariant, PTL

(***************************************************************************)
(* No row cites evidence that is gone or another artifact's, whatever a    *)
(* retry deletes under evidence, facts, classes and relations that another *)
(* worker is just reading.                                                 *)
(***************************************************************************)
THEOREM NothingDangles == Spec => []CitationsExist
<1>1. ASSUME IInv PROVE CitationsExist
  <2>1. evidence \subseteq {<<a, text[a]>> : a \in Artifact}
    BY <1>1 DEF IInv, CitedHolds, Ev
  <2>2. \A a \in Artifact : /\ class[a].ev \in evidence \cup {NoEvidence}
                            /\ \A f \in facts[a] : f.ev \in evidence \cup {NoEvidence}
    BY <1>1 DEF IInv, CitedHolds, Cited
  <2>3. QED BY <1>1, <2>1, <2>2 DEF IInv, CitedHolds, CitesItsOwn, CitationsExist
<1>2. QED BY <1>1, Invariant, PTL

(***************************************************************************)
(* No answer of a model makes the statement fail that stores the facts.    *)
(***************************************************************************)
THEOREM ModelCannotFailAJob == Spec => []FactsCanBeStored
<1>1. ASSUME IInv PROVE FactsCanBeStored
  <2>1. SUFFICES ASSUME NEW w \in Worker, At(w, "extract_fields", "write")
                 PROVE  Storable(work[w].found)
    BY DEF FactsCanBeStored
  <2>2. KnowsIts(w) /\ PastEvidence(w) BY <1>1, <2>1, Standing DEF PastEvidence, At
  <2>3. Sound(work[w].found, work[w].art) /\ Evidenced(work[w].art)
    BY <2>1, <2>2 DEF KnowsIts
  <2>4. work[w].found # {} => Ev(work[w].art) \in evidence
    BY <2>3 DEF Sound, SoundFrom, Evidenced, Ev
  <2>5. QED BY <2>3, <2>4 DEF Sound, SoundFrom, Storable
<1>2. QED BY <1>1, Invariant, PTL

(***************************************************************************)
(* A succeeded job has left its artifact understood from its present text. *)
(***************************************************************************)
THEOREM SuccessIsComplete == Spec => []SucceededMeansUnderstood
<1>1. ASSUME IInv PROVE SucceededMeansUnderstood
  <2>1. SUFFICES ASSUME NEW a \in Artifact, job[a] = "succeeded"
                 PROVE  /\ \A s \in Stages : stage[a][s] = "succeeded"
                        /\ {e \in evidence : e[1] = a} = Pieces(a)
                        /\ class[a].class = ClassOf[text[a]]
                        /\ class[a].ev \in IF Pieces(a) = {} THEN {NoEvidence} ELSE Pieces(a)
                        /\ \A f \in facts[a] : f.ev \in Pieces(a)
    BY DEF SucceededMeansUnderstood
  <2>2. Understood(a) BY <1>1, <2>1 DEF IInv
  <2>3. Pieces(a) = IF text[a] \in Blank THEN {} ELSE {Ev(a)} BY DEF Pieces, Ev
  <2>4. {e \in evidence : e[1] = a} = Pieces(a)
    BY <1>1, <2>2, <2>3 DEF IInv, CitedHolds, Understood, Evidenced, Ev
  <2>5. \A f \in facts[a] : f.ev \in Pieces(a)
    <3>1. ASSUME NEW f \in facts[a] PROVE f.ev = Ev(a) /\ f.ev \in evidence
      BY <1>1, <2>2, NoneAssumption
      DEF Understood, FactsCiteText, IInv, CitedHolds, Cited, Ev, NoEvidence
    <3>2. QED BY <2>4, <3>1 DEF Ev
  <2>6. QED
    BY <2>2, <2>3, <2>4, <2>5 DEF Understood, Marked, Classified, Ev, bestEvidenceForClass
<1>2. QED BY <1>1, Invariant, PTL

-----------------------------------------------------------------------------
(***************************************************************************)
(* Relations of first attempts.  While an artifact is at its first attempt *)
(* it gets its facts once, after its text, so that what a relation was     *)
(* built from stays as it was.                                             *)
(***************************************************************************)
FactsOnce ==
  /\ \A a \in Artifact : attempts[a] = 0 => facts[a] = {}
  /\ \A a \in Artifact : attempts[a] <= 1 => FactsCiteText(a)
  /\ \A w \in Worker : Busy(w) /\ attempts[work[w].art] <= 1 /\ ~PastFacts(w) =>
                        facts[work[w].art] = {}

Founded(r) ==
  attempts[r.src] <= 1 /\ attempts[r.tgt] <= 1 /\ r.type # "duplicate_of" =>
    /\ r.srcEv = Ev(r.src) /\ r.tgtEv = Ev(r.tgt)
    /\ facts[r.src] # {} /\ facts[r.tgt] # {}
    /\ r.type = "supports" => HasFact(r.src, r.about) /\ HasFact(r.tgt, r.about)

AllFounded ==
  /\ \A r \in relations : Founded(r)
  /\ \A w \in Worker : Busy(w) => \A r \in work[w].pending : Founded(r)

FirstInv == FactsOnce /\ AllFounded

LEMMA InitFirstInv == Init => FirstInv
BY NoneAssumption DEF Init, FirstInv, FactsOnce, AllFounded, FactsCiteText, Busy, Free

(* An attempt begins or nothing is counted. *)
LEMMA AttemptsGrow ==
  ASSUME IInv, [Next]_vars
  PROVE  /\ attempts \in [Artifact -> Nat]
         /\ \/ attempts' = attempts
            \/ \E w \in Worker, a \in Artifact :
                 Begin(w, a) /\ attempts' = [attempts EXCEPT ![a] = @ + 1]
<1>1. attempts \in [Artifact -> Nat] BY AttemptsAssumption DEF IInv, TablesTyped
<1>2. attempts' = attempts \/ \E w \in Worker, a \in Artifact : Begin(w, a)
  BY DEF Next, vars, Process, PersistExtraction, MarkStageRunning, MarkStageSucceeded,
         UpsertEvidence, ClassifyArtifact, ExtractFacts, ExtractRuleFacts, ReplaceFacts,
         FindDuplicates, FindMatches, FindConflicts, StoreRelation, RelationsStored, ClusterArtifact,
         Return, Err, Stop
<1>3. QED BY <1>1, <1>2 DEF Begin

(* Who writes facts and texts, and when. *)
LEMMA Writers ==
  ASSUME IInv, [Next]_vars
  PROVE  \/ text' = text /\ facts' = facts
         \/ \E w \in Worker :
              /\ PersistExtraction(w) \/ ReplaceFacts(w)
              /\ Busy(w) /\ KnowsIts(w) /\ ~PastFacts(w) /\ work[w].art \in Artifact
              /\ attempts' = attempts
              /\ \A b \in Artifact \ {work[w].art} : text'[b] = text[b] /\ facts'[b] = facts[b]
<1>1. ASSUME NEW w \in Worker, PersistExtraction(w) \/ ReplaceFacts(w)
      PROVE  /\ Busy(w) /\ KnowsIts(w) /\ ~PastFacts(w) /\ work[w].art \in Artifact
             /\ attempts' = attempts
             /\ \A b \in Artifact \ {work[w].art} : text'[b] = text[b] /\ facts'[b] = facts[b]
  <2>1. /\ Busy(w) /\ KnowsIts(w) /\ work[w].art \in Artifact
        /\ \/ At(w, "extract_artifact", "read")
           \/ At(w, "extract_fields", "write")
    <3>1. \/ At(w, "extract_artifact", "read")
          \/ At(w, "extract_fields", "write")
      BY <1>1 DEF PersistExtraction, ReplaceFacts
    <3>2. QED BY <3>1, Standing
  <2>2. ~PastFacts(w) BY <2>1 DEF PastFacts, At
  <2>3. ASSUME NEW b \in Artifact \ {work[w].art}
        PROVE  text'[b] = text[b] /\ facts'[b] = facts[b]
    <3>1. CASE ReplaceFacts(w) BY <3>1 DEF ReplaceFacts, IInv, TablesTyped
    <3>2. CASE PersistExtraction(w)
      <4>1. text'[b] = text[b] BY <3>2 DEF PersistExtraction, IInv, TablesTyped
      <4>2. PICK S : facts' = [facts EXCEPT ![work[w].art] = S]
        BY <3>2 DEF PersistExtraction, Cascade
      <4>3. facts'[b] = facts[b] BY <4>2 DEF IInv, TablesTyped
      <4>4. QED BY <4>1, <4>3
    <3>3. QED BY <1>1, <3>1, <3>2
  <2>4. QED BY <1>1, <2>1, <2>2, <2>3 DEF PersistExtraction, ReplaceFacts
<1>2. (text' = text /\ facts' = facts) \/ \E w \in Worker : PersistExtraction(w) \/ ReplaceFacts(w)
  BY DEF Next, vars, derived, Process, Begin, MarkStageRunning, MarkStageSucceeded,
         UpsertEvidence, ClassifyArtifact, ExtractFacts, ExtractRuleFacts,
         FindDuplicates, FindMatches, FindConflicts, StoreRelation, RelationsStored, ClusterArtifact,
         Return, Err, Stop
<1>3. QED BY <1>1, <1>2

(* The facts of first attempts stay, and so does the text they cite. *)
LEMMA FirstFactsStay ==
  ASSUME IInv, FirstInv, [Next]_vars, NEW a \in Artifact, attempts'[a] <= 1, facts[a] # {}
  PROVE  attempts[a] <= 1 /\ facts'[a] = facts[a] /\ text'[a] = text[a]
<1>1. attempts[a] <= 1 BY AttemptsGrow
<1>2. QED BY <1>1, Writers DEF FirstInv, FactsOnce

LEMMA FoundedStays ==
  ASSUME IInv, FirstInv, [Next]_vars, NEW r, Founded(r), r.src \in Artifact, r.tgt \in Artifact
  PROVE  Founded(r)'
<1>1. SUFFICES ASSUME attempts'[r.src] <= 1, attempts'[r.tgt] <= 1, r.type # "duplicate_of"
               PROVE  /\ r.srcEv = Ev(r.src)' /\ r.tgtEv = Ev(r.tgt)'
                      /\ facts'[r.src] # {} /\ facts'[r.tgt] # {}
                      /\ r.type = "supports" => HasFact(r.src, r.about)' /\ HasFact(r.tgt, r.about)'
  BY DEF Founded
<1>2. attempts[r.src] <= 1 /\ attempts[r.tgt] <= 1 BY <1>1, AttemptsGrow
<1>3. facts[r.src] # {} /\ facts[r.tgt] # {} BY <1>1, <1>2 DEF Founded
<1>4. /\ facts'[r.src] = facts[r.src] /\ text'[r.src] = text[r.src]
      /\ facts'[r.tgt] = facts[r.tgt] /\ text'[r.tgt] = text[r.tgt]
  BY <1>1, <1>3, FirstFactsStay
<1>5. QED BY <1>1, <1>2, <1>4 DEF Founded, Ev, HasFact

(* How a worker moves on within an attempt. *)
GoesOn(w) ==
  /\ Busy(w) /\ KnowsIts(w)
  /\ work'[w].art = work[w].art /\ work'[w].stage = work[w].stage /\ work[w].at # "succeed"
  /\ work'[w].pending \subseteq work[w].pending \cup Proposable(work[w].art)
  /\ \/ work'[w].pending = work[w].pending /\ work[w].stage # "reconcile_artifact"
     \/ /\ work'[w].pending = work[w].pending
        /\ work[w].stage = "reconcile_artifact" /\ work[w].at = "mark" /\ work'[w].at = "read"
     \/ FindDuplicates(w) /\ work[w].stage = "reconcile_artifact" /\ work[w].at = "read"
        /\ work'[w].at = "write"
     \/ (FindMatches(w) \/ FindConflicts(w))
        /\ work[w].stage = "reconcile_artifact" /\ work[w].at = "write"
        /\ work'[w].at = "write" /\ work[w].pending \subseteq work'[w].pending
     \/ StoreRelation(w) /\ work[w].stage = "reconcile_artifact" /\ work[w].at = "write"
        /\ work'[w].at = "write" /\ work[w].found = {} /\ work'[w].found = {}
     \/ RelationsStored(w) /\ work[w].stage = "reconcile_artifact" /\ work[w].at = "write"
        /\ work'[w].at = "succeed" /\ work[w].pending = {} /\ work'[w].pending = {}

NextStage(w) ==
  /\ Busy(w) /\ KnowsIts(w) /\ MarkStageSucceeded(w)
  /\ work[w].stage \in Stages /\ work[w].at = "succeed"
  /\ work'[w] = [art |-> work[w].art, stage |-> Following[work[w].stage], at |-> "mark",
                 found |-> {}, pending |-> {}]

Begins(w, a) ==
  /\ Begin(w, a)
  /\ work'[w] = [art |-> a, stage |-> "extract_artifact", at |-> "read",
                 found |-> {}, pending |-> {}]

LEMMA ProcessMoves ==
  ASSUME IInv, NEW w \in Worker, Process(w)
  PROVE  /\ GoesOn(w) \/ NextStage(w)
         /\ \A v \in Worker \ {w} : work'[v] = work[v]
<1>0. WorkIsWhole BY DEF IInv
<1>1. CASE PersistExtraction(w)
  <2>1. At(w, "extract_artifact", "read") /\ Move(w, "succeed") BY <1>1 DEF PersistExtraction
  <2>2. /\ work'[w] = [art |-> work[w].art, stage |-> work[w].stage, at |-> "succeed",
                      found |-> work[w].found, pending |-> work[w].pending]
        /\ \A v \in Worker \ {w} : work'[v] = work[v]
    BY <1>0, <2>1, Moved
  <2>3. Busy(w) /\ KnowsIts(w) /\ work[w].stage = "extract_artifact" /\ work[w].at = "read"
    BY <2>1, Standing
  <2>4. QED BY <2>1, <2>2, <2>3 DEF GoesOn
<1>2. CASE MarkStageRunning(w)
  <2>1. Busy(w) /\ KnowsIts(w) /\ work[w].at = "mark" /\ Move(w, "read")
    BY <1>2 DEF MarkStageRunning, IInv, Free
  <2>2. /\ work'[w] = [art |-> work[w].art, stage |-> work[w].stage, at |-> "read",
                      found |-> work[w].found, pending |-> work[w].pending]
        /\ \A v \in Worker \ {w} : work'[v] = work[v]
    BY <1>0, <2>1, Moved
  <2>3. QED BY <2>1, <2>2 DEF GoesOn
<1>3. CASE MarkStageSucceeded(w)
  <2>1. Busy(w) /\ KnowsIts(w) /\ work[w].at = "succeed"
    BY <1>3 DEF MarkStageSucceeded, IInv, Free
  <2>2. work[w].stage \in Stages BY <2>1 DEF KnowsIts, Positions, Stages
  <2>3. PICK r : /\ r = [art |-> work[w].art, stage |-> Following[work[w].stage], at |-> "mark",
                         found |-> {}, pending |-> {}]
                 /\ work' = [work EXCEPT ![w] = r]
    BY <1>3, Placed DEF MarkStageSucceeded
  <2>4. IsWork(r) BY <2>3 DEF IsWork
  <2>5. work'[w] = r /\ \A v \in Worker \ {w} : work'[v] = work[v]
    BY <1>0, <2>3, <2>4, Replaced
  <2>6. QED BY <1>3, <2>1, <2>2, <2>3, <2>5 DEF NextStage
<1>4. CASE UpsertEvidence(w) \/ ClassifyArtifact(w) \/ ReplaceFacts(w)
  <2>1. PICK s, at, to : /\ s \in {"classify_artifact", "extract_fields"} /\ at \in {"read", "write"}
                          /\ At(w, s, at) /\ Move(w, to)
    BY <1>4 DEF UpsertEvidence, ClassifyArtifact, ReplaceFacts
  <2>2. /\ work'[w] = [art |-> work[w].art, stage |-> work[w].stage, at |-> to,
                      found |-> work[w].found, pending |-> work[w].pending]
        /\ \A v \in Worker \ {w} : work'[v] = work[v]
    BY <1>0, <2>1, Moved
  <2>3. Busy(w) /\ KnowsIts(w) /\ work[w].stage = s /\ work[w].at = at
    BY <2>1, Standing
  <2>4. QED BY <2>1, <2>2, <2>3 DEF GoesOn
<1>5. CASE ExtractFacts(w) \/ ExtractRuleFacts(w)
  <2>1. PICK S : At(w, "extract_fields", "read") /\ Find(w, S)
    BY <1>5 DEF ExtractFacts, ExtractRuleFacts
  <2>2. /\ work'[w] = [art |-> work[w].art, stage |-> work[w].stage, at |-> "write",
                      found |-> S, pending |-> work[w].pending]
        /\ \A v \in Worker \ {w} : work'[v] = work[v]
    BY <1>0, <2>1, Found
  <2>3. Busy(w) /\ KnowsIts(w) /\ work[w].stage = "extract_fields" /\ work[w].at = "read"
    BY <2>1, Standing
  <2>4. QED BY <2>1, <2>2, <2>3 DEF GoesOn
<1>6. CASE FindDuplicates(w) \/ FindMatches(w) \/ FindConflicts(w)
  <2>1. PICK Q \in SUBSET facts[work[w].art], T \in SUBSET Proposable(work[w].art) :
          \/ At(w, "reconcile_artifact", "read") /\ Propose(w, Q, T)
          \/ At(w, "reconcile_artifact", "write") /\ Propose(w, Q, work[w].pending \cup T)
    BY <1>6, QueriesAsk DEF Asks
  <2>2. PICK S : Propose(w, Q, S) /\ S \in {T, work[w].pending \cup T}
                 /\ (At(w, "reconcile_artifact", "write") => S = work[w].pending \cup T)
    <3>1. CASE At(w, "reconcile_artifact", "write") BY <2>1, <3>1 DEF At
    <3>2. CASE ~At(w, "reconcile_artifact", "write") BY <2>1, <3>2
    <3>3. QED BY <3>1, <3>2
  <2>3. /\ work'[w] = [art |-> work[w].art, stage |-> work[w].stage, at |-> "write",
                       found |-> Q, pending |-> S]
        /\ \A v \in Worker \ {w} : work'[v] = work[v]
    BY <1>0, <2>2, Proposed
  <2>4. Busy(w) /\ KnowsIts(w) /\ work[w].stage = "reconcile_artifact" /\ work[w].at \in {"read", "write"}
    BY <2>1, Standing
  <2>5. /\ FindDuplicates(w) => work[w].at = "read"
        /\ FindMatches(w) \/ FindConflicts(w) => At(w, "reconcile_artifact", "write")
    BY DEF FindDuplicates, FindMatches, FindConflicts, At
  <2>6. CASE FindDuplicates(w) BY <2>2, <2>3, <2>4, <2>5, <2>6 DEF GoesOn
  <2>7. CASE FindMatches(w) \/ FindConflicts(w)
    <3>1. S = work[w].pending \cup T /\ work[w].at = "write" BY <2>2, <2>5, <2>7 DEF At
    <3>2. QED BY <2>3, <2>4, <2>7, <3>1 DEF GoesOn
  <2>8. QED BY <1>6, <2>3, <2>6, <2>7
<1>8. CASE StoreRelation(w)
  <2>1. PICK S : /\ At(w, "reconcile_artifact", "write") /\ work[w].found = {}
                 /\ Propose(w, {}, S) /\ S \subseteq work[w].pending
    BY <1>8 DEF StoreRelation, Reconciled
  <2>2. /\ work'[w] = [art |-> work[w].art, stage |-> work[w].stage, at |-> "write",
                      found |-> {}, pending |-> S]
        /\ \A v \in Worker \ {w} : work'[v] = work[v]
    BY <1>0, <2>1, Proposed
  <2>3. Busy(w) /\ KnowsIts(w) /\ work[w].stage = "reconcile_artifact" /\ work[w].at = "write"
    BY <2>1, Standing
  <2>4. QED BY <1>8, <2>1, <2>2, <2>3 DEF GoesOn
<1>9. CASE RelationsStored(w)
  <2>1. /\ At(w, "reconcile_artifact", "write") /\ Move(w, "succeed") /\ work[w].pending = {}
    BY <1>9 DEF RelationsStored, Reconciled
  <2>2. /\ work'[w] = [art |-> work[w].art, stage |-> work[w].stage, at |-> "succeed",
                      found |-> work[w].found, pending |-> work[w].pending]
        /\ \A v \in Worker \ {w} : work'[v] = work[v]
    BY <1>0, <2>1, Moved
  <2>3. Busy(w) /\ KnowsIts(w) /\ work[w].stage = "reconcile_artifact" /\ work[w].at = "write"
    BY <2>1, Standing
  <2>4. QED BY <1>9, <2>1, <2>2, <2>3 DEF GoesOn
<1>10. CASE ClusterArtifact(w)
  <2>1. At(w, "cluster_threads", "read") /\ Move(w, "succeed") BY <1>10 DEF ClusterArtifact
  <2>2. /\ work'[w] = [art |-> work[w].art, stage |-> work[w].stage, at |-> "succeed",
                      found |-> work[w].found, pending |-> work[w].pending]
        /\ \A v \in Worker \ {w} : work'[v] = work[v]
    BY <1>0, <2>1, Moved
  <2>3. Busy(w) /\ KnowsIts(w) /\ work[w].stage = "cluster_threads" /\ work[w].at = "read"
    BY <2>1, Standing
  <2>4. QED BY <2>1, <2>2, <2>3 DEF GoesOn
<1>11. QED
  BY <1>1, <1>2, <1>3, <1>4, <1>5, <1>6, <1>8, <1>9, <1>10 DEF Process

LEMMA WorkerMoves ==
  ASSUME IInv, [Next]_vars, NEW w \in Worker
  PROVE  \/ work'[w] = work[w] \/ work'[w] = Free
         \/ \E a \in Artifact : Begins(w, a)
         \/ GoesOn(w) \/ NextStage(w)
<1> DEFINE Goal == \/ work'[w] = work[w] \/ work'[w] = Free
                   \/ \E a \in Artifact : Begins(w, a)
                   \/ GoesOn(w) \/ NextStage(w)
<1> SUFFICES Goal OBVIOUS
<1>0. WorkIsWhole BY DEF IInv
<1>1. CASE UNCHANGED vars BY <1>1 DEF vars
<1>2. CASE Stop BY <1>2 DEF Stop
<1>3. ASSUME NEW v \in Worker, Process(v) \/ Return(v) \/ Err(v) PROVE Goal
  <2>1. CASE Process(v) BY <2>1, ProcessMoves
  <2>2. CASE Return(v) \/ Err(v)
    <3>1. work' = [work EXCEPT ![v] = Free] BY <2>2 DEF Return, Err
    <3>2. QED BY <1>0, <3>1, Freed
  <2>3. QED BY <1>3, <2>1, <2>2
<1>4. ASSUME NEW v \in Worker, NEW a \in Artifact, Begin(v, a) PROVE Goal
  <2>1. PICK r : /\ r = [art |-> a, stage |-> "extract_artifact", at |-> "read",
                         found |-> {}, pending |-> {}]
                 /\ work' = [work EXCEPT ![v] = r]
    BY <1>4, Placed DEF Begin
  <2>2. IsWork(r) BY <2>1 DEF IsWork
  <2>3. work'[v] = r /\ \A u \in Worker \ {v} : work'[u] = work[u]
    BY <1>0, <2>1, <2>2, Replaced
  <2>4. QED BY <1>4, <2>1, <2>3 DEF Begins
<1>5. QED BY <1>1, <1>2, <1>3, <1>4 DEF Next

LEMMA PastFactsStays ==
  ASSUME IInv, [Next]_vars, NEW w \in Worker, Busy(w)'
  PROVE  \/ \E a \in Artifact : Begins(w, a)
         \/ Busy(w) /\ work'[w].art = work[w].art /\ (PastFacts(w) => PastFacts(w)')
<1>1. CASE work'[w] = work[w] BY <1>1 DEF Busy, PastFacts
<1>2. CASE work'[w] = Free BY <1>2, FreeIsFree DEF Busy
<1>3. CASE GoesOn(w) BY <1>3 DEF GoesOn, PastFacts
<1>4. CASE NextStage(w)
  <2>1. /\ Busy(w) /\ work[w].stage \in Stages /\ work'[w].art = work[w].art
        /\ work'[w].stage = Following[work[w].stage]
    BY <1>4 DEF NextStage
  <2>2. PastFacts(w) => work'[w].stage \in {"reconcile_artifact", "cluster_threads", "return"}
    BY <2>1, FollowingIs DEF PastFacts, Stages
  <2>3. QED BY <2>1, <2>2 DEF PastFacts
<1>5. QED BY <1>1, <1>2, <1>3, <1>4, WorkerMoves

(* Relations that are found among first attempts are founded. *)
LEMMA ProposableFounded ==
  ASSUME IInv, FirstInv, NEW a \in Artifact, NEW r \in Proposable(a)
  PROVE  Founded(r)
<1>1. CASE r \in Duplicates(a)
  <2>1. r.type = "duplicate_of" BY <1>1 DEF Duplicates, duplicateRelations, Link
  <2>2. QED BY <2>1 DEF Founded
<1>2. CASE r \in MatchesOf(a) \cup Conflicts(a)
  <2>1. PICK f \in facts[a], q \in Others(a) :
          /\ r.src = a /\ r.tgt = q[1] /\ r.srcEv = f.ev /\ r.tgtEv = q[2].ev
          /\ \/ r.about = Bare(f) /\ Bare(q[2]) = Bare(f)
             \/ r.type = "updates_fact"
    BY <1>2, MatchesAreOfFacts
  <2>2. q[1] \in Artifact /\ q[2] \in facts[q[1]] BY DEF Others
  <2>3. QED BY <2>1, <2>2 DEF FirstInv, FactsOnce, FactsCiteText, Founded, HasFact
<1>3. QED BY <1>1, <1>2 DEF Proposable

LEMMA NextFactsOnce ==
  ASSUME IInv, FirstInv, [Next]_vars
  PROVE  FactsOnce'
<1>1. ASSUME NEW a \in Artifact, attempts'[a] = 0 PROVE facts'[a] = {}
  <2>1. attempts[a] = 0 BY <1>1, AttemptsGrow
  <2>2. facts[a] = {} /\ job[a] = "queued" BY <2>1 DEF FirstInv, FactsOnce, IInv, AttemptsLeft
  <2>3. \A w \in Worker : KnowsIts(w) => work[w].art # a BY <2>2 DEF KnowsIts
  <2>4. facts'[a] = facts[a] BY <2>3, Writers
  <2>5. QED BY <2>2, <2>4
<1>2. ASSUME NEW a \in Artifact, attempts'[a] <= 1 PROVE FactsCiteText(a)'
  <2>1. attempts[a] <= 1 BY <1>2, AttemptsGrow
  <2>2. CASE facts[a] # {}
    BY <1>2, <2>1, <2>2, FirstFactsStay DEF FirstInv, FactsOnce, FactsCiteText, Ev
  <2>3. CASE facts[a] = {} /\ facts'[a] # {}
    <3>1. PICK w \in Worker : /\ PersistExtraction(w) \/ ReplaceFacts(w)
                             /\ Busy(w) /\ KnowsIts(w) /\ work[w].art = a
      BY <2>3, Writers
    <3>2. ~PersistExtraction(w)
      <4>1. SUFFICES ASSUME PersistExtraction(w) PROVE facts'[a] = {} BY <2>3
      <4>2. PICK S : S = {[f EXCEPT !.ev = NoEvidence] : f \in facts[a]} OBVIOUS
      <4>3. S = {} BY <2>3, <4>2
      <4>4. facts' = [facts EXCEPT ![a] = S]
        BY <3>1, <4>1, <4>2 DEF PersistExtraction, Cascade
      <4>5. QED BY <4>3, <4>4 DEF IInv, TablesTyped
    <3>3. ReplaceFacts(w) BY <3>1, <3>2
    <3>4. facts'[a] = work[w].found /\ text' = text BY <3>1, <3>3 DEF ReplaceFacts, IInv, TablesTyped
    <3>5. Sound(work[w].found, a) BY <3>1, <3>3 DEF ReplaceFacts, KnowsIts
    <3>6. QED BY <3>4, <3>5 DEF Sound, SoundFrom, FactsCiteText, Ev
  <2>4. CASE facts'[a] = {} BY <2>4 DEF FactsCiteText
  <2>5. QED BY <2>2, <2>3, <2>4
<1>3. ASSUME NEW w \in Worker, Busy(w)', NEW a, a = work'[w].art, attempts'[a] <= 1,
             ~PastFacts(w)'
      PROVE  facts'[a] = {}
  <2>1. CASE \E b \in Artifact : Begins(w, b)
    <3>1. a \in Artifact /\ Begin(w, a) BY <1>3, <2>1 DEF Begins
    <3>2. attempts[a] \in Nat /\ attempts'[a] = attempts[a] + 1
      BY <3>1, AttemptsGrow DEF Begin
    <3>3. facts[a] = {} BY <1>3, <3>1, <3>2 DEF FirstInv, FactsOnce
    <3>4. QED BY <3>1, <3>3 DEF Begin, derived
  <2>2. CASE Busy(w) /\ work[w].art = a /\ ~PastFacts(w)
    <3>1. a \in Artifact BY <2>2 DEF IInv, KnowsIts
    <3>2. facts[a] = {} BY <1>3, <2>2, <3>1, AttemptsGrow DEF FirstInv, FactsOnce
    <3>3. SUFFICES ASSUME facts'[a] # {} PROVE FALSE OBVIOUS
    <3>4. PICK v \in Worker : /\ PersistExtraction(v) \/ ReplaceFacts(v)
                             /\ Busy(v) /\ KnowsIts(v) /\ work[v].art = a
      BY <3>1, <3>2, <3>3, Writers
    <3>5. v = w BY <2>2, <3>4 DEF IInv, Exclusive
    <3>6. ~PersistExtraction(v)
      <4>1. SUFFICES ASSUME PersistExtraction(v) PROVE facts'[a] = {} BY <3>3
      <4>2. PICK S : S = {[f EXCEPT !.ev = NoEvidence] : f \in facts[a]} OBVIOUS
      <4>3. S = {} BY <3>2, <4>2
      <4>4. facts' = [facts EXCEPT ![a] = S]
        BY <3>4, <4>1, <4>2 DEF PersistExtraction, Cascade
      <4>5. QED BY <3>1, <4>3, <4>4 DEF IInv, TablesTyped
    <3>7. ReplaceFacts(w) BY <3>4, <3>5, <3>6
    <3>8. At(w, "extract_fields", "write") /\ Move(w, "succeed") /\ WorkIsWhole
      BY <3>7 DEF ReplaceFacts, IInv
    <3>9. /\ work'[w] = [art |-> work[w].art, stage |-> work[w].stage, at |-> "succeed",
                         found |-> work[w].found, pending |-> work[w].pending]
          /\ work[w].stage = "extract_fields"
      BY <3>8, Moved DEF At
    <3>10. work'[w].stage = "extract_fields" /\ work'[w].at = "succeed" BY <3>9
    <3>11. QED BY <1>3, <3>10 DEF PastFacts
  <2>3. QED BY <1>3, <2>1, <2>2, PastFactsStays
<1>4. QED BY <1>1, <1>2, <1>3 DEF FactsOnce

(* What a worker means to store is founded. *)
LEMMA NextPendingFounded ==
  ASSUME IInv, FirstInv, [Next]_vars, NEW w \in Worker, Busy(w)', NEW r \in work'[w].pending
  PROVE  Founded(r)'
<1>1. CASE \E a \in Artifact : Begins(w, a) BY <1>1 DEF Begins
<1>2. CASE NextStage(w) BY <1>2 DEF NextStage
<1>3. CASE work'[w] = Free BY <1>3 DEF Free
<1>4. CASE Busy(w) /\ work'[w].pending \subseteq work[w].pending \cup Proposable(work[w].art)
  <2>1. KnowsIts(w) /\ work[w].art \in Artifact BY <1>4 DEF IInv, KnowsIts
  <2>2. CASE r \in work[w].pending
    <3>1. CitesItsOwn(r) BY <2>1, <2>2 DEF KnowsIts
    <3>2. Founded(r) BY <1>4, <2>2 DEF FirstInv, AllFounded
    <3>3. QED BY <3>1, <3>2, FoundedStays DEF CitesItsOwn
  <2>3. CASE r \in Proposable(work[w].art)
    <3>1. Founded(r) BY <2>1, <2>3, ProposableFounded
    <3>2. CitesItsOwn(r) BY <2>1, <2>3, MatchesCite
    <3>3. QED BY <3>1, <3>2, FoundedStays DEF CitesItsOwn
  <2>4. QED BY <1>4, <2>2, <2>3
<1>5. CASE GoesOn(w) BY <1>4, <1>5 DEF GoesOn
<1>6. CASE work'[w] = work[w] BY <1>4, <1>6 DEF Busy
<1>7. QED BY <1>1, <1>2, <1>3, <1>5, <1>6, WorkerMoves

(* Who writes relations, and how. *)
LEMMA RelationWriters ==
  ASSUME IInv, [Next]_vars
  PROVE  \/ relations' = relations
         \/ \E w \in Worker : Busy(w) /\ relations' \subseteq relations \cup work[w].pending
         \/ \E w \in Worker :
              /\ Busy(w) /\ ~PastFacts(w) /\ work[w].art \in Artifact
              /\ relations' = {Link(r.src, r.tgt, r.type, r.about, Forget(work[w].art, r.srcEv),
                                    Forget(work[w].art, r.tgtEv)) : r \in relations}
<1>1. ASSUME NEW w \in Worker, PersistExtraction(w)
      PROVE  /\ Busy(w) /\ ~PastFacts(w) /\ work[w].art \in Artifact
             /\ relations' = {Link(r.src, r.tgt, r.type, r.about, Forget(work[w].art, r.srcEv),
                                   Forget(work[w].art, r.tgtEv)) : r \in relations}
  <2>1. At(w, "extract_artifact", "read") BY <1>1 DEF PersistExtraction
  <2>2. Busy(w) /\ work[w].art \in Artifact /\ work[w].stage = "extract_artifact"
    BY <2>1, Standing
  <2>3. ~PastFacts(w) BY <2>2 DEF PastFacts
  <2>4. PICK a \in Artifact : a = work[w].art BY <2>2
  <2>5. Cascade(a) BY <1>1, <2>4 DEF PersistExtraction
  <2>6. QED BY <2>2, <2>3, <2>4, <2>5 DEF Cascade
<1>2. ASSUME NEW w \in Worker, StoreRelation(w)
      PROVE  Busy(w) /\ relations' \subseteq relations \cup work[w].pending
  <2>1. At(w, "reconcile_artifact", "write") BY <1>2 DEF StoreRelation, Reconciled
  <2>2. QED BY <1>2, <2>1 DEF StoreRelation, At, Busy
<1>3. \/ relations' = relations
      \/ \E w \in Worker : PersistExtraction(w) \/ StoreRelation(w)
  BY DEF Next, vars, derived, Process, Begin, MarkStageRunning, MarkStageSucceeded,
         UpsertEvidence, ClassifyArtifact, ExtractFacts, ExtractRuleFacts, ReplaceFacts,
         FindDuplicates, FindMatches, FindConflicts, RelationsStored, ClusterArtifact, Return, Err, Stop
<1>4. QED BY <1>1, <1>2, <1>3

LEMMA NextAllFounded ==
  ASSUME IInv, FirstInv, [Next]_vars
  PROVE  AllFounded'
<1>1. ASSUME NEW r \in relations PROVE Founded(r)'
  <2>1. Founded(r) /\ CitesItsOwn(r) BY DEF FirstInv, AllFounded, IInv, CitedHolds
  <2>2. QED BY <2>1, FoundedStays DEF CitesItsOwn
<1>2. ASSUME NEW w \in Worker, Busy(w), NEW r \in work[w].pending PROVE Founded(r)'
  <2>1. Founded(r) /\ CitesItsOwn(r)
    BY <1>2 DEF FirstInv, AllFounded, IInv, KnowsIts
  <2>2. QED BY <2>1, FoundedStays DEF CitesItsOwn
<1>3. ASSUME NEW q \in relations' PROVE Founded(q)'
  <2>1. CASE relations' = relations BY <1>1, <2>1
  <2>2. CASE \E w \in Worker : Busy(w) /\ relations' \subseteq relations \cup work[w].pending
    BY <1>1, <1>2, <2>2
  <2>3. ASSUME NEW w \in Worker, Busy(w), ~PastFacts(w), NEW a \in Artifact, a = work[w].art,
               relations' = {Link(r.src, r.tgt, r.type, r.about, Forget(a, r.srcEv),
                                  Forget(a, r.tgtEv)) : r \in relations}
        PROVE  Founded(q)'
    <3>1. PICK r \in relations :
            /\ q.src = r.src /\ q.tgt = r.tgt /\ q.type = r.type /\ q.about = r.about
            /\ q.srcEv = Forget(a, r.srcEv) /\ q.tgtEv = Forget(a, r.tgtEv)
      BY <2>3 DEF Link
    <3>2. Founded(r) /\ Founded(r)' /\ r.src \in Artifact /\ r.tgt \in Artifact
      BY <1>1 DEF FirstInv, AllFounded, IInv, CitedHolds, CitesItsOwn
    <3>3. SUFFICES ASSUME attempts'[r.src] <= 1, attempts'[r.tgt] <= 1, r.type # "duplicate_of"
                   PROVE  q.srcEv = r.srcEv /\ q.tgtEv = r.tgtEv
      BY <3>1, <3>2 DEF Founded
    <3>4. attempts[r.src] <= 1 /\ attempts[r.tgt] <= 1 BY <3>2, <3>3, AttemptsGrow
    <3>5. /\ r.srcEv = Ev(r.src) /\ r.tgtEv = Ev(r.tgt)
          /\ facts[r.src] # {} /\ facts[r.tgt] # {}
      BY <3>2, <3>3, <3>4 DEF Founded
    <3>6. r.src # a /\ r.tgt # a
      BY <2>3, <3>4, <3>5 DEF FirstInv, FactsOnce
    <3>7. QED BY <3>1, <3>5, <3>6 DEF Forget, Ev
  <2>4. QED BY <2>1, <2>2, <2>3, RelationWriters
<1>4. QED BY <1>3, NextPendingFounded DEF AllFounded

(***************************************************************************)
(* A relation between artifacts that succeeded at their first attempt      *)
(* cites evidence on both sides and holds.                                 *)
(***************************************************************************)
THEOREM FirstRelations == Spec => []FirstRelationsHold
<1>1. ASSUME IInv, FirstInv PROVE FirstRelationsHold
  <2>1. SUFFICES ASSUME NEW r \in relations, attempts[r.src] = 1, attempts[r.tgt] = 1
                 PROVE  /\ Cites(r)
                        /\ r.type = "supports" => \A a \in {r.src, r.tgt} : HasFact(a, r.about)
    BY DEF FirstRelationsHold
  <2>2. Founded(r) /\ r.src \in Artifact /\ r.tgt \in Artifact
    BY <1>1 DEF FirstInv, AllFounded, IInv, CitedHolds, CitesItsOwn
  <2>3. Cites(r)
    BY <2>1, <2>2, NoneAssumption DEF Cites, Founded, Ev, NoEvidence
  <2>4. QED BY <2>1, <2>2, <2>3 DEF Founded, HasFact
<1>2. FirstInv /\ IInv /\ [Next]_vars => FirstInv'
  BY NextFactsOnce, NextAllFounded DEF FirstInv
<1>3. QED BY <1>1, <1>2, InitFirstInv, Invariant, PTL DEF Spec

-----------------------------------------------------------------------------
(***************************************************************************)
(* Likeness.  Once an artifact has asked for others like it, its facts and *)
(* its class stay, and whoever of two asks later finds the other, unless   *)
(* so many are alike that the LIMIT may cut it off: what they have in      *)
(* common is then in relations, or still in the hands of a worker.  The    *)
(* same bytes are asked for at once, facts one by one.                     *)
(***************************************************************************)
PastBytes(w) ==
  \/ work[w].stage \in {"cluster_threads", "return"}
  \/ work[w].stage = "reconcile_artifact" /\ work[w].at \in {"write", "succeed"}

StillToAsk(w, f) == At(w, "reconcile_artifact", "write") /\ f \in work[w].found

Asked(w, f) == PastBytes(w) /\ ~StillToAsk(w, f)

LookedBytes(a) ==
  \/ job[a] = "succeeded"
  \/ \E w \in Worker : Busy(w) /\ work[w].art = a /\ PastBytes(w)

LookedFor(a, f) ==
  \/ job[a] = "succeeded"
  \/ \E w \in Worker : Busy(w) /\ work[w].art = a /\ Asked(w, f)

LEMMA LookedForBytes ==
  ASSUME NEW a, NEW f, LookedFor(a, f)
  PROVE  LookedBytes(a)
BY DEF LookedFor, LookedBytes, Asked

PendsInTime(w) ==
  work[w].pending # {} => work[w].stage = "reconcile_artifact" /\ work[w].at = "write"

Says(r, a, b, type, about) == {r.src, r.tgt} = {a, b} /\ r.type = type /\ r.about = about

Pending(a, b, type, about) ==
  \E w \in Worker : Busy(w) /\ \E r \in work[w].pending : Says(r, a, b, type, about)

Said(a, b, type, about) == Related(a, b, type, about) \/ Pending(a, b, type, about)

FewCopies(a) == Cardinality(Copies(a)) <= DuplicateLimit + 1
FewMention(about) == Cardinality(Mentions(about)) <= MatchLimit + 1

AlikeBytes(a, b) ==
  ContentHash[a] = ContentHash[b] /\ FewCopies(a) => Said(a, b, "duplicate_of", "bytes")

AlikeFacts(a, b, f, g) ==
  /\ Bare(f) = Bare(g)
  /\ relationForExactFact(f.type) # "none"
  /\ class[a].class = class[b].class
  /\ FewMention(Bare(f))
  => Said(a, b, relationForExactFact(f.type), Bare(f))

LikeInv ==
  /\ \A w \in Worker : Busy(w) => PendsInTime(w)
  /\ \A a, b \in Artifact : a # b /\ LookedBytes(a) /\ LookedBytes(b) => AlikeBytes(a, b)
  /\ \A a, b \in Artifact : a # b =>
       \A f \in facts[a], g \in facts[b] :
         LookedFor(a, f) /\ LookedFor(b, g) => AlikeFacts(a, b, f, g)

LEMMA InitLikeInv == Init => LikeInv
BY DEF Init, LikeInv, LookedBytes, LookedFor, Busy, Free

(* Never fewer artifacts have the same bytes, or a fact: the LIMIT that is *)
(* not reached was never reached before.                                   *)
LEMMA FewBefore ==
  ASSUME IInv, FirstInv, [Next]_vars
  PROVE  /\ \A a \in Artifact : FewCopies(a)' => FewCopies(a)
         /\ \A about : FewMention(about)' => FewMention(about)
<1>1. \A c \in Artifact : attempts[c] \in Nat /\ attempts'[c] \in Nat /\ attempts[c] <= attempts'[c]
  <2>1. attempts \in [Artifact -> Nat] BY AttemptsGrow
  <2>2. QED BY <2>1, AttemptsGrow
<1>2. ASSUME NEW a \in Artifact, FewCopies(a)' PROVE FewCopies(a)
  <2>1. PICK C : C = Copies(a) OBVIOUS
  <2>2. PICK D : D = Copies(a)' OBVIOUS
  <2>3. C \subseteq D /\ D \subseteq Artifact BY <1>1, <2>1, <2>2 DEF Copies
  <2>4. IsFiniteSet(D) BY <2>3, FS_Subset, TablesAssumption
  <2>5. /\ Cardinality(C) <= Cardinality(D) /\ Cardinality(C) \in Nat /\ Cardinality(D) \in Nat
    BY <2>3, <2>4, FS_Subset, FS_CardinalityType
  <2>6. Cardinality(D) <= DuplicateLimit + 1 BY <1>2, <2>2 DEF FewCopies
  <2>7. Cardinality(C) <= DuplicateLimit + 1 BY <2>5, <2>6, LimitsAssumption
  <2>8. QED BY <2>1, <2>7 DEF FewCopies
<1>3. ASSUME NEW about, FewMention(about)' PROVE FewMention(about)
  <2>1. PICK C : C = Mentions(about) OBVIOUS
  <2>2. PICK D : D = Mentions(about)' OBVIOUS
  <2>3. ASSUME NEW c \in Artifact, HasFact(c, about) \/ attempts[c] > 1
        PROVE  HasFact(c, about)' \/ attempts'[c] > 1
    <3>1. CASE attempts'[c] > 1 BY <3>1
    <3>2. CASE attempts'[c] <= 1
      <4>1. HasFact(c, about) BY <1>1, <2>3, <3>2
      <4>2. facts[c] # {} BY <4>1 DEF HasFact
      <4>3. facts'[c] = facts[c] BY <3>2, <4>2, FirstFactsStay
      <4>4. QED BY <4>1, <4>3 DEF HasFact
    <3>3. QED BY <1>1, <3>1, <3>2
  <2>4. C \subseteq D /\ D \subseteq Artifact BY <2>1, <2>2, <2>3 DEF Mentions
  <2>5. IsFiniteSet(D) BY <2>4, FS_Subset, TablesAssumption
  <2>6. /\ Cardinality(C) <= Cardinality(D) /\ Cardinality(C) \in Nat /\ Cardinality(D) \in Nat
    BY <2>4, <2>5, FS_Subset, FS_CardinalityType
  <2>7. Cardinality(D) <= MatchLimit + 1 BY <1>3, <2>2 DEF FewMention
  <2>8. Cardinality(C) <= MatchLimit + 1 BY <2>6, <2>7, LimitsAssumption
  <2>9. QED BY <2>1, <2>8 DEF FewMention
<1>4. QED BY <1>2, <1>3

(* A query of an artifact that is itself among few gets all the others. *)
LEMMA AllButOne ==
  ASSUME NEW a, NEW C, C \subseteq Artifact, a \in C, NEW n \in Nat, Cardinality(C) <= n + 1,
         NEW R, R \subseteq C \ {a}, NEW S \in Limited(R, n)
  PROVE  S = R
<1>1. IsFiniteSet(C) BY FS_Subset, TablesAssumption
<1>2. /\ IsFiniteSet(C \ {a}) /\ Cardinality(C \ {a}) = Cardinality(C) - 1
  BY <1>1, FS_RemoveElement
<1>3. IsFiniteSet(R) /\ Cardinality(R) <= Cardinality(C \ {a}) BY <1>2, FS_Subset
<1>4. Cardinality(C) \in Nat /\ Cardinality(R) \in Nat BY <1>1, <1>3, FS_CardinalityType
<1>5. Cardinality(R) <= n BY <1>2, <1>3, <1>4
<1>6. QED BY <1>5, LimitedRows

LEMMA NextPendsInTime ==
  ASSUME IInv, LikeInv, [Next]_vars, NEW w \in Worker, Busy(w)'
  PROVE  PendsInTime(w)'
<1>1. CASE work'[w] = work[w] BY <1>1 DEF LikeInv, Busy, PendsInTime
<1>2. CASE work'[w] = Free BY <1>2 DEF Free, PendsInTime
<1>3. CASE \E a \in Artifact : Begins(w, a) BY <1>3 DEF Begins, PendsInTime
<1>4. CASE GoesOn(w) BY <1>4 DEF GoesOn, LikeInv, PendsInTime
<1>5. CASE NextStage(w) BY <1>5 DEF NextStage, PendsInTime
<1>6. QED BY <1>1, <1>2, <1>3, <1>4, <1>5, WorkerMoves

(* A job succeeds from the end of the stages. *)
LEMMA SuccessFromReturn ==
  ASSUME IInv, [Next]_vars, NEW a \in Artifact, job'[a] = "succeeded"
  PROVE  LookedBytes(a) /\ \A f : LookedFor(a, f)
<1> DEFINE Goal == LookedBytes(a) /\ \A f : LookedFor(a, f)
<1> SUFFICES Goal OBVIOUS
<1>0. ASSUME job[a] = "succeeded" PROVE Goal BY <1>0 DEF LookedBytes, LookedFor
<1>1. CASE job' = job BY <1>0, <1>1
<1>2. ASSUME NEW w \in Worker, NEW b \in Artifact, Begin(w, b) PROVE Goal
  <2>1. job[a] = "succeeded" BY <1>2 DEF Begin, IInv, TablesTyped
  <2>2. QED BY <1>0, <2>1
<1>3. ASSUME NEW w \in Worker, Return(w) PROVE Goal
  <2>1. Busy(w) /\ work[w].stage = "return" BY <1>3 DEF Return, Busy
  <2>2. job' = [job EXCEPT ![work[w].art] = "succeeded"] BY <1>3 DEF Return
  <2>3. job[a] = "succeeded" \/ work[w].art = a BY <2>2 DEF IInv, TablesTyped
  <2>4. ASSUME work[w].art = a PROVE Goal
    BY <2>1, <2>4 DEF LookedBytes, LookedFor, Asked, PastBytes, StillToAsk, At
  <2>5. QED BY <1>0, <2>3, <2>4
<1>4. ASSUME NEW w \in Worker, Err(w) PROVE Goal
  <2>1. PICK c : c = work[w].art OBVIOUS
  <2>2. PICK s \in {"dead", "failed"} : job' = [job EXCEPT ![c] = s]
    BY <1>4, <2>1 DEF Err
  <2>3. job[a] = "succeeded" BY <2>2 DEF IInv, TablesTyped
  <2>4. QED BY <1>0, <2>3
<1>5. job' = job \/ \E w \in Worker : Return(w) \/ Err(w) \/ \E b \in Artifact : Begin(w, b)
  BY DEF Next, vars, Process, PersistExtraction, MarkStageRunning, MarkStageSucceeded,
         UpsertEvidence, ClassifyArtifact, ExtractFacts, ExtractRuleFacts, ReplaceFacts,
         FindDuplicates, FindMatches, FindConflicts, StoreRelation, RelationsStored, ClusterArtifact, Stop
<1>6. QED BY <1>1, <1>2, <1>3, <1>4, <1>5

(* A worker enters a later stage from the end of reconciliation or later. *)
LEMMA EntersLate ==
  ASSUME NEW w \in Worker, NextStage(w), PastBytes(w)'
  PROVE  work[w].stage \in {"reconcile_artifact", "cluster_threads"} /\ work[w].at = "succeed"
<1>1. /\ work[w].stage \in Stages /\ work[w].at = "succeed"
      /\ work'[w].stage = Following[work[w].stage] /\ work'[w].at = "mark"
  BY DEF NextStage
<1>2. work'[w].stage \in {"cluster_threads", "return"} BY <1>1 DEF PastBytes
<1>3. QED BY <1>1, <1>2, FollowingIs DEF Stages

(* An artifact that has looked had looked before, or this is the step. *)
LEMMA LookedBefore ==
  ASSUME IInv, [Next]_vars, NEW a \in Artifact, LookedBytes(a)'
  PROVE  \/ LookedBytes(a)
         \/ \E w \in Worker : Busy(w) /\ work[w].art = a /\ FindDuplicates(w)
<1>1. CASE job'[a] = "succeeded" BY <1>1, SuccessFromReturn
<1>2. ASSUME NEW w \in Worker, Busy(w)', work'[w].art = a, PastBytes(w)'
      PROVE  Busy(w) /\ work[w].art = a /\ (PastBytes(w) \/ FindDuplicates(w))
  <2>1. CASE work'[w] = work[w] BY <1>2, <2>1 DEF Busy, PastBytes
  <2>2. CASE work'[w] = Free BY <1>2, <2>2, FreeIsFree DEF Busy
  <2>3. CASE \E b \in Artifact : Begins(w, b) BY <1>2, <2>3 DEF Begins, PastBytes
  <2>4. CASE GoesOn(w) BY <1>2, <2>4 DEF GoesOn, PastBytes
  <2>5. CASE NextStage(w)
    <3>1. work[w].stage \in {"reconcile_artifact", "cluster_threads"} /\ work[w].at = "succeed"
      BY <1>2, <2>5, EntersLate
    <3>2. Busy(w) /\ work'[w].art = work[w].art BY <2>5 DEF NextStage
    <3>3. QED BY <1>2, <3>1, <3>2 DEF PastBytes
  <2>6. QED BY <2>1, <2>2, <2>3, <2>4, <2>5, WorkerMoves
<1>3. QED BY <1>1, <1>2 DEF LookedBytes

(* The query for a fact. *)
AsksFor(w, a, f) ==
  /\ Busy(w) /\ work[w].art = a /\ At(w, "reconcile_artifact", "write")
  /\ f \in work[w].found /\ f \in facts[a]
  /\ UNCHANGED <<job, attempts, derived, stage>>
  /\ \E B \in Limited(Holders(a, f), MatchLimit) :
       Propose(w, work[w].found \ {f}, work[w].pending \cup factMatchRelations(a, f, B))

LEMMA AmountsDoNotMatch == relationForExactFact("amount") = "none"
BY DEF relationForExactFact, Obliging, Supporting

(* A step of reconciliation asks for a fact, or it was asked for before. *)
LEMMA QueryAsks ==
  ASSUME IInv, NEW w \in Worker, FindDuplicates(w) \/ FindMatches(w) \/ FindConflicts(w),
         NEW a \in Artifact, a = work[w].art, NEW f \in facts[a],
         relationForExactFact(f.type) # "none", Asked(w, f)'
  PROVE  Asked(w, f) \/ AsksFor(w, a, f)
<1>1. WorkIsWhole BY DEF IInv
<1>2. f \in Matchable(a) /\ f \notin Amounts(a)
  BY AmountsDoNotMatch DEF Matchable, Amounts
<1>3. ASSUME NEW Q, NEW P, Propose(w, Q, P), NEW s, NEW at, At(w, s, at), s = "reconcile_artifact"
      PROVE  f \notin Q
  <2>1. /\ work'[w] = [art |-> work[w].art, stage |-> work[w].stage, at |-> "write",
                       found |-> Q, pending |-> P]
    BY <1>1, <1>3, Proposed
  <2>2. /\ work'[w].art = work[w].art /\ work'[w].stage = work[w].stage
        /\ work'[w].at = "write" /\ work'[w].found = Q
    BY <2>1
  <2>3. ~StillToAsk(w, f)' BY DEF Asked
  <2>4. At(w, "reconcile_artifact", "write")' BY <1>3, <2>2 DEF At
  <2>5. QED BY <2>2, <2>3, <2>4 DEF StillToAsk
<1>4. CASE FindDuplicates(w)
  <2>1. At(w, "reconcile_artifact", "read") BY <1>4 DEF FindDuplicates
  <2>2. PICK P : Propose(w, Matchable(a) \cup Amounts(a), P) BY <1>4 DEF FindDuplicates
  <2>3. f \notin Matchable(a) \cup Amounts(a) BY <1>3, <2>1, <2>2
  <2>4. QED BY <1>2, <2>3
<1>5. ASSUME At(w, "reconcile_artifact", "write"), f \notin work[w].found PROVE Asked(w, f)
  BY <1>5 DEF Asked, PastBytes, StillToAsk, At
<1>6. CASE FindMatches(w)
  <2>1. At(w, "reconcile_artifact", "write") /\ UNCHANGED <<job, attempts, derived, stage>>
    BY <1>6 DEF FindMatches
  <2>2. PICK h \in work[w].found \cap Matchable(a) :
          \E B \in Limited(Holders(a, h), MatchLimit) :
            Propose(w, work[w].found \ {h}, work[w].pending \cup factMatchRelations(a, h, B))
    BY <1>6 DEF FindMatches
  <2>3. f \notin work[w].found \ {h} BY <1>3, <2>1, <2>2
  <2>4. CASE f \notin work[w].found BY <1>5, <2>1, <2>4
  <2>5. CASE f \in work[w].found
    <3>1. f = h BY <2>3, <2>5
    <3>2. Busy(w) BY <2>1 DEF At, Busy
    <3>3. QED BY <2>1, <2>2, <2>5, <3>1, <3>2 DEF AsksFor
  <2>6. QED BY <2>4, <2>5
<1>7. CASE FindConflicts(w)
  <2>1. At(w, "reconcile_artifact", "write") /\ work[w].found \subseteq Amounts(a)
    BY <1>7 DEF FindConflicts
  <2>2. QED BY <1>2, <1>5, <2>1
<1>8. QED BY <1>4, <1>6, <1>7

(* A fact that was asked for had been before, or this is the step. *)
LEMMA AskedBefore ==
  ASSUME IInv, [Next]_vars, NEW a \in Artifact, NEW f \in facts[a], facts'[a] = facts[a],
         relationForExactFact(f.type) # "none", LookedFor(a, f)'
  PROVE  LookedFor(a, f) \/ \E w \in Worker : AsksFor(w, a, f)
<1>1. CASE job'[a] = "succeeded" BY <1>1, SuccessFromReturn
<1>2. ASSUME NEW w \in Worker, Busy(w)', work'[w].art = a, Asked(w, f)'
      PROVE  Busy(w) /\ work[w].art = a /\ (Asked(w, f) \/ AsksFor(w, a, f))
  <2>0. PastBytes(w)' BY <1>2 DEF Asked
  <2>1. CASE work'[w] = work[w] BY <1>2, <2>1 DEF Busy, Asked, PastBytes, StillToAsk, At
  <2>2. CASE work'[w] = Free BY <1>2, <2>2, FreeIsFree DEF Busy
  <2>3. CASE \E b \in Artifact : Begins(w, b) BY <2>0, <2>3 DEF Begins, PastBytes
  <2>4. CASE GoesOn(w)
    <3>1. Busy(w) /\ work[w].art = a BY <1>2, <2>4 DEF GoesOn
    <3>2. CASE FindDuplicates(w) \/ FindMatches(w) \/ FindConflicts(w)
      BY <1>2, <3>1, <3>2, QueryAsks
    <3>3. CASE /\ work[w].stage = "reconcile_artifact" /\ work[w].at = "write"
               /\ StoreRelation(w) \/ RelationsStored(w)
      <4>1. work[w].found = {} BY <3>3 DEF StoreRelation, RelationsStored, Reconciled
      <4>2. QED BY <3>1, <3>3, <4>1 DEF Asked, PastBytes, StillToAsk
    <3>4. CASE work[w].stage # "reconcile_artifact" /\ work'[w].stage = work[w].stage
      BY <2>0, <3>1, <3>4 DEF Asked, PastBytes, StillToAsk, At
    <3>5. QED BY <2>0, <2>4, <3>2, <3>3, <3>4 DEF GoesOn, PastBytes
  <2>5. CASE NextStage(w)
    <3>1. work[w].stage \in {"reconcile_artifact", "cluster_threads"} /\ work[w].at = "succeed"
      BY <2>0, <2>5, EntersLate
    <3>2. Busy(w) /\ work'[w].art = work[w].art BY <2>5 DEF NextStage
    <3>3. QED BY <1>2, <3>1, <3>2 DEF Asked, PastBytes, StillToAsk, At
  <2>6. QED BY <2>1, <2>2, <2>3, <2>4, <2>5, WorkerMoves
<1>3. QED BY <1>1, <1>2 DEF LookedFor

(* Whoever holds an artifact that has looked is past it. *)
LEMMA HolderLooked ==
  ASSUME IInv, NEW a \in Artifact, LookedBytes(a), NEW w \in Worker, Busy(w), work[w].art = a
  PROVE  PastBytes(w) /\ PastFacts(w) /\ work[w].stage # "classify_artifact"
<1>1. PastBytes(w) BY DEF LookedBytes, IInv, KnowsIts, Exclusive
<1>2. QED BY <1>1 DEF PastBytes, PastFacts

(* What an artifact that has looked is like stays. *)
LEMMA LookedKeeps ==
  ASSUME IInv, [Next]_vars, NEW a \in Artifact, LookedBytes(a)
  PROVE  facts'[a] = facts[a] /\ class'[a] = class[a]
<1>1. facts'[a] = facts[a] BY HolderLooked, Writers
<1>2. ASSUME NEW w \in Worker, PersistExtraction(w) PROVE class'[a] = class[a]
  <2>1. At(w, "extract_artifact", "read") BY <1>2 DEF PersistExtraction
  <2>2. Busy(w) /\ work[w].stage = "extract_artifact" /\ work[w].art \in Artifact BY <2>1, Standing
  <2>3. work[w].art # a BY <2>2, HolderLooked DEF PastFacts
  <2>4. PICK b \in Artifact : b = work[w].art BY <2>2
  <2>5. Cascade(b) BY <1>2, <2>4 DEF PersistExtraction
  <2>6. PICK r : r = [class[b] EXCEPT !.ev = NoEvidence] OBVIOUS
  <2>7. class' = [class EXCEPT ![b] = r] BY <2>5, <2>6 DEF Cascade
  <2>8. QED BY <2>3, <2>4, <2>7 DEF IInv, TablesTyped
<1>3. ASSUME NEW w \in Worker, ClassifyArtifact(w) PROVE class'[a] = class[a]
  <2>1. At(w, "classify_artifact", "write") BY <1>3 DEF ClassifyArtifact
  <2>2. Busy(w) /\ work[w].stage = "classify_artifact" BY <2>1, Standing
  <2>3. work[w].art # a BY <2>2, HolderLooked
  <2>4. PICK r : class' = [class EXCEPT ![work[w].art] = r] BY <1>3 DEF ClassifyArtifact
  <2>5. QED BY <2>3, <2>4 DEF IInv, TablesTyped
<1>4. class' = class \/ \E w \in Worker : PersistExtraction(w) \/ ClassifyArtifact(w)
  BY DEF Next, vars, derived, Process, Begin, MarkStageRunning, MarkStageSucceeded,
         UpsertEvidence, ExtractFacts, ExtractRuleFacts, ReplaceFacts,
         FindDuplicates, FindMatches, FindConflicts, StoreRelation, RelationsStored, ClusterArtifact,
         Return, Err, Stop
<1>5. QED BY <1>1, <1>2, <1>3, <1>4

(* Relations are never deleted. *)
LEMMA RelatedStays ==
  ASSUME IInv, [Next]_vars, NEW a, NEW b, NEW type, NEW about, Related(a, b, type, about)
  PROVE  Related(a, b, type, about)'
<1>1. PICK r \in relations : {r.src, r.tgt} = {a, b} /\ r.type = type /\ r.about = about
  BY DEF Related
<1>2. CASE relations \subseteq relations' BY <1>1, <1>2 DEF Related
<1>3. ASSUME NEW w \in Worker, PersistExtraction(w) PROVE Related(a, b, type, about)'
  <2>1. At(w, "extract_artifact", "read") BY <1>3 DEF PersistExtraction
  <2>2. PICK c \in Artifact : c = work[w].art BY <2>1, Standing
  <2>3. Cascade(c) BY <1>3, <2>2 DEF PersistExtraction
  <2>4. Link(r.src, r.tgt, r.type, r.about, Forget(c, r.srcEv), Forget(c, r.tgtEv)) \in relations'
    BY <1>1, <2>3 DEF Cascade
  <2>5. QED BY <1>1, <2>4 DEF Related, Link
<1>4. relations \subseteq relations' \/ \E w \in Worker : PersistExtraction(w)
  BY DEF Next, vars, derived, Process, Begin, MarkStageRunning, MarkStageSucceeded,
         UpsertEvidence, ClassifyArtifact, ExtractFacts, ExtractRuleFacts, ReplaceFacts,
         FindDuplicates, FindMatches, FindConflicts, StoreRelation, RelationsStored, ClusterArtifact,
         Return, Err, Stop
<1>5. QED BY <1>2, <1>3, <1>4

(* A worker that lets go of its artifact before the end loses its look. *)
LEMMA LetsGo ==
  ASSUME IInv, [Next]_vars, NEW w \in Worker, Busy(w), ~Busy(w)',
         NEW a \in Artifact, a = work[w].art
  PROVE  work[w].stage = "return" \/ ~LookedBytes(a)'
<1>0. WorkIsWhole /\ KnowsIts(w) BY DEF IInv
<1>1. CASE UNCHANGED vars BY <1>1 DEF vars, Busy
<1>2. CASE Stop
  <2>1. job' = job /\ \A v \in Worker : work'[v] = Free BY <1>2 DEF Stop
  <2>2. job[a] = "running" BY <1>0 DEF KnowsIts
  <2>3. QED BY <2>1, <2>2, FreeIsFree DEF LookedBytes, Busy
<1>3. ASSUME NEW v \in Worker, Process(v) PROVE FALSE
  <2>1. v = w BY <1>3, ProcessMoves DEF Busy
  <2>2. GoesOn(w) \/ NextStage(w) BY <1>3, <2>1, ProcessMoves
  <2>3. work'[w].art = work[w].art
    <3>1. CASE GoesOn(w) BY <3>1 DEF GoesOn
    <3>2. CASE NextStage(w) BY <3>2 DEF NextStage
    <3>3. QED BY <2>2, <3>1, <3>2
  <2>4. QED BY <2>3 DEF Busy
<1>4. ASSUME NEW v \in Worker, NEW b \in Artifact, Begin(v, b) PROVE FALSE
  <2>1. work[v] = Free BY <1>4 DEF Begin
  <2>2. v # w BY <2>1, FreeIsFree DEF Busy
  <2>3. PICK r : work' = [work EXCEPT ![v] = r] BY <1>4 DEF Begin
  <2>4. work'[w] = work[w] BY <1>0, <2>2, <2>3 DEF WorkIsWhole
  <2>5. QED BY <2>4 DEF Busy
<1>5. ASSUME NEW v \in Worker, Return(v) \/ Err(v)
      PROVE  work[w].stage = "return" \/ ~LookedBytes(a)'
  <2>1. work' = [work EXCEPT ![v] = Free] BY <1>5 DEF Return, Err
  <2>2. v = w BY <1>0, <2>1, Freed DEF Busy
  <2>3. CASE Return(w) BY <2>3 DEF Return
  <2>4. CASE Err(w)
    <3>1. PICK s \in {"dead", "failed"} : job' = [job EXCEPT ![a] = s] BY <2>4 DEF Err
    <3>2. job'[a] # "succeeded" BY <3>1 DEF IInv, TablesTyped
    <3>3. ASSUME NEW u \in Worker, Busy(u)', work'[u].art = a PROVE FALSE
      <4>1. u # w BY <3>3
      <4>2. work'[u] = work[u] BY <1>0, <2>1, <2>2, <4>1, Freed
      <4>3. QED BY <3>3, <4>1, <4>2 DEF IInv, Exclusive
    <3>4. QED BY <3>2, <3>3 DEF LookedBytes
  <2>5. QED BY <1>5, <2>2, <2>3, <2>4
<1>6. QED BY <1>1, <1>2, <1>3, <1>4, <1>5 DEF Next

(* What is said of two artifacts that have looked stays said. *)
LEMMA SaidStays ==
  ASSUME IInv, LikeInv, [Next]_vars, NEW a \in Artifact, NEW b \in Artifact,
         LookedBytes(a)', LookedBytes(b)', NEW type, NEW about, Said(a, b, type, about)
  PROVE  Said(a, b, type, about)'
<1>1. CASE Related(a, b, type, about) BY <1>1, RelatedStays DEF Said
<1>2. ASSUME NEW w \in Worker, Busy(w), NEW r \in work[w].pending, Says(r, a, b, type, about)
      PROVE  Said(a, b, type, about)'
  <2>1. PendsInTime(w) /\ KnowsIts(w) BY <1>2 DEF LikeInv, IInv
  <2>2. work[w].stage = "reconcile_artifact" /\ work[w].at = "write"
    BY <1>2, <2>1 DEF PendsInTime
  <2>3. work[w].art \in {a, b} BY <1>2, <2>1 DEF KnowsIts, Says
  <2>4. Busy(w)'
    <3>1. SUFFICES ASSUME ~Busy(w)' PROVE FALSE OBVIOUS
    <3>2. PICK c \in {a, b} : c = work[w].art BY <2>3
    <3>3. ~LookedBytes(c)' BY <1>2, <2>2, <3>1, <3>2, LetsGo
    <3>4. QED BY <3>2, <3>3
  <2>5. CASE r \in work'[w].pending BY <1>2, <2>4, <2>5 DEF Said, Pending, Says
  <2>6. CASE r \notin work'[w].pending
    <3>1. ~NextStage(w) BY <2>2 DEF NextStage
    <3>2. ~\E c \in Artifact : Begins(w, c) BY <1>2, FreeIsFree DEF Begins, Begin, Busy
    <3>3. work'[w] # work[w] /\ work'[w] # Free BY <1>2, <2>4, <2>6, FreeIsFree DEF Busy
    <3>4. GoesOn(w) BY <3>1, <3>2, <3>3, WorkerMoves
    <3>5. StoreRelation(w) BY <1>2, <2>2, <2>6, <3>4 DEF GoesOn
    <3>6. PICK q \in work[w].pending :
            /\ Propose(w, {}, work[w].pending \ {q})
            /\ \/ (\E p \in relations : SameId(p, q)) /\ relations' = relations
               \/ relations' = relations \cup {q}
      BY <3>5 DEF StoreRelation
    <3>7. WorkIsWhole BY DEF IInv
    <3>8. PICK P : P = work[w].pending \ {q} OBVIOUS
    <3>9. work'[w] = [art |-> work[w].art, stage |-> work[w].stage, at |-> "write",
                      found |-> {}, pending |-> P]
      BY <3>6, <3>7, <3>8, Proposed
    <3>10. q = r BY <1>2, <2>6, <3>8, <3>9
    <3>11. \E p \in relations' : SameId(p, r) BY <3>6, <3>10 DEF SameId
    <3>12. QED BY <1>2, <3>11 DEF SameId, Says, Said, Related
  <2>7. QED BY <2>5, <2>6
<1>3. QED BY <1>1, <1>2 DEF Said, Pending

(* What a worker has just proposed is said. *)
LEMMA ProposedIsSaid ==
  ASSUME IInv, NEW w \in Worker, Busy(w), NEW Q, NEW S, Propose(w, Q, S), NEW r \in S,
         NEW a, NEW b, r.src = a, r.tgt = b
  PROVE  Said(a, b, r.type, r.about)' /\ Said(b, a, r.type, r.about)'
<1>1. WorkIsWhole BY DEF IInv
<1>2. work'[w] = [art |-> work[w].art, stage |-> work[w].stage, at |-> "write",
                  found |-> Q, pending |-> S]
  BY <1>1, Proposed
<1>3. Busy(w)' /\ r \in work'[w].pending BY <1>2 DEF Busy
<1>4. Says(r, a, b, r.type, r.about) /\ Says(r, b, a, r.type, r.about) BY DEF Says
<1>5. Pending(a, b, r.type, r.about)' /\ Pending(b, a, r.type, r.about)'
  BY <1>3, <1>4 DEF Pending, Says
<1>6. QED BY <1>5 DEF Said

(* The artifact that asks for its bytes now finds the ones that have asked. *)
LEMMA LooksAndFinds ==
  ASSUME IInv, [Next]_vars, NEW w \in Worker, Busy(w), FindDuplicates(w),
         NEW a \in Artifact, a = work[w].art, NEW b \in Artifact, a # b, LookedBytes(b),
         ContentHash[a] = ContentHash[b], FewCopies(a)
  PROVE  Said(a, b, "duplicate_of", "bytes")' /\ Said(b, a, "duplicate_of", "bytes")'
<1>1. ASSUME NEW c \in Artifact, LookedBytes(c) \/ c = a PROVE attempts[c] > 0
  <2>1. job[c] # "queued" BY <1>1 DEF LookedBytes, IInv, KnowsIts
  <2>2. QED BY <2>1, AttemptsAssumption DEF IInv, AttemptsLeft, TablesTyped
<1>2. /\ SameBytes(a) \subseteq Copies(a) \ {a} /\ a \in Copies(a) /\ Copies(a) \subseteq Artifact
      /\ b \in SameBytes(a)
  BY <1>1 DEF SameBytes, Copies
<1>3. PICK B \in Limited(SameBytes(a), DuplicateLimit) :
        Propose(w, Matchable(a) \cup Amounts(a), duplicateRelations(a, B))
  BY DEF FindDuplicates
<1>4. DuplicateLimit \in Nat BY LimitsAssumption
<1>5. B = SameBytes(a)
  <2>1. PICK C : C = Copies(a) OBVIOUS
  <2>2. PICK R : R = SameBytes(a) OBVIOUS
  <2>3. Cardinality(C) <= DuplicateLimit + 1 BY <2>1 DEF FewCopies
  <2>4. B \in Limited(R, DuplicateLimit) BY <2>2
  <2>5. B = R BY <1>2, <1>4, <2>1, <2>2, <2>3, <2>4, AllButOne
  <2>6. QED BY <2>2, <2>5
<1>6. PICK r : r = Link(a, b, "duplicate_of", "bytes", NoEvidence, NoEvidence) OBVIOUS
<1>7. r \in duplicateRelations(a, B) BY <1>2, <1>5, <1>6 DEF duplicateRelations
<1>8. r.src = a /\ r.tgt = b /\ r.type = "duplicate_of" /\ r.about = "bytes" BY <1>6 DEF Link
<1>9. Said(a, b, r.type, r.about)' /\ Said(b, a, r.type, r.about)'
  BY <1>3, <1>7, <1>8, ProposedIsSaid
<1>10. QED BY <1>8, <1>9

(* The artifact that asks for a fact now finds the ones that have asked for it. *)
LEMMA AsksAndFinds ==
  ASSUME IInv, [Next]_vars, NEW w \in Worker, NEW a \in Artifact, NEW b \in Artifact, a # b,
         NEW f \in facts[a], AsksFor(w, a, f), NEW g \in facts[b], Bare(f) = Bare(g),
         class[a].class = class[b].class, FewMention(Bare(f))
  PROVE  /\ Said(a, b, relationForExactFact(f.type), Bare(f))'
         /\ Said(b, a, relationForExactFact(f.type), Bare(f))'
<1>1. <<b, g>> \in Others(a) BY DEF Others, ClassAgrees
<1>2. PICK C : C = Mentions(Bare(f)) OBVIOUS
<1>3. PICK R : R = Holders(a, f) OBVIOUS
<1>4. \A c \in R : c # a /\ c \in Artifact /\ HasFact(c, Bare(f))
  BY <1>3 DEF Holders, Others, HasFact
<1>5. R \subseteq C \ {a} BY <1>2, <1>4 DEF Mentions
<1>6. a \in C /\ C \subseteq Artifact BY <1>2 DEF Mentions, HasFact
<1>7. Cardinality(C) <= MatchLimit + 1 /\ MatchLimit \in Nat
  BY <1>2, LimitsAssumption DEF FewMention
<1>8. PICK B \in Limited(R, MatchLimit) :
        Propose(w, work[w].found \ {f}, work[w].pending \cup factMatchRelations(a, f, B))
  BY <1>3 DEF AsksFor
<1>9. B = R BY <1>5, <1>6, <1>7, <1>8, AllButOne
<1>10. b \in B
  <2>1. PICK q \in Others(a) : q = <<b, g>> BY <1>1
  <2>2. q[1] = b /\ Bare(q[2]) = Bare(f) BY <2>1
  <2>3. b \in Holders(a, f) BY <2>2 DEF Holders
  <2>4. QED BY <1>3, <1>9, <2>3
<1>11. PICK r : r = Link(a, b, relationForExactFact(f.type), Bare(f), f.ev, g.ev) OBVIOUS
<1>12. r \in factMatchRelations(a, f, B)
  <2>1. PICK q \in Others(a) : q = <<b, g>> BY <1>1
  <2>2. q[1] = b /\ q[1] \in B /\ Bare(q[2]) = Bare(f) /\ q[2].ev = g.ev BY <1>10, <2>1
  <2>3. r = Link(a, q[1], relationForExactFact(f.type), Bare(f), f.ev, q[2].ev) BY <1>11, <2>2
  <2>4. QED BY <2>2, <2>3 DEF factMatchRelations
<1>13. /\ r.src = a /\ r.tgt = b /\ r.type = relationForExactFact(f.type) /\ r.about = Bare(f)
  BY <1>11 DEF Link
<1>14. Busy(w) BY DEF AsksFor
<1>15. PICK S : S = work[w].pending \cup factMatchRelations(a, f, B) OBVIOUS
<1>16. r \in S BY <1>12, <1>15
<1>17. PICK Q : Q = work[w].found \ {f} OBVIOUS
<1>18. Propose(w, Q, S) BY <1>8, <1>15, <1>17
<1>19. Said(a, b, r.type, r.about)' /\ Said(b, a, r.type, r.about)'
  BY <1>13, <1>14, <1>16, <1>18, ProposedIsSaid
<1>20. QED BY <1>13, <1>19

(* Steps in which a worker proposes are not two at once. *)
LEMMA OneProposes ==
  ASSUME IInv, NEW w \in Worker, NEW Q, NEW P, Propose(w, Q, P),
         NEW v \in Worker, v # w, NEW R, NEW T, Propose(v, R, T)
  PROVE  work[v].at = "write" /\ work[v].found = R
<1>1. WorkIsWhole BY DEF IInv
<1>2. work'[v] = work[v] BY <1>1, Proposed
<1>3. work'[v] = [art |-> work[v].art, stage |-> work[v].stage, at |-> "write",
                  found |-> R, pending |-> T]
  BY <1>1, Proposed
<1>4. QED BY <1>2, <1>3

LEMMA NextAlikeBytes ==
  ASSUME IInv, FirstInv, LikeInv, [Next]_vars, NEW a \in Artifact, NEW b \in Artifact, a # b,
         LookedBytes(a)', LookedBytes(b)'
  PROVE  AlikeBytes(a, b)'
<1>1. SUFFICES ASSUME ContentHash[a] = ContentHash[b], FewCopies(a)'
               PROVE  Said(a, b, "duplicate_of", "bytes")'
  BY DEF AlikeBytes
<1>2. FewCopies(a) BY <1>1, FewBefore
<1>3. FewCopies(b) BY <1>1, <1>2 DEF FewCopies, Copies
<1>4. CASE LookedBytes(a) /\ LookedBytes(b)
  <2>1. AlikeBytes(a, b) BY <1>4 DEF LikeInv
  <2>2. Said(a, b, "duplicate_of", "bytes") BY <1>1, <1>2, <2>1 DEF AlikeBytes
  <2>3. QED BY <2>2, SaidStays
<1>5. ASSUME NEW w \in Worker, FindDuplicates(w), NEW v \in Worker, FindDuplicates(v)
      PROVE  v = w
  <2>1. SUFFICES ASSUME v # w PROVE FALSE OBVIOUS
  <2>2. work[v].at = "read" BY <1>5 DEF FindDuplicates, At
  <2>3. PICK Q, P : Propose(w, Q, P) BY <1>5 DEF FindDuplicates
  <2>4. PICK R, T : Propose(v, R, T) BY <1>5 DEF FindDuplicates
  <2>5. QED BY <2>1, <2>2, <2>3, <2>4, OneProposes
<1>6. ASSUME ~LookedBytes(a) PROVE Said(a, b, "duplicate_of", "bytes")'
  <2>1. PICK w \in Worker : Busy(w) /\ work[w].art = a /\ FindDuplicates(w)
    BY <1>6, LookedBefore
  <2>2. LookedBytes(b) BY <1>5, <2>1, LookedBefore
  <2>3. QED BY <1>1, <1>2, <2>1, <2>2, LooksAndFinds
<1>7. ASSUME ~LookedBytes(b) PROVE Said(a, b, "duplicate_of", "bytes")'
  <2>1. PICK w \in Worker : Busy(w) /\ work[w].art = b /\ FindDuplicates(w)
    BY <1>7, LookedBefore
  <2>2. LookedBytes(a) BY <1>5, <2>1, LookedBefore
  <2>3. QED BY <1>1, <1>3, <2>1, <2>2, LooksAndFinds
<1>8. QED BY <1>4, <1>6, <1>7

(* An artifact whose facts were asked for keeps them. *)
LEMMA FactsStand ==
  ASSUME IInv, [Next]_vars, NEW a \in Artifact, LookedBytes(a)'
  PROVE  facts'[a] = facts[a] /\ class'[a] = class[a]
<1>1. CASE LookedBytes(a) BY <1>1, LookedKeeps
<1>2. CASE ~LookedBytes(a)
  <2>1. PICK w \in Worker : FindDuplicates(w) BY <1>2, LookedBefore
  <2>2. QED BY <2>1 DEF FindDuplicates, derived
<1>3. QED BY <1>1, <1>2

LEMMA NextAlikeFacts ==
  ASSUME IInv, FirstInv, LikeInv, [Next]_vars, NEW a \in Artifact, NEW b \in Artifact, a # b,
         NEW f \in facts'[a], NEW g \in facts'[b], LookedFor(a, f)', LookedFor(b, g)'
  PROVE  AlikeFacts(a, b, f, g)'
<1>1. LookedBytes(a)' /\ LookedBytes(b)' BY DEF LookedFor, LookedBytes, Asked
<1>2. /\ facts'[a] = facts[a] /\ class'[a] = class[a]
      /\ facts'[b] = facts[b] /\ class'[b] = class[b]
  BY <1>1, FactsStand
<1>3. f \in facts[a] /\ g \in facts[b] BY <1>2
<1>4. SUFFICES ASSUME Bare(f) = Bare(g), relationForExactFact(f.type) # "none",
                      class[a].class = class[b].class, FewMention(Bare(f))'
               PROVE  Said(a, b, relationForExactFact(f.type), Bare(f))'
  BY <1>2 DEF AlikeFacts
<1>5. FewMention(Bare(f)) BY <1>4, FewBefore
<1>6. f.type = g.type /\ Bare(g) = Bare(f) /\ FewMention(Bare(g)) BY <1>4, <1>5 DEF Bare
<1>7. CASE LookedFor(a, f) /\ LookedFor(b, g)
  <2>1. AlikeFacts(a, b, f, g) BY <1>3, <1>7 DEF LikeInv
  <2>2. Said(a, b, relationForExactFact(f.type), Bare(f)) BY <1>4, <1>5, <2>1 DEF AlikeFacts
  <2>3. QED BY <1>1, <2>2, SaidStays
<1>8. CASE ~LookedFor(a, f)
  <2>1. PICK w \in Worker : AsksFor(w, a, f) BY <1>2, <1>3, <1>4, <1>8, AskedBefore
  <2>2. QED BY <1>3, <1>4, <1>5, <2>1, AsksAndFinds
<1>9. CASE ~LookedFor(b, g)
  <2>1. PICK w \in Worker : AsksFor(w, b, g) BY <1>2, <1>3, <1>4, <1>6, <1>9, AskedBefore
  <2>2. Said(a, b, relationForExactFact(g.type), Bare(g))'
    BY <1>3, <1>4, <1>6, <2>1, AsksAndFinds
  <2>3. QED BY <1>6, <2>2
<1>10. QED BY <1>7, <1>8, <1>9

(***************************************************************************)
(* Of two artifacts that succeeded, what they have in common is on record, *)
(* as long as no more than the LIMIT of the query are alike.               *)
(***************************************************************************)
THEOREM Likeness == Spec => []LikenessIsOnRecord
<1>1. ASSUME IInv, LikeInv PROVE LikenessIsOnRecord
  <2>1. SUFFICES ASSUME NEW a \in Artifact, NEW b \in Artifact, a # b,
                        job[a] = "succeeded", job[b] = "succeeded"
                 PROVE  \A type, about : Said(a, b, type, about) => Related(a, b, type, about)
    BY <1>1
    DEF LikenessIsOnRecord, LikeInv, LookedBytes, LookedFor, AlikeBytes, AlikeFacts, FewCopies,
        FewMention
  <2>2. ASSUME NEW w \in Worker, Busy(w), NEW r \in work[w].pending, NEW type, NEW about,
               Says(r, a, b, type, about)
        PROVE  FALSE
    BY <1>1, <2>1, <2>2 DEF IInv, KnowsIts, Says
  <2>3. QED BY <2>2 DEF Said, Pending
<1>2. LikeInv /\ FirstInv /\ IInv /\ [Next]_vars => LikeInv'
  BY NextPendsInTime, NextAlikeBytes, NextAlikeFacts DEF LikeInv
<1>3. FirstInv /\ IInv /\ [Next]_vars => FirstInv'
  BY NextFactsOnce, NextAllFounded DEF FirstInv
<1>4. QED BY <1>1, <1>2, <1>3, InitFirstInv, InitLikeInv, Invariant, PTL DEF Spec

=============================================================================
