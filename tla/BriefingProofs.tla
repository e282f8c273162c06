---------------------------- MODULE BriefingProofs ----------------------------
(***************************************************************************)
(* Proofs about the generation of briefings, for any number of requests,   *)
(* artifacts and threads, whatever the model answers and whatever fails,   *)
(* and, after them, about the selection of its candidates, for any number  *)
(* of artifacts, any evidence and any limits.                              *)
(***************************************************************************)
EXTENDS Briefing, Selection, Sums, FunctionTheorems, TLAPS

(* What an item that is stored must be, given the candidates it is from. *)
Good(i, candidates) ==
  /\ i.ids # {} /\ i.ids \subseteq Ids(candidates)
  /\ {s.art : s \in i.snippets} \subseteq i.ids
  /\ i.status \in {"verified", "unverified"}
  /\ i.status = "verified" =>
       /\ i.snippets # {}
       /\ \A s \in i.snippets : \E c \in candidates :
            c.art = s.art /\ s.quote \in Says[c.text]

IsRequest(q) ==
  q = [at |-> q.at, pending |-> q.pending, candidates |-> q.candidates, items |-> q.items]

RequestsAreWhole ==
  request = [r \in Request |->
               [at |-> request[r].at, pending |-> request[r].pending,
                candidates |-> request[r].candidates, items |-> request[r].items]]

Unstored == {"new", "select", "ask", "create"}
Places == Unstored \cup {"get", "mark", "done", "failed"}

(* Where a request is tells what it has read and stored. *)
Knows(r) ==
  /\ request[r].at \in Places
  /\ request[r].pending \subseteq Artifact
  /\ request[r].candidates \subseteq Candidate
  /\ request[r].at = "create" => \A i \in request[r].items : Good(i, request[r].candidates)
  /\ request[r].at \in {"get", "mark"} =>
       r \in DOMAIN briefings /\ briefings[r].candidates = request[r].candidates
  /\ request[r].at = "mark" => request[r].pending \subseteq Ids(request[r].candidates)
  /\ request[r].at \in Unstored => r \notin DOMAIN briefings

Stored(r) ==
  \A i \in briefings[r].items :
    Good(i, briefings[r].candidates) /\ i.thread \in Thread \cup {NoThread}

IInv ==
  /\ text \in [Artifact -> Text \cup {NoText}]
  /\ members \subseteq Thread \X Artifact
  /\ stage \in [Artifact -> Request \cup {NoRequest}]
  /\ RequestsAreWhole
  /\ \A r \in Request : Knows(r)
  /\ DOMAIN briefings \subseteq Request
  /\ \A r \in DOMAIN briefings : Stored(r)
  /\ StageNamesItsBriefing

-----------------------------------------------------------------------------
(* What passes the validation is good, whatever the model answered. *)
LEMMA Validated ==
  ASSUME NEW answer, NEW candidates, NEW i \in ValidateGenerated(answer, candidates)
  PROVE  Good(i, candidates)
<1>1. PICK item \in answer :
        /\ Valid(item, candidates)
        /\ i = [ids |-> item.ids, snippets |-> Quoted(item),
                status |-> SourceStatus(item, candidates)]
  BY DEF ValidateGenerated
<1>2. i.ids = item.ids /\ i.snippets = Quoted(item) /\ i.status = SourceStatus(item, candidates)
  BY <1>1
<1>3. i.ids # {} /\ i.ids \subseteq Ids(candidates)
  BY <1>1, <1>2 DEF Valid, validArtifactIDs
<1>4. {s.art : s \in i.snippets} \subseteq i.ids
  BY <1>1, <1>2 DEF Valid, SnippetsOfItem, Quoted
<1>5. i.status \in {"verified", "unverified"} BY <1>2 DEF SourceStatus
<1>6. ASSUME i.status = "verified"
      PROVE  /\ i.snippets # {}
             /\ \A s \in i.snippets : \E c \in candidates :
                  c.art = s.art /\ s.quote \in Says[c.text]
  BY <1>2, <1>6 DEF SourceStatus, Matches
<1>7. QED BY <1>3, <1>4, <1>5, <1>6 DEF Good

LEMMA RecordUpdates ==
  ASSUME NEW q, IsRequest(q), NEW at, NEW pending
  PROVE  /\ [q EXCEPT !.at = at] =
              [at |-> at, pending |-> q.pending, candidates |-> q.candidates, items |-> q.items]
         /\ [q EXCEPT !.pending = pending] =
              [at |-> q.at, pending |-> pending, candidates |-> q.candidates, items |-> q.items]
<1>1. DOMAIN q = {"at", "pending", "candidates", "items"} BY DEF IsRequest
<1>2. [q EXCEPT !.at = at] =
        [at |-> at, pending |-> q.pending, candidates |-> q.candidates, items |-> q.items]
  BY <1>1
<1>3. [q EXCEPT !.pending = pending] =
        [at |-> q.at, pending |-> pending, candidates |-> q.candidates, items |-> q.items]
  BY <1>1
<1>4. QED BY <1>2, <1>3

LEMMA AtUpdate ==
  ASSUME RequestsAreWhole, NEW r \in Request, NEW at
  PROVE  [request[r] EXCEPT !.at = at] =
           [at |-> at, pending |-> request[r].pending,
            candidates |-> request[r].candidates, items |-> request[r].items]
<1>1. IsRequest(request[r]) BY DEF RequestsAreWhole, IsRequest
<1>2. QED BY <1>1, RecordUpdates

(* A request that only goes on. *)
LEMMA Moves ==
  ASSUME RequestsAreWhole, NEW r \in Request, NEW at, request' = [request EXCEPT ![r].at = at]
  PROVE  request' = [request EXCEPT ![r] =
           [at |-> at, pending |-> request[r].pending,
            candidates |-> request[r].candidates, items |-> request[r].items]]
BY AtUpdate DEF RequestsAreWhole

(* A step of a request changes that request. *)
LEMMA Replaced ==
  ASSUME RequestsAreWhole, NEW r \in Request, NEW q, IsRequest(q),
         request' = [request EXCEPT ![r] = q]
  PROVE  RequestsAreWhole' /\ request'[r] = q /\ \A p \in Request \ {r} : request'[p] = request[p]
<1>1. r \in DOMAIN request BY DEF RequestsAreWhole
<1>2. request'[r] = q /\ \A p \in Request \ {r} : request'[p] = request[p]
  BY <1>1 DEF RequestsAreWhole
<1>3. \A p \in Request : IsRequest(request[p]) BY DEF RequestsAreWhole, IsRequest
<1>4. \A p \in Request : IsRequest(request'[p]) BY <1>2, <1>3
<1>5. request' = [p \in Request |-> request'[p]] BY DEF RequestsAreWhole
<1>6. QED BY <1>2, <1>4, <1>5 DEF RequestsAreWhole, IsRequest

LEMMA InitIInv == Init => IInv
<1> SUFFICES ASSUME Init PROVE IInv OBVIOUS
<1>1. text \in [Artifact -> Text \cup {NoText}] BY ExtractedAssumption DEF Init
<1>2. RequestsAreWhole BY DEF Init, RequestsAreWhole, New
<1>3. DOMAIN briefings = {} BY DEF Init
<1>4. ASSUME NEW r \in Request PROVE Knows(r)
  BY <1>3 DEF Init, New, Knows, Places, Unstored
<1>5. stage \in [Artifact -> Request \cup {NoRequest}] /\ StageNamesItsBriefing
  BY DEF Init, StageNamesItsBriefing
<1>6. members \subseteq Thread \X Artifact BY DEF Init
<1>7. QED BY <1>1, <1>2, <1>3, <1>4, <1>5, <1>6 DEF IInv

(* Steps that store nothing: what one request knows is what has to be shown. *)
LEMMA OneRequestSteps ==
  ASSUME IInv, NEW r \in Request, NEW q, IsRequest(q), request' = [request EXCEPT ![r] = q],
         UNCHANGED tables, Knows(r)'
  PROVE  IInv'
<1>1. RequestsAreWhole' /\ \A p \in Request \ {r} : request'[p] = request[p]
  BY Replaced DEF IInv
<1>2. text' = text /\ members' = members /\ briefings' = briefings /\ stage' = stage
  BY DEF tables
<1>3. \A p \in Request \ {r} : Knows(p)'
  BY <1>1, <1>2 DEF IInv, Knows
<1>4. \A p \in DOMAIN briefings : Stored(p)' BY <1>2 DEF IInv, Stored
<1>5. StageNamesItsBriefing' BY <1>2 DEF IInv, StageNamesItsBriefing
<1>6. QED BY <1>1, <1>2, <1>3, <1>4, <1>5 DEF IInv

LEMMA ReadSteps ==
  ASSUME IInv, NEW r \in Request, SelectRows(r) \/ SelectRow(r) \/ Selected(r)
  PROVE  IInv'
<1>0. /\ request[r].at \in {"new", "select"} /\ request[r].pending \subseteq Artifact
      /\ request[r].candidates \subseteq Candidate /\ r \notin DOMAIN briefings
      /\ RequestsAreWhole
  BY DEF IInv, Knows, SelectRows, SelectRow, Selected, Unstored
<1>1. UNCHANGED tables BY DEF SelectRows, SelectRow, Selected
<1>2. PICK at \in {"select", "ask"}, pending \in SUBSET Artifact, candidates \in SUBSET Candidate :
        request' = [request EXCEPT ![r] = [at |-> at, pending |-> pending,
                                           candidates |-> candidates, items |-> request[r].items]]
  <2>1. CASE SelectRows(r)
    <3>1. PICK S : /\ S = {a \in Artifact : text[a] # NoText}
                   /\ request' = [request EXCEPT ![r].at = "select", ![r].pending = S]
      BY <2>1 DEF SelectRows
    <3>2. PICK half : half = [at |-> "select", pending |-> request[r].pending,
                              candidates |-> request[r].candidates, items |-> request[r].items]
      OBVIOUS
    <3>3. half = [request[r] EXCEPT !.at = "select"] BY <1>0, <3>2, AtUpdate
    <3>4. PICK q : q = [at |-> "select", pending |-> S,
                        candidates |-> request[r].candidates, items |-> request[r].items]
      OBVIOUS
    <3>5. q = [half EXCEPT !.pending = S] BY <3>2, <3>4
    <3>6. request' = [request EXCEPT ![r] = q]
      BY <1>0, <3>1, <3>3, <3>5 DEF RequestsAreWhole
    <3>7. QED BY <1>0, <3>1, <3>4, <3>6
  <2>2. CASE SelectRow(r)
    <3>1. PICK a \in request[r].pending :
            request' = [request EXCEPT
              ![r].pending = @ \ {a},
              ![r].candidates = IF text[a] \in Scoring THEN @ \cup {[art |-> a, text |-> text[a]]}
                                ELSE @]
      BY <2>2 DEF SelectRow
    <3>2. PICK C : C = IF text[a] \in Scoring
                       THEN request[r].candidates \cup {[art |-> a, text |-> text[a]]}
                       ELSE request[r].candidates
      OBVIOUS
    <3>3. C \subseteq Candidate BY <1>0, <3>2, TextAssumption DEF Candidate
    <3>4. request' = [request EXCEPT ![r] = [at |-> "select", pending |-> request[r].pending \ {a},
                        candidates |-> C, items |-> request[r].items]]
      BY <1>0, <2>2, <3>1, <3>2 DEF SelectRow, RequestsAreWhole
    <3>5. QED BY <1>0, <3>3, <3>4
  <2>3. CASE Selected(r)
    <3>1. request' = [request EXCEPT ![r] = [at |-> "ask", pending |-> request[r].pending,
                        candidates |-> request[r].candidates, items |-> request[r].items]]
      BY <1>0, <2>3, Moves DEF Selected
    <3>2. QED BY <1>0, <3>1
  <2>4. QED BY <2>1, <2>2, <2>3
<1>3. PICK q : q = [at |-> at, pending |-> pending, candidates |-> candidates,
                    items |-> request[r].items]
  OBVIOUS
<1>4. IsRequest(q) /\ request' = [request EXCEPT ![r] = q] BY <1>2, <1>3 DEF IsRequest
<1>5. request'[r] = q BY <1>0, <1>4, Replaced
<1>6. Knows(r)' BY <1>0, <1>1, <1>3, <1>5 DEF Knows, Places, Unstored, tables
<1>7. QED BY <1>1, <1>4, <1>6, OneRequestSteps

LEMMA AnswerStep ==
  ASSUME IInv, NEW r \in Request, ExtractActionItems(r)
  PROVE  IInv'
<1>0. /\ request[r].at = "ask" /\ request[r].pending \subseteq Artifact
      /\ request[r].candidates \subseteq Candidate /\ r \notin DOMAIN briefings
      /\ RequestsAreWhole
  BY DEF IInv, Knows, ExtractActionItems, Unstored
<1>1. PICK answer, S :
        /\ S = ValidateGenerated(answer, request[r].candidates)
        /\ request' = [request EXCEPT ![r].items = S, ![r].at = "create"]
  BY DEF ExtractActionItems
<1>2. PICK q : q = [at |-> "create", pending |-> request[r].pending,
                    candidates |-> request[r].candidates, items |-> S]
  OBVIOUS
<1>3. IsRequest(q) /\ request' = [request EXCEPT ![r] = q]
  <2>1. PICK half : half = [at |-> request[r].at, pending |-> request[r].pending,
                            candidates |-> request[r].candidates, items |-> S]
    OBVIOUS
  <2>2. DOMAIN request[r] = {"at", "pending", "candidates", "items"}
    BY <1>0 DEF RequestsAreWhole
  <2>3. half = [request[r] EXCEPT !.items = S] BY <2>1, <2>2
  <2>4. q = [half EXCEPT !.at = "create"] BY <1>2, <2>1
  <2>5. QED BY <1>0, <1>1, <1>2, <2>3, <2>4 DEF IsRequest, RequestsAreWhole
<1>4. request'[r] = q BY <1>0, <1>3, Replaced
<1>5. UNCHANGED tables BY DEF ExtractActionItems
<1>6. \A i \in S : Good(i, request[r].candidates) BY <1>1, Validated
<1>7. Knows(r)' BY <1>0, <1>2, <1>4, <1>5, <1>6 DEF Knows, Places, Unstored, tables
<1>8. QED BY <1>3, <1>5, <1>7, OneRequestSteps

LEMMA EndSteps ==
  ASSUME IInv, NEW r \in Request, GenerationFails(r) \/ CreateRunFails(r) \/ Redirect(r)
  PROVE  IInv'
<1>0. /\ request[r].pending \subseteq Artifact /\ request[r].candidates \subseteq Candidate
      /\ RequestsAreWhole
  BY DEF IInv, Knows
<1>1. PICK at \in {"failed", "done"} :
        request' = [request EXCEPT ![r] = [at |-> at, pending |-> request[r].pending,
                      candidates |-> request[r].candidates, items |-> request[r].items]]
  BY <1>0 DEF GenerationFails, CreateRunFails, Redirect, RequestsAreWhole
<1>2. PICK q : q = [at |-> at, pending |-> request[r].pending,
                    candidates |-> request[r].candidates, items |-> request[r].items]
  OBVIOUS
<1>3. IsRequest(q) /\ request' = [request EXCEPT ![r] = q] BY <1>1, <1>2 DEF IsRequest
<1>4. request'[r] = q BY <1>0, <1>3, Replaced
<1>5. UNCHANGED tables BY DEF GenerationFails, CreateRunFails, Redirect
<1>6. Knows(r)' BY <1>0, <1>2, <1>4, <1>5 DEF Knows, Places, Unstored, tables
<1>7. QED BY <1>3, <1>5, <1>6, OneRequestSteps

LEMMA GetRunStep ==
  ASSUME IInv, NEW r \in Request, GetRun(r)
  PROVE  IInv'
<1>0. /\ request[r].at = "get" /\ request[r].candidates \subseteq Candidate
      /\ r \in DOMAIN briefings /\ briefings[r].candidates = request[r].candidates
      /\ RequestsAreWhole
  BY DEF IInv, Knows, GetRun
<1>1. PICK S : /\ S = Ids(request[r].candidates)
               /\ request' = [request EXCEPT ![r].at = "mark", ![r].pending = S]
  BY DEF GetRun
<1>2. PICK q : q = [at |-> "mark", pending |-> S,
                    candidates |-> request[r].candidates, items |-> request[r].items]
  OBVIOUS
<1>3. IsRequest(q) /\ request' = [request EXCEPT ![r] = q]
  <2>1. PICK half : half = [at |-> "mark", pending |-> request[r].pending,
                            candidates |-> request[r].candidates, items |-> request[r].items]
    OBVIOUS
  <2>2. half = [request[r] EXCEPT !.at = "mark"] BY <1>0, <2>1, AtUpdate
  <2>3. q = [half EXCEPT !.pending = S] BY <1>2, <2>1
  <2>4. QED BY <1>0, <1>1, <1>2, <2>2, <2>3 DEF IsRequest, RequestsAreWhole
<1>4. request'[r] = q BY <1>0, <1>3, Replaced
<1>5. UNCHANGED tables BY DEF GetRun
<1>6. S \subseteq Artifact
  <2>1. PICK C : C = request[r].candidates OBVIOUS
  <2>2. C \subseteq Candidate /\ S = Ids(C) BY <1>0, <1>1, <2>1
  <2>3. \A c \in C : c.art \in Artifact BY <2>2 DEF Candidate
  <2>4. S = {c.art : c \in C} BY <2>2 DEF Ids
  <2>5. QED BY <2>3, <2>4
<1>7. Knows(r)'
  <2>1. request'[r].candidates = request[r].candidates /\ request'[r].pending = S
    BY <1>2, <1>4
  <2>2. request'[r].pending \subseteq Ids(request'[r].candidates) BY <1>1, <2>1
  <2>3. briefings' = briefings /\ request'[r].at = "mark" BY <1>2, <1>4, <1>5 DEF tables
  <2>4. QED BY <1>0, <1>6, <2>1, <2>2, <2>3 DEF Knows, Places, Unstored
<1>8. QED BY <1>3, <1>5, <1>7, OneRequestSteps

LEMMA CreateRunStep ==
  ASSUME IInv, NEW r \in Request, CreateRun(r)
  PROVE  IInv'
<1>0. /\ request[r].at = "create" /\ request[r].pending \subseteq Artifact
      /\ request[r].candidates \subseteq Candidate /\ r \notin DOMAIN briefings
      /\ \A i \in request[r].items : Good(i, request[r].candidates)
      /\ RequestsAreWhole
  BY DEF IInv, Knows, CreateRun, Unstored
<1>1. text' = text /\ members' = members /\ stage' = stage BY DEF CreateRun
<1>2. PICK threadOf, run :
        /\ threadOf \in [request[r].items -> Thread \cup {NoThread}]
        /\ run = [candidates |-> request[r].candidates,
                  items |-> {[ids |-> i.ids, snippets |-> i.snippets,
                              status |-> i.status, thread |-> threadOf[i]] :
                               i \in request[r].items}]
        /\ briefings' = [q \in DOMAIN briefings \cup {r} |->
                           IF q = r THEN run ELSE briefings[q]]
  BY DEF CreateRun
<1>3. PICK q : q = [at |-> "get", pending |-> request[r].pending,
                    candidates |-> request[r].candidates, items |-> request[r].items]
  OBVIOUS
<1>4. IsRequest(q) /\ request' = [request EXCEPT ![r] = q]
  BY <1>0, <1>3, Moves DEF IsRequest, CreateRun
<1>5. RequestsAreWhole' /\ request'[r] = q /\ \A p \in Request \ {r} : request'[p] = request[p]
  BY <1>0, <1>4, Replaced
<1>6. /\ DOMAIN briefings' = DOMAIN briefings \cup {r} /\ briefings'[r] = run
      /\ \A p \in DOMAIN briefings : briefings'[p] = briefings[p]
  BY <1>0, <1>2
<1>7. Knows(r)' BY <1>0, <1>2, <1>3, <1>5, <1>6 DEF Knows, Places, Unstored
<1>8. \A p \in Request \ {r} : Knows(p)' BY <1>5, <1>6 DEF IInv, Knows
<1>9. Stored(r)'
  <2>1. SUFFICES ASSUME NEW j \in run.items
                 PROVE  Good(j, run.candidates) /\ j.thread \in Thread \cup {NoThread}
    BY <1>6 DEF Stored
  <2>2. PICK i \in request[r].items :
          j = [ids |-> i.ids, snippets |-> i.snippets, status |-> i.status, thread |-> threadOf[i]]
    BY <1>2
  <2>3. run.candidates = request[r].candidates BY <1>2
  <2>4. QED BY <1>0, <1>2, <2>2, <2>3 DEF Good
<1>10. \A p \in DOMAIN briefings : Stored(p)' BY <1>6 DEF IInv, Stored
<1>11. StageNamesItsBriefing' BY <1>0, <1>1, <1>6 DEF IInv, StageNamesItsBriefing
<1>12. QED BY <1>1, <1>5, <1>6, <1>7, <1>8, <1>9, <1>10, <1>11 DEF IInv

LEMMA MarkStep ==
  ASSUME IInv, NEW r \in Request, MarkStage(r)
  PROVE  IInv'
<1>0. /\ request[r].at = "mark" /\ request[r].candidates \subseteq Candidate
      /\ request[r].pending \subseteq Artifact
      /\ r \in DOMAIN briefings /\ briefings[r].candidates = request[r].candidates
      /\ request[r].pending \subseteq Ids(request[r].candidates)
      /\ RequestsAreWhole
  BY DEF IInv, Knows, MarkStage
<1>1. text' = text /\ members' = members /\ briefings' = briefings BY DEF MarkStage
<1>2. PICK a, S :
        /\ a \in request[r].pending /\ S = request[r].pending \ {a}
        /\ request' = [request EXCEPT ![r].pending = S]
        /\ stage' = [stage EXCEPT ![a] = r] \/ stage' = stage
  BY DEF MarkStage
<1>3. PICK q : q = [at |-> "mark", pending |-> S,
                    candidates |-> request[r].candidates, items |-> request[r].items]
  OBVIOUS
<1>4. IsRequest(q) /\ request' = [request EXCEPT ![r] = q]
  <2>1. IsRequest(request[r]) BY <1>0 DEF RequestsAreWhole, IsRequest
  <2>2. [request[r] EXCEPT !.pending = S] =
          [at |-> request[r].at, pending |-> S,
           candidates |-> request[r].candidates, items |-> request[r].items]
    BY <2>1, RecordUpdates
  <2>3. q = [request[r] EXCEPT !.pending = S] BY <1>0, <1>3, <2>2
  <2>4. QED BY <1>0, <1>2, <1>3, <2>3 DEF IsRequest, RequestsAreWhole
<1>5. RequestsAreWhole' /\ request'[r] = q /\ \A p \in Request \ {r} : request'[p] = request[p]
  BY <1>0, <1>4, Replaced
<1>6. Knows(r)' BY <1>0, <1>1, <1>2, <1>3, <1>5 DEF Knows, Places, Unstored
<1>7. \A p \in Request \ {r} : Knows(p)' BY <1>1, <1>5 DEF IInv, Knows
<1>8. stage' \in [Artifact -> Request \cup {NoRequest}] BY <1>0, <1>2 DEF IInv
<1>9. StageNamesItsBriefing'
  <2>1. ASSUME NEW b \in Artifact, stage'[b] # NoRequest
        PROVE  stage'[b] \in DOMAIN briefings /\ b \in Ids(briefings[stage'[b]].candidates)
    <3>1. CASE stage'[b] = stage[b] BY <2>1, <3>1 DEF IInv, StageNamesItsBriefing
    <3>2. CASE b = a /\ stage'[b] = r BY <1>0, <1>2, <3>2
    <3>3. QED BY <1>0, <1>2, <3>1, <3>2 DEF IInv
  <2>2. QED BY <1>1, <2>1 DEF StageNamesItsBriefing
<1>10. \A p \in DOMAIN briefings : Stored(p)' BY <1>1 DEF IInv, Stored
<1>11. QED BY <1>1, <1>5, <1>6, <1>7, <1>8, <1>9, <1>10 DEF IInv

LEMMA StopStep ==
  ASSUME IInv, Stop
  PROVE  IInv'
<1>0. RequestsAreWhole BY DEF IInv
<1>1. text' = text /\ members' = members /\ briefings' = briefings /\ stage' = stage
  BY DEF Stop, tables
<1>2. ASSUME NEW r \in Request
      PROVE  \/ request'[r] = request[r]
             \/ request'[r] = [at |-> "failed", pending |-> request[r].pending,
                               candidates |-> request[r].candidates, items |-> request[r].items]
  <2>1. request'[r] = IF request[r].at \in {"new", "done"} THEN request[r]
                      ELSE [request[r] EXCEPT !.at = "failed"]
    BY DEF Stop
  <2>2. [request[r] EXCEPT !.at = "failed"] =
          [at |-> "failed", pending |-> request[r].pending,
           candidates |-> request[r].candidates, items |-> request[r].items]
    BY <1>0 DEF RequestsAreWhole
  <2>3. QED BY <2>1, <2>2
<1>3. RequestsAreWhole'
  <2>1. request' = [r \in Request |-> request'[r]] BY DEF Stop
  <2>2. \A r \in Request : IsRequest(request[r]) BY <1>0 DEF RequestsAreWhole, IsRequest
  <2>3. ASSUME NEW r \in Request PROVE IsRequest(request'[r])
    <3>1. CASE request'[r] = request[r] BY <2>2, <3>1
    <3>2. CASE request'[r] = [at |-> "failed", pending |-> request[r].pending,
                              candidates |-> request[r].candidates, items |-> request[r].items]
      BY <3>2 DEF IsRequest
    <3>3. QED BY <1>2, <3>1, <3>2
  <2>4. QED BY <2>1, <2>3 DEF RequestsAreWhole, IsRequest
<1>4. ASSUME NEW r \in Request PROVE Knows(r)'
  <2>1. Knows(r) BY DEF IInv
  <2>2. CASE request'[r] = request[r] BY <1>1, <2>1, <2>2 DEF Knows
  <2>3. CASE request'[r] = [at |-> "failed", pending |-> request[r].pending,
                            candidates |-> request[r].candidates, items |-> request[r].items]
    BY <1>1, <2>1, <2>3 DEF Knows, Places, Unstored
  <2>4. QED BY <1>2, <2>2, <2>3
<1>5. \A p \in DOMAIN briefings : Stored(p)' BY <1>1 DEF IInv, Stored
<1>6. StageNamesItsBriefing' BY <1>1 DEF IInv, StageNamesItsBriefing
<1>7. QED BY <1>1, <1>3, <1>4, <1>5, <1>6 DEF IInv

LEMMA WorkerStep ==
  ASSUME IInv, NEW a \in Artifact, Extract(a) \/ \E t \in Thread : Join(t, a)
  PROVE  IInv'
<1>1. request' = request /\ briefings' = briefings /\ stage' = stage BY DEF Extract, Join
<1>2. text' \in [Artifact -> Text \cup {NoText}]
  BY ExtractedAssumption DEF Extract, Join, IInv
<1>3. members' \subseteq Thread \X Artifact BY DEF Extract, Join, IInv
<1>4. RequestsAreWhole' BY <1>1 DEF IInv, RequestsAreWhole
<1>5. \A r \in Request : Knows(r)' BY <1>1 DEF IInv, Knows
<1>6. \A r \in DOMAIN briefings : Stored(r)' BY <1>1 DEF IInv, Stored
<1>7. StageNamesItsBriefing' BY <1>1 DEF IInv, StageNamesItsBriefing
<1>8. QED BY <1>1, <1>2, <1>3, <1>4, <1>5, <1>6, <1>7 DEF IInv

LEMMA NextIInv == IInv /\ [Next]_vars => IInv'
<1> SUFFICES ASSUME IInv, [Next]_vars PROVE IInv' OBVIOUS
<1>1. CASE UNCHANGED vars
  <2>1. /\ text' = text /\ members' = members /\ request' = request
        /\ briefings' = briefings /\ stage' = stage
    BY <1>1 DEF vars
  <2>2. QED
    BY <2>1 DEF IInv, RequestsAreWhole, Knows, Stored, StageNamesItsBriefing
<1>2. ASSUME NEW r \in Request, Generate(r) PROVE IInv'
  BY <1>2, ReadSteps, AnswerStep, EndSteps, GetRunStep, CreateRunStep, MarkStep DEF Generate
<1>3. QED BY <1>1, <1>2, StopStep, WorkerStep DEF Next

(* The inductive invariant of the briefings holds, whatever fails or is      *)
(* extracted anew between a request and its answer.                         *)
THEOREM Invariance == Spec => []IInv
BY InitIInv, NextIInv, PTL DEF Spec

-----------------------------------------------------------------------------
(* Every reachable state is well typed. *)
THEOREM TypeCorrect == Spec => []TypeOK
<1>1. IInv => TypeOK BY DEF IInv, TypeOK, Knows, Places, Unstored, Stored, Good
<1>2. QED BY <1>1, Invariance, PTL

(***************************************************************************)
(* Whatever the model answers, a stored item cites candidates of its own   *)
(* briefing and quotes none but those it cites.                            *)
(***************************************************************************)
THEOREM StoredItemsCite == Spec => []ItemsAreCited
<1>1. IInv => ItemsAreCited BY DEF IInv, Stored, Good, ItemsAreCited
<1>2. QED BY <1>1, Invariance, PTL

(***************************************************************************)
(* "Verified" means that each quote was in the text the model was shown,   *)
(* however artifacts changed while it answered.                            *)
(***************************************************************************)
THEOREM VerifiedItemsWereShown == Spec => []VerifiedWasShown
<1>1. IInv => VerifiedWasShown BY DEF IInv, Stored, Good, VerifiedWasShown
<1>2. QED BY <1>1, Invariance, PTL

(* A stage names a briefing that exists and was about its artifact, also   *)
(* after failures half-way.                                                *)
THEOREM StagesNameTheirBriefings == Spec => []StageNamesItsBriefing
<1>1. IInv => StageNamesItsBriefing BY DEF IInv
<1>2. QED BY <1>1, Invariance, PTL

-----------------------------------------------------------------------------
(* The promise of Publication *)

(***************************************************************************)
(* What is needed beyond IInv: an artifact that a request has still to     *)
(* read is no candidate yet, so that it is shown once.                     *)
(***************************************************************************)
Fresh(r) ==
  /\ request[r].at = "new" => request[r].candidates = {}
  /\ request[r].at = "select" => request[r].pending \cap Ids(request[r].candidates) = {}

ReadOnce == \A r \in Request : Fresh(r)

SameShown == \A r \in Request : request'[r].candidates = request[r].candidates

LEMMA NothingShown ==
  ASSUME SameShown
  PROVE  [r \in Request |-> request[r].candidates]' = [r \in Request |-> request[r].candidates]
BY DEF SameShown

LEMMA NothingPublished ==
  ASSUME briefings' = briefings
  PROVE  [r \in DOMAIN briefings |-> briefings[r].items]' =
           [r \in DOMAIN briefings |-> briefings[r].items]
OBVIOUS

LEMMA StoresNothing ==
  ASSUME SameShown, UNCHANGED tables
  PROVE  UNCHANGED Reader!vars
BY NothingShown, NothingPublished DEF tables, Reader!vars

(* A request that moves on leaves the others, and what was shown, alone. *)
LEMMA MovesOn ==
  ASSUME IInv, NEW r \in Request,
         \/ SelectRows(r) \/ Selected(r) \/ ExtractActionItems(r) \/ GenerationFails(r)
         \/ CreateRun(r) \/ CreateRunFails(r) \/ GetRun(r) \/ MarkStage(r) \/ Redirect(r)
  PROVE  /\ SameShown
         /\ \A p \in Request \ {r} : request'[p] = request[p]
         /\ request[r].at = "new" \/ request'[r].at \notin {"new", "select"}
<1>1. PICK q, at, S, items :
        /\ q = [at |-> at, pending |-> S, candidates |-> request[r].candidates, items |-> items]
        /\ request' = [request EXCEPT ![r] = q]
        /\ request[r].at = "new" \/ at \notin {"new", "select"}
  <2>1. r \in DOMAIN request /\ IsRequest(request[r]) BY DEF IInv, RequestsAreWhole, IsRequest
  <2>2. ASSUME NEW at, NEW S, request' = [request EXCEPT ![r].at = at, ![r].pending = S]
        PROVE  request' = [request EXCEPT ![r] = [at |-> at, pending |-> S,
                             candidates |-> request[r].candidates, items |-> request[r].items]]
    <3>1. PICK half : half = [at |-> at, pending |-> request[r].pending,
                              candidates |-> request[r].candidates, items |-> request[r].items]
      OBVIOUS
    <3>2. half = [request[r] EXCEPT !.at = at] BY <2>1, <3>1, RecordUpdates
    <3>3. PICK q : q = [at |-> at, pending |-> S,
                        candidates |-> request[r].candidates, items |-> request[r].items]
      OBVIOUS
    <3>4. q = [half EXCEPT !.pending = S] BY <3>1, <3>3
    <3>5. QED BY <2>1, <2>2, <3>2, <3>3, <3>4
  <2>3. CASE SelectRows(r)
    <3>1. PICK S : S = {a \in Artifact : text[a] # NoText} OBVIOUS
    <3>2. request' = [request EXCEPT ![r].at = "select", ![r].pending = S]
      BY <2>3, <3>1 DEF SelectRows
    <3>3. QED BY <2>2, <2>3, <3>2 DEF SelectRows
  <2>4. CASE GetRun(r)
    <3>1. PICK S : S = Ids(request[r].candidates) OBVIOUS
    <3>2. request' = [request EXCEPT ![r].at = "mark", ![r].pending = S]
      BY <2>4, <3>1 DEF GetRun
    <3>3. PICK at, items : at = "mark" /\ items = request[r].items OBVIOUS
    <3>4. PICK q : q = [at |-> at, pending |-> S,
                        candidates |-> request[r].candidates, items |-> items]
      OBVIOUS
    <3>5. request' = [request EXCEPT ![r] = q] BY <2>2, <3>2, <3>3, <3>4
    <3>6. at \notin {"new", "select"} BY <3>3
    <3>7. QED BY <3>4, <3>5, <3>6
  <2>5. CASE ExtractActionItems(r)
    <3>1. PICK S : request' = [request EXCEPT ![r].items = S, ![r].at = "create"]
      BY <2>5 DEF ExtractActionItems
    <3>2. PICK half : half = [at |-> request[r].at, pending |-> request[r].pending,
                              candidates |-> request[r].candidates, items |-> S]
      OBVIOUS
    <3>3. half = [request[r] EXCEPT !.items = S] BY <2>1, <3>2 DEF IsRequest
    <3>4. PICK at, pending : at = "create" /\ pending = request[r].pending OBVIOUS
    <3>5. PICK q : q = [at |-> at, pending |-> pending,
                        candidates |-> request[r].candidates, items |-> S]
      OBVIOUS
    <3>6. q = [half EXCEPT !.at = "create"] BY <3>2, <3>4, <3>5
    <3>7. request' = [request EXCEPT ![r] = q] BY <2>1, <3>1, <3>3, <3>6
    <3>8. at \notin {"new", "select"} BY <3>4
    <3>9. QED BY <3>5, <3>7, <3>8
  <2>6. CASE MarkStage(r)
    <3>1. PICK S : request' = [request EXCEPT ![r].pending = S] BY <2>6 DEF MarkStage
    <3>2. PICK q : q = [at |-> request[r].at, pending |-> S,
                        candidates |-> request[r].candidates, items |-> request[r].items]
      OBVIOUS
    <3>3. q = [request[r] EXCEPT !.pending = S] BY <2>1, <3>2, RecordUpdates
    <3>4. request' = [request EXCEPT ![r] = q] BY <2>1, <3>1, <3>3
    <3>5. QED BY <2>6, <3>2, <3>4 DEF MarkStage
  <2>7. CASE Selected(r) \/ GenerationFails(r) \/ CreateRun(r) \/ CreateRunFails(r) \/ Redirect(r)
    <3>1. PICK at \in {"ask", "failed", "get", "done"} : request' = [request EXCEPT ![r].at = at]
      BY <2>7 DEF Selected, GenerationFails, CreateRun, CreateRunFails, Redirect
    <3>2. PICK q : q = [at |-> at, pending |-> request[r].pending,
                        candidates |-> request[r].candidates, items |-> request[r].items]
      OBVIOUS
    <3>3. request' = [request EXCEPT ![r] = q] BY <3>1, <3>2, Moves DEF IInv
    <3>4. QED BY <3>1, <3>2, <3>3
  <2>8. QED BY <2>3, <2>4, <2>5, <2>6, <2>7
<1>2. IsRequest(q) /\ RequestsAreWhole BY <1>1 DEF IsRequest, IInv
<1>3. request'[r] = q /\ \A p \in Request \ {r} : request'[p] = request[p]
  BY <1>1, <1>2, Replaced
<1>4. QED BY <1>1, <1>3 DEF SameShown

LEMMA StopShowsNothing ==
  ASSUME IInv, Stop
  PROVE  /\ SameShown
         /\ \A r \in Request : request'[r] = request[r] \/ request'[r].at = "failed"
<1>1. ASSUME NEW r \in Request
      PROVE  /\ request'[r].candidates = request[r].candidates
             /\ request'[r] = request[r] \/ request'[r].at = "failed"
  <2>1. request'[r] = IF request[r].at \in {"new", "done"} THEN request[r]
                      ELSE [request[r] EXCEPT !.at = "failed"]
    BY DEF Stop
  <2>2. [request[r] EXCEPT !.at = "failed"] =
          [at |-> "failed", pending |-> request[r].pending,
           candidates |-> request[r].candidates, items |-> request[r].items]
    BY AtUpdate DEF IInv
  <2>3. QED BY <2>1, <2>2
<1>2. QED BY <1>1 DEF SameShown

(* What selecting a row does to the request. *)
LEMMA RowRead ==
  ASSUME IInv, NEW r \in Request, SelectRow(r)
  PROVE  /\ \A p \in Request \ {r} : request'[p] = request[p]
         /\ request[r].at = "select" /\ request'[r].at = "select"
         /\ \E a \in request[r].pending :
              /\ request'[r].pending = request[r].pending \ {a}
              /\ text[a] \in Scoring
                   => request'[r].candidates =
                        request[r].candidates \cup {[art |-> a, text |-> text[a]]}
              /\ text[a] \notin Scoring => request'[r].candidates = request[r].candidates
<1>1. PICK a \in request[r].pending :
        request' = [request EXCEPT
          ![r].pending = @ \ {a},
          ![r].candidates = IF text[a] \in Scoring THEN @ \cup {[art |-> a, text |-> text[a]]}
                            ELSE @]
  BY DEF SelectRow
<1>2. PICK C : C = IF text[a] \in Scoring
                   THEN request[r].candidates \cup {[art |-> a, text |-> text[a]]}
                   ELSE request[r].candidates
  OBVIOUS
<1>3. PICK q : q = [at |-> "select", pending |-> request[r].pending \ {a},
                    candidates |-> C, items |-> request[r].items]
  OBVIOUS
<1>4. request' = [request EXCEPT ![r] = q]
  BY <1>1, <1>2, <1>3 DEF SelectRow, IInv, RequestsAreWhole
<1>5. IsRequest(q) BY <1>3 DEF IsRequest
<1>6. request'[r] = q /\ \A p \in Request \ {r} : request'[p] = request[p]
  BY <1>4, <1>5, Replaced DEF IInv
<1>7. /\ request'[r].at = "select" /\ request'[r].candidates = C
      /\ request'[r].pending = request[r].pending \ {a}
  BY <1>3, <1>6
<1>8. QED BY <1>2, <1>6, <1>7 DEF SelectRow

LEMMA InitReadOnce == Init => ReadOnce
BY DEF Init, New, ReadOnce, Fresh

LEMMA NextReadOnce == IInv /\ ReadOnce /\ [Next]_vars => ReadOnce'
<1> SUFFICES ASSUME IInv, ReadOnce, [Next]_vars PROVE ReadOnce' OBVIOUS
<1>1. ASSUME request' = request PROVE ReadOnce' BY <1>1 DEF ReadOnce, Fresh
<1>2. ASSUME NEW r \in Request, SelectRow(r) PROVE ReadOnce'
  <2>1. PICK a \in request[r].pending :
          /\ request'[r].pending = request[r].pending \ {a}
          /\ \/ request'[r].candidates = request[r].candidates \cup {[art |-> a, text |-> text[a]]}
             \/ request'[r].candidates = request[r].candidates
    BY <1>2, RowRead
  <2>2. request[r].pending \cap Ids(request[r].candidates) = {}
    BY <1>2, RowRead DEF ReadOnce, Fresh
  <2>3. \A b \in Ids(request'[r].candidates) : b = a \/ b \in Ids(request[r].candidates)
    BY <2>1 DEF Ids
  <2>4. Fresh(r)' BY <1>2, <2>1, <2>2, <2>3, RowRead DEF Fresh
  <2>5. QED BY <1>2, <2>4, RowRead DEF ReadOnce, Fresh
<1>3. ASSUME NEW r \in Request,
             \/ SelectRows(r) \/ Selected(r) \/ ExtractActionItems(r) \/ GenerationFails(r)
             \/ CreateRun(r) \/ CreateRunFails(r) \/ GetRun(r) \/ MarkStage(r) \/ Redirect(r)
      PROVE  ReadOnce'
  <2>1. /\ request'[r].candidates = request[r].candidates
        /\ \A p \in Request \ {r} : request'[p] = request[p]
        /\ request[r].at = "new" \/ request'[r].at \notin {"new", "select"}
    BY <1>3, MovesOn DEF SameShown
  <2>2. request[r].at = "new" => Ids(request'[r].candidates) = {}
                                   /\ request'[r].candidates = {}
    BY <2>1 DEF ReadOnce, Fresh, Ids
  <2>3. Fresh(r)' BY <2>1, <2>2 DEF Fresh
  <2>4. QED BY <2>1, <2>3 DEF ReadOnce, Fresh
<1>4. ASSUME Stop PROVE ReadOnce'
  BY <1>4, StopShowsNothing DEF ReadOnce, Fresh
<1>5. ASSUME NEW a \in Artifact, Extract(a) \/ \E t \in Thread : Join(t, a) PROVE request' = request
  BY <1>5 DEF Extract, Join
<1>6. ASSUME NEW r \in Request, Generate(r) PROVE ReadOnce'
  BY <1>2, <1>3, <1>6 DEF Generate
<1>7. QED BY <1>1, <1>4, <1>5, <1>6 DEF Next, vars

-----------------------------------------------------------------------------
(* Every step is a step of Publication, or none *)

LEMMA ReadingIsShowing ==
  ASSUME IInv, ReadOnce, NEW r \in Request, SelectRow(r)
  PROVE  Reader!Next \/ UNCHANGED Reader!vars
<1>1. UNCHANGED tables BY DEF SelectRow
<1>2. PICK a \in request[r].pending :
        /\ text[a] \in Scoring
             => request'[r].candidates =
                  request[r].candidates \cup {[art |-> a, text |-> text[a]]}
        /\ text[a] \notin Scoring => request'[r].candidates = request[r].candidates
  BY RowRead
<1>3. \A p \in Request \ {r} : request'[p] = request[p] BY RowRead
<1>4. CASE text[a] \notin Scoring BY <1>1, <1>2, <1>3, <1>4, StoresNothing DEF SameShown
<1>5. CASE text[a] \in Scoring
  <2>1. r \notin DOMAIN briefings /\ a \in Artifact
    BY RowRead DEF IInv, Knows, Unstored
  <2>2. a \notin Ids(request[r].candidates) BY RowRead DEF ReadOnce, Fresh
  <2>3. text[a] # NoText BY <1>5, TextAssumption
  <2>4. PICK shown, shownNext :
          /\ shown = [p \in Request |-> request[p].candidates]
          /\ shownNext = [p \in Request |-> request'[p].candidates]
    OBVIOUS
  <2>5. shownNext = [shown EXCEPT ![r] = @ \cup {[art |-> a, text |-> text[a]]}]
    BY <1>2, <1>3, <1>5, <2>4
  <2>6. a \notin Reader!Artifacts(shown[r]) BY <2>2, <2>4 DEF Reader!Artifacts, Ids
  <2>7. Reader!Show(r, a)
    BY <1>1, <2>1, <2>3, <2>4, <2>5, <2>6, NothingPublished DEF Reader!Show, tables
  <2> QED BY <2>1, <2>7 DEF Reader!Next
<1> QED BY <1>4, <1>5

(* The thread of an item knows one of its artifacts. *)
LEMMA ThreadsKnow ==
  ASSUME NEW r, NEW item, NEW t \in ThreadsOf(r, item), t # NoThread
  PROVE  \E a \in item.ids : <<t, a>> \in members
<1>1. Count(r, item, t) > 0 BY DEF ThreadsOf
<1>2. PICK S : S = {a \in item.ids : <<t, a>> \in members} OBVIOUS
<1>3. Cardinality(S) > 0 BY <1>1, <1>2 DEF Count, Cited
<1>4. S # {} BY <1>3, FS_EmptySet
<1> QED BY <1>2, <1>4

LEMMA CreatingIsPublishing ==
  ASSUME IInv, NEW r \in Request, CreateRun(r)
  PROVE  Reader!Next
<1>1. /\ r \notin DOMAIN briefings
      /\ \A i \in request[r].items : Good(i, request[r].candidates)
  BY DEF IInv, Knows, CreateRun, Unstored
<1>2. PICK threadOf, run :
        /\ \A item \in request[r].items : threadOf[item] \in ThreadsOf(r, item)
        /\ run = [candidates |-> request[r].candidates,
                  items |-> {[ids |-> i.ids, snippets |-> i.snippets,
                              status |-> i.status, thread |-> threadOf[i]] :
                               i \in request[r].items}]
        /\ briefings' = [q \in DOMAIN briefings \cup {r} |->
                           IF q = r THEN run ELSE briefings[q]]
  BY DEF CreateRun
<1>3. /\ DOMAIN briefings' = DOMAIN briefings \cup {r}
      /\ briefings'[r].items = run.items
      /\ \A q \in DOMAIN briefings : briefings'[q].items = briefings[q].items
  BY <1>1, <1>2
<1>4. ASSUME NEW j \in run.items PROVE Reader!Grounded(j, request[r].candidates)
  <2>1. PICK i \in request[r].items :
          j = [ids |-> i.ids, snippets |-> i.snippets, status |-> i.status, thread |-> threadOf[i]]
    BY <1>2
  <2>2. Good(i, request[r].candidates) BY <1>1
  <2>3. j.thread # NoThread => \E a \in j.ids : <<j.thread, a>> \in members
    BY <1>2, <2>1, ThreadsKnow
  <2>4. Ids(request[r].candidates) = Reader!Artifacts(request[r].candidates)
    BY DEF Ids, Reader!Artifacts
  <2>5. /\ j.ids # {} /\ j.ids \subseteq Reader!Artifacts(request[r].candidates)
        /\ \A s \in j.snippets : s.art \in j.ids
    BY <2>1, <2>2, <2>4 DEF Good
  <2>6. j.status = "verified" =>
          /\ j.snippets # {}
          /\ \A s \in j.snippets : \E c \in request[r].candidates :
               c.art = s.art /\ s.quote \in Says[c.text]
    BY <2>1, <2>2 DEF Good
  <2> QED BY <2>3, <2>5, <2>6 DEF Reader!Grounded
<1>5. SameShown BY MovesOn
<1>6. text' = text /\ members' = members /\ stage' = stage BY DEF CreateRun
<1>7. PICK shown, published, publishedNext :
        /\ shown = [p \in Request |-> request[p].candidates]
        /\ published = [p \in DOMAIN briefings |-> briefings[p].items]
        /\ publishedNext = [p \in DOMAIN briefings' |-> briefings'[p].items]
  OBVIOUS
<1>8. /\ r \notin DOMAIN published
      /\ DOMAIN publishedNext = DOMAIN published \cup {r}
      /\ \A q \in DOMAIN published : publishedNext[q] = published[q]
      /\ \A item \in publishedNext[r] : Reader!Grounded(item, shown[r])
  BY <1>1, <1>3, <1>4, <1>7
<1>9. Reader!Publish(r)
  BY <1>5, <1>6, <1>7, <1>8, NothingShown DEF Reader!Publish
<1> QED BY <1>9 DEF Reader!Next

LEMMA MarkingIsMarking ==
  ASSUME IInv, NEW r \in Request, MarkStage(r)
  PROVE  Reader!Next \/ UNCHANGED Reader!vars
<1>1. /\ r \in DOMAIN briefings
      /\ request[r].pending \subseteq Ids(request[r].candidates)
      /\ request[r].pending \subseteq Artifact
  BY DEF IInv, Knows, MarkStage
<1>2. text' = text /\ members' = members /\ briefings' = briefings BY DEF MarkStage
<1>3. PICK a \in request[r].pending : stage' = [stage EXCEPT ![a] = r] \/ stage' = stage
  BY DEF MarkStage
<1>4. SameShown BY MovesOn
<1>5. CASE stage' = stage BY <1>2, <1>4, <1>5, StoresNothing DEF tables
<1>6. CASE stage' = [stage EXCEPT ![a] = r]
  <2>1. PICK shown, published :
          /\ shown = [p \in Request |-> request[p].candidates]
          /\ published = [p \in DOMAIN briefings |-> briefings[p].items]
    OBVIOUS
  <2>2. r \in DOMAIN published /\ a \in Reader!Artifacts(shown[r])
    BY <1>1, <2>1 DEF Ids, Reader!Artifacts
  <2>3. Reader!Mark(r, a)
    BY <1>2, <1>4, <1>6, <2>1, <2>2, NothingShown, NothingPublished DEF Reader!Mark
  <2> QED BY <1>1, <2>3 DEF Reader!Next
<1> QED BY <1>3, <1>5, <1>6

LEMMA WorkersDoTheirs ==
  ASSUME IInv, NEW a \in Artifact, Extract(a) \/ \E t \in Thread : Join(t, a)
  PROVE  Reader!Next
<1>1. request' = request /\ briefings' = briefings /\ stage' = stage BY DEF Extract, Join
<1>2. SameShown BY <1>1 DEF SameShown
<1>3. CASE Extract(a)
  <2>1. /\ text' \in [Artifact -> Text \cup {NoText}]
        /\ \A b \in Artifact : text[b] # NoText => text'[b] # NoText
    BY <1>3, ExtractedAssumption, TextAssumption DEF Extract, IInv
  <2>2. Reader!Extract
    BY <1>1, <1>2, <1>3, <2>1, NothingShown, NothingPublished DEF Extract, Reader!Extract
  <2> QED BY <2>2 DEF Reader!Next
<1>4. ASSUME NEW t \in Thread, Join(t, a) PROVE Reader!Next
  <2>1. members \subseteq members' /\ members' \subseteq Thread \X Artifact
    BY <1>4 DEF Join, IInv
  <2>2. Reader!Join
    BY <1>1, <1>2, <1>4, <2>1, NothingShown, NothingPublished DEF Join, Reader!Join
  <2> QED BY <2>2 DEF Reader!Next
<1> QED BY <1>3, <1>4

LEMMA PublicationInit == Init => Reader!Init
<1> SUFFICES ASSUME Init PROVE Reader!Init OBVIOUS
<1>1. text \in [Artifact -> Text \cup {NoText}] BY ExtractedAssumption DEF Init
<1>2. [r \in Request |-> request[r].candidates] = [r \in Request |-> {}]
  BY DEF Init, New
<1>3. [r \in DOMAIN briefings |-> briefings[r].items] = <<>>
  BY DEF Init
<1> QED BY <1>1, <1>2, <1>3 DEF Init, Reader!Init

LEMMA PublicationNext ==
  ASSUME IInv, ReadOnce, [Next]_vars
  PROVE  [Reader!Next]_(Reader!vars)
<1>1. ASSUME UNCHANGED vars PROVE UNCHANGED Reader!vars
  <2>1. SameShown /\ UNCHANGED tables BY <1>1 DEF vars, tables, SameShown
  <2> QED BY <2>1, StoresNothing
<1>2. ASSUME Stop PROVE UNCHANGED Reader!vars
  <2>1. UNCHANGED tables BY <1>2 DEF Stop
  <2> QED BY <1>2, <2>1, StopShowsNothing, StoresNothing
<1>3. ASSUME NEW r \in Request, Generate(r) PROVE Reader!Next \/ UNCHANGED Reader!vars
  <2>1. ASSUME \/ SelectRows(r) \/ Selected(r) \/ ExtractActionItems(r) \/ GenerationFails(r)
               \/ CreateRunFails(r) \/ GetRun(r) \/ Redirect(r)
        PROVE  UNCHANGED Reader!vars
    <3>1. UNCHANGED tables
      BY <2>1 DEF SelectRows, Selected, ExtractActionItems, GenerationFails,
                  CreateRunFails, GetRun, Redirect
    <3>2. SameShown BY <2>1, MovesOn
    <3> QED BY <3>1, <3>2, StoresNothing
  <2> QED
    BY <1>3, <2>1, ReadingIsShowing, CreatingIsPublishing, MarkingIsMarking DEF Generate
<1> QED BY <1>1, <1>2, <1>3, WorkersDoTheirs DEF Next

(***************************************************************************)
(* Generating briefings implements Publication: with requests beside each  *)
(* other, workers that extract and cluster anew meanwhile, a model that    *)
(* may answer anything, failures at every step and a stop at any moment, a *)
(* briefing appears whole, never changes, says nothing but of what its     *)
(* request was shown, and is marked only where it is.                      *)
(***************************************************************************)
THEOREM BriefingsArePublished == Spec => ImplementsPublication
<1>1. Init => Reader!Init BY PublicationInit
<1>2. Spec => []ReadOnce
  <2>1. Init => ReadOnce BY InitReadOnce
  <2>2. IInv /\ ReadOnce /\ [Next]_vars => ReadOnce' BY NextReadOnce
  <2> QED BY <2>1, <2>2, Invariance, PTL DEF Spec
<1>3. IInv /\ ReadOnce /\ [Next]_vars => [Reader!Next]_(Reader!vars) BY PublicationNext
<1> QED BY <1>1, <1>2, <1>3, Invariance, PTL DEF Spec, ImplementsPublication, Reader!Spec

-----------------------------------------------------------------------------
(* The selection of candidates *)

USE LimitAssumption, LengthAssumption, DayAssumption

(***************************************************************************)
(* The sums of the selection.                                              *)
(***************************************************************************)
FoldsPoints(f, S) ==
  f = [s \in SUBSET S |->
         IF s = {} THEN 0
         ELSE FactPoints(CHOOSE x \in s : TRUE) + f[s \ {CHOOSE x \in s : TRUE}]]

LEMMA PointsSum ==
  ASSUME NEW S, IsFiniteSet(S), NEW w, \A x \in S : w[x] \in Int,
         \A x \in S : w[x] = FactPoints(x)
  PROVE  MapThenSumSet(FactPoints, S) = SumOver(w, S)
<1>1. \A s \in SUBSET S : s # {} =>
        FactPoints(CHOOSE x \in s : TRUE) = w[CHOOSE x \in s : TRUE]
  OBVIOUS
<1>2. ASSUME NEW f PROVE FoldsPoints(f, S) <=> Folds(f, w, S)
  <2>1. [s \in SUBSET S |->
           IF s = {} THEN 0
           ELSE FactPoints(CHOOSE x \in s : TRUE) + f[s \ {CHOOSE x \in s : TRUE}]]
        = [s \in SUBSET S |->
             IF s = {} THEN 0 ELSE w[CHOOSE x \in s : TRUE] + f[s \ {CHOOSE x \in s : TRUE}]]
    BY <1>1
  <2> QED BY <2>1 DEF FoldsPoints, Folds
<1>3. PICK g : /\ SumOver(w, S) = g[S]
               /\ \A f : Folds(f, w, S) <=> f = Part(g, S)
  BY FoldsToOne
<1>4. \A f : FoldsPoints(f, S) <=> f = Part(g, S) BY <1>2, <1>3
<1>5. MapThenSumSet(FactPoints, S) = (CHOOSE f : FoldsPoints(f, S))[S]
  BY DEF MapThenSumSet, MapThenFoldSet, FoldsPoints
<1>6. Part(g, S)[S] = g[S] BY DEF Part
<1> QED BY <1>3, <1>4, <1>5, <1>6

KeptSum(p) == MapThenSumSet(LAMBDA k : p[k].kept, DOMAIN p)

FoldsKept(f, p) ==
  f = [s \in SUBSET DOMAIN p |->
         IF s = {} THEN 0
         ELSE p[CHOOSE x \in s : TRUE].kept + f[s \ {CHOOSE x \in s : TRUE}]]

LEMMA KeptSumIs ==
  ASSUME NEW p, IsFiniteSet(DOMAIN p), NEW w, \A k \in DOMAIN p : w[k] \in Int,
         \A k \in DOMAIN p : w[k] = p[k].kept
  PROVE  KeptSum(p) = SumOver(w, DOMAIN p)
<1>1. \A s \in SUBSET DOMAIN p : s # {} =>
        p[CHOOSE x \in s : TRUE].kept = w[CHOOSE x \in s : TRUE]
  OBVIOUS
<1>2. ASSUME NEW f PROVE FoldsKept(f, p) <=> Folds(f, w, DOMAIN p)
  <2>1. [s \in SUBSET DOMAIN p |->
           IF s = {} THEN 0
           ELSE p[CHOOSE x \in s : TRUE].kept + f[s \ {CHOOSE x \in s : TRUE}]]
        = [s \in SUBSET DOMAIN p |->
             IF s = {} THEN 0 ELSE w[CHOOSE x \in s : TRUE] + f[s \ {CHOOSE x \in s : TRUE}]]
    BY <1>1
  <2> QED BY <2>1 DEF FoldsKept, Folds
<1>3. PICK g : /\ SumOver(w, DOMAIN p) = g[DOMAIN p]
               /\ \A f : Folds(f, w, DOMAIN p) <=> f = Part(g, DOMAIN p)
  BY FoldsToOne
<1>4. \A f : FoldsKept(f, p) <=> f = Part(g, DOMAIN p) BY <1>2, <1>3
<1>5. KeptSum(p) = (CHOOSE f : FoldsKept(f, p))[DOMAIN p]
  BY DEF KeptSum, MapThenSumSet, MapThenFoldSet, FoldsKept
<1>6. Part(g, DOMAIN p)[DOMAIN p] = g[DOMAIN p] BY DEF Part
<1> QED BY <1>3, <1>4, <1>5, <1>6

WantedOf(r) == [i \in DOMAIN r |->
  IF r[i].length < CandidateCharLimit THEN r[i].length ELSE CandidateCharLimit]

FoldsWanted(f, S) ==
  f = [s \in SUBSET S |->
         IF s = {} THEN 0
         ELSE Wanted(CHOOSE x \in s : TRUE) + f[s \ {CHOOSE x \in s : TRUE}]]

LEMMA WantedSumIs ==
  ASSUME NEW S \in SUBSET DOMAIN rows, IsFiniteSet(S),
         \A x \in S : WantedOf(rows)[x] \in Int
  PROVE  MapThenSumSet(Wanted, S) = SumOver(WantedOf(rows), S)
<1>0. PICK w : w = WantedOf(rows) /\ \A x \in S : w[x] \in Int OBVIOUS
<1>1. \A s \in SUBSET S : s # {} =>
        Wanted(CHOOSE x \in s : TRUE) = w[CHOOSE x \in s : TRUE]
  BY <1>0 DEF Wanted, WantedOf
<1>2. ASSUME NEW f PROVE FoldsWanted(f, S) <=> Folds(f, w, S)
  <2>1. [s \in SUBSET S |->
           IF s = {} THEN 0
           ELSE Wanted(CHOOSE x \in s : TRUE) + f[s \ {CHOOSE x \in s : TRUE}]]
        = [s \in SUBSET S |->
             IF s = {} THEN 0 ELSE w[CHOOSE x \in s : TRUE] + f[s \ {CHOOSE x \in s : TRUE}]]
    BY <1>1
  <2> QED BY <2>1 DEF FoldsWanted, Folds
<1>3. PICK g : /\ SumOver(w, S) = g[S]
               /\ \A f : Folds(f, w, S) <=> f = Part(g, S)
  BY <1>0, FoldsToOne
<1>4. \A f : FoldsWanted(f, S) <=> f = Part(g, S) BY <1>2, <1>3
<1>5. MapThenSumSet(Wanted, S) = (CHOOSE f : FoldsWanted(f, S))[S]
  BY DEF MapThenSumSet, MapThenFoldSet, FoldsWanted
<1>6. Part(g, S)[S] = g[S] BY DEF Part
<1> QED BY <1>0, <1>3, <1>4, <1>5, <1>6

(* The points of the facts of a profile. *)
LEMMA PointsAreIntegers ==
  ASSUME NEW p, IsFiniteSet(p)
  PROVE  MapThenSumSet(FactPoints, p) \in Int
<1>1. PICK w : w = [x \in p |-> FactPoints(x)] OBVIOUS
<1>2. \A x : FactPoints(x) \in Int BY DEF FactPoints
<1>3. \A x \in p : w[x] = FactPoints(x) /\ w[x] \in Int BY <1>1, <1>2
<1>4. SumOver(w, p) \in Int BY <1>3, SumAdds
<1>5. MapThenSumSet(FactPoints, p) = SumOver(w, p) BY <1>3, PointsSum
<1> QED BY <1>4, <1>5

LEMMA KeptSumGrows ==
  ASSUME NEW p \in Seq([row : Nat, kept : Nat]), NEW e \in [row : Nat, kept : Nat]
  PROVE  KeptSum(p) \in Int /\ KeptSum(Append(p, e)) = KeptSum(p) + e.kept
<1>1. PICK n \in Nat : n = Len(p) OBVIOUS
<1>2. PICK q : q = Append(p, e) OBVIOUS
<1>3. PICK U, S : U = 1..(n + 1) /\ S = 1..n OBVIOUS
<1>4. PICK w : w = [k \in U |-> q[k].kept] OBVIOUS
<1>5. /\ DOMAIN p = S /\ DOMAIN q = U
      /\ \A k \in S : q[k] = p[k]
      /\ q[n + 1] = e /\ \A k \in U : q[k] \in [row : Nat, kept : Nat]
  <2>0. PICK X : X = [row : Nat, kept : Nat] OBVIOUS
  <2>1. DOMAIN p = 1..n /\ \A k \in 1..n : p[k] \in X
    <3>1. p \in Seq(X) BY <2>0
    <3> QED BY <1>1, <3>1
  <2>2. DOMAIN q = 1..(n + 1) /\ q[n + 1] = e /\ \A k \in 1..n : q[k] = p[k] BY <1>1, <1>2
  <2>3. \A k \in 1..(n + 1) : k \in 1..n \/ k = n + 1 OBVIOUS
  <2> QED BY <1>3, <2>0, <2>1, <2>2, <2>3
<1>6. IsFiniteSet(U) BY <1>3, FS_Interval
<1>7. S \in SUBSET U /\ n + 1 \in U \ S /\ S \cup {n + 1} = U BY <1>3
<1>8. /\ \A k \in DOMAIN q : w[k] = q[k].kept
      /\ \A k \in DOMAIN p : w[k] = p[k].kept
  BY <1>4, <1>5, <1>7
<1>9. \A k \in U : w[k] \in Int
  <2>1. \A k \in U : q[k] \in [row : Nat, kept : Nat] BY <1>5
  <2> QED BY <1>4, <2>1
<1>10. KeptSum(q) = SumOver(w, U) BY <1>5, <1>6, <1>8, <1>9, KeptSumIs
<1>11. KeptSum(p) = SumOver(w, S)
  <2>1. IsFiniteSet(S) BY <1>6, <1>7, FS_Subset
  <2>2. \A k \in S : w[k] \in Int BY <1>7, <1>9
  <2> QED BY <1>5, <1>8, <2>1, <2>2, KeptSumIs
<1>12. /\ SumOver(w, S) \in Int
       /\ SumOver(w, S \cup {n + 1}) = SumOver(w, S) + w[n + 1]
  BY <1>6, <1>7, <1>9, SumAdds
<1>13. w[n + 1] = e.kept BY <1>4, <1>5, <1>7
<1> QED BY <1>2, <1>7, <1>10, <1>11, <1>12, <1>13

LEMMA NoneKept == KeptSum(<<>>) = 0
<1>1. PICK p : p = <<>> OBVIOUS
<1>2. DOMAIN p = {} BY <1>1
<1>3. IsFiniteSet({}) BY FS_EmptySet
<1>4. KeptSum(p) = SumOver(p, {}) BY <1>2, <1>3, KeptSumIs
<1>5. SumOver(p, {}) = 0 BY <1>3, SumAdds
<1> QED BY <1>1, <1>4, <1>5

-----------------------------------------------------------------------------
(***************************************************************************)
(* The order of the candidates                                             *)
(***************************************************************************)
RowsTyped == rows \in Seq(Row)

LEMMA TotalsAreIntegers ==
  ASSUME RowsTyped, NEW i \in DOMAIN rows
  PROVE  Total(rows[i]) \in Int /\ rows[i].day \in Nat /\ rows[i].length \in Nat
<1>1. PICK row \in Row : row = rows[i] BY DEF RowsTyped
<1>2. row.profile \in Profile /\ row.day \in Nat /\ row.length \in Nat BY DEF Row
<1>3. PICK p \in Profile : p = row.profile BY <1>2
<1>4. \A signal : \A n \in Nat : Points(signal, n) \in Int BY DEF Points
<1>5. Score(p, row.length) \in Int BY <1>4 DEF Score
<1>6. ClassPoints(p.class) \in Int BY DEF ClassPoints
<1>7. MapThenSumSet(FactPoints, p.facts) \in Int BY ProfileAssumption, PointsAreIntegers
<1>8. StructuredScore(p) \in Int BY <1>4, <1>6, <1>7 DEF StructuredScore
<1> QED BY <1>1, <1>2, <1>3, <1>5, <1>8 DEF Total

(* Precedes is a strict total order.                                       *)
LEMMA Order ==
  ASSUME RowsTyped, NEW i \in DOMAIN rows, NEW j \in DOMAIN rows, NEW k \in DOMAIN rows
  PROVE  /\ ~Precedes(i, i)
         /\ i # j => Precedes(i, j) \/ Precedes(j, i)
         /\ Precedes(i, j) /\ Precedes(j, k) => Precedes(i, k)
<1>1. /\ Total(rows[i]) \in Int /\ Total(rows[j]) \in Int /\ Total(rows[k]) \in Int
      /\ rows[i].day \in Nat /\ rows[j].day \in Nat /\ rows[k].day \in Nat
  BY TotalsAreIntegers
<1>2. i \in Nat /\ j \in Nat /\ k \in Nat BY DEF RowsTyped
<1> QED BY <1>1, <1>2 DEF Precedes

Before(i) == {j \in Survivors : Precedes(j, i)}

LEMMA SurvivorsAreFinite ==
  ASSUME RowsTyped
  PROVE  /\ Survivors \in SUBSET DOMAIN rows
         /\ IsFiniteSet(DOMAIN rows) /\ IsFiniteSet(Survivors)
         /\ Cardinality(Survivors) \in Nat
<1>1. DOMAIN rows = 1..Len(rows) /\ Len(rows) \in Nat BY DEF RowsTyped
<1>2. IsFiniteSet(DOMAIN rows) BY <1>1, FS_Interval
<1>3. Survivors \in SUBSET DOMAIN rows BY DEF Survivors
<1> QED BY <1>2, <1>3, FS_Subset, FS_CardinalityType

(* Who precedes has fewer before it. *)
LEMMA FewerBefore ==
  ASSUME RowsTyped, NEW i \in Survivors, NEW j \in Survivors, Precedes(i, j)
  PROVE  /\ Cardinality(Before(i)) \in Nat /\ Cardinality(Before(j)) \in Nat
         /\ Cardinality(Before(i)) < Cardinality(Before(j))
         /\ Cardinality(Before(j)) < Cardinality(Survivors)
<1>1. Before(i) \in SUBSET Before(j) BY Order, SurvivorsAreFinite DEF Before
<1>2. i \in Before(j) /\ i \notin Before(i) /\ j \in Survivors /\ j \notin Before(j)
  BY Order, SurvivorsAreFinite DEF Before
<1>3. Before(j) \in SUBSET Survivors BY DEF Before
<1>4. IsFiniteSet(Before(j)) /\ IsFiniteSet(Before(i)) /\ IsFiniteSet(Survivors)
  BY <1>1, <1>3, SurvivorsAreFinite, FS_Subset
<1>5. PICK A, B, C : A = Before(i) /\ B = Before(j) /\ C = Survivors OBVIOUS
<1>6. Cardinality(A) \in Nat /\ Cardinality(B) \in Nat /\ Cardinality(C) \in Nat
  BY <1>4, <1>5, FS_CardinalityType
<1>7. Cardinality(A) <= Cardinality(B) /\ Cardinality(A) # Cardinality(B)
  BY <1>1, <1>2, <1>4, <1>5, FS_Subset
<1>8. Cardinality(B) <= Cardinality(C) /\ Cardinality(B) # Cardinality(C)
  BY <1>2, <1>3, <1>4, <1>5, FS_Subset
<1> QED BY <1>5, <1>6, <1>7, <1>8

LEMMA BeforeIsBounded ==
  ASSUME RowsTyped, NEW i \in Survivors
  PROVE  /\ Cardinality(Before(i)) \in Nat
         /\ Cardinality(Before(i)) < Cardinality(Survivors)
<1>1. Before(i) \in SUBSET Survivors /\ i \notin Before(i)
  BY Order, SurvivorsAreFinite DEF Before
<1>2. IsFiniteSet(Before(i)) BY <1>1, SurvivorsAreFinite, FS_Subset
<1>3. PICK B, C : B = Before(i) /\ C = Survivors OBVIOUS
<1>4. Cardinality(B) \in Nat /\ Cardinality(C) \in Nat
  BY <1>2, <1>3, SurvivorsAreFinite, FS_CardinalityType
<1>5. Cardinality(B) <= Cardinality(C) /\ Cardinality(B) # Cardinality(C)
  BY <1>1, <1>3, SurvivorsAreFinite, FS_Subset
<1> QED BY <1>3, <1>4, <1>5

(* Every number of predecessors is that of one survivor: ranks have no gap. *)
LEMMA RanksAreTaken ==
  ASSUME RowsTyped, NEW n \in Nat, n < Cardinality(Survivors)
  PROVE  \E i \in Survivors : Cardinality(Before(i)) = n
<1>1. PICK N \in Nat : N = Cardinality(Survivors) BY SurvivorsAreFinite
<1>2. PICK S : S = Survivors OBVIOUS
<1>3. PICK f : f = [i \in S |-> Cardinality(Before(i))] OBVIOUS
<1>4. PICK m \in Int : m = N - 1 BY <1>1
<1>5. PICK T : T = 0..m OBVIOUS
<1>6. f \in [S -> T] BY <1>1, <1>2, <1>3, <1>4, <1>5, BeforeIsBounded
<1>7. ASSUME NEW i \in S, NEW j \in S, f[i] = f[j] PROVE i = j
  <2>1. ~Precedes(i, j) /\ ~Precedes(j, i)
    BY <1>2, <1>3, <1>7, FewerBefore
  <2> QED BY <1>2, <2>1, Order, SurvivorsAreFinite
<1>8. f \in Injection(S, T) BY <1>6, <1>7, Fun_IsInj
<1>9. IsFiniteSet(T) /\ Cardinality(T) = N
  <2>1. Cardinality(0..m) = IF 0 > m THEN 0 ELSE m - 0 + 1 BY FS_Interval
  <2>2. IsFiniteSet(0..m) BY FS_Interval
  <2> QED BY <1>1, <1>4, <1>5, <2>1, <2>2
<1>10. f \in Surjection(S, T) BY <1>1, <1>2, <1>8, <1>9, FS_Injection
<1>11. n \in T BY <1>1, <1>4, <1>5
<1>12. PICK i \in S : f[i] = n BY <1>10, <1>11, Fun_SurjectionProperties
<1> QED BY <1>2, <1>3, <1>12

(* The numbers order the survivors. *)
LEMMA NumbersOrder ==
  ASSUME RowsTyped, NEW i \in Survivors, NEW j \in Survivors
  PROVE  /\ Cardinality(Before(i)) = Cardinality(Before(j)) => i = j
         /\ Cardinality(Before(i)) < Cardinality(Before(j)) => Precedes(i, j)
<1>1. i # j => Precedes(i, j) \/ Precedes(j, i) BY Order, SurvivorsAreFinite
<1>2. PICK a, b : a = Cardinality(Before(i)) /\ b = Cardinality(Before(j)) OBVIOUS
<1>3. a \in Nat /\ b \in Nat BY <1>2, BeforeIsBounded
<1>4. Precedes(i, j) => a < b BY <1>2, FewerBefore
<1>5. Precedes(j, i) => b < a BY <1>2, FewerBefore
<1> QED BY <1>1, <1>2, <1>3, <1>4, <1>5

(* What Select makes of the survivors. *)
Ordered(r) ==
  /\ r \in Seq(Survivors)
  /\ \A k, l \in DOMAIN r : k < l => Precedes(r[k], r[l])
  /\ \A i \in Survivors : (\A k \in DOMAIN r : r[k] # i) => \A k \in DOMAIN r : Precedes(r[k], i)
  /\ Cardinality(Survivors) <= Limit => \A i \in Survivors : \E k \in DOMAIN r : r[k] = i

LEMMA RankOrders ==
  ASSUME RowsTyped, Rank
  PROVE  Ordered(ranked')
<1>1. PICK r : r = ranked' OBVIOUS
<1>2. PICK N \in Nat : N = Cardinality(Survivors) BY SurvivorsAreFinite
<1>3. PICK m \in Nat : m = (IF N > Limit THEN Limit ELSE N) /\ m <= N
                       /\ (N <= Limit => m = N)
  OBVIOUS
<1>4. r = [k \in 1..m |-> CHOOSE i \in Survivors : Cardinality(Before(i)) = k - 1]
  BY <1>1, <1>2, <1>3 DEF Rank, Before
<1>5. ASSUME NEW k \in 1..m
      PROVE  r[k] \in Survivors /\ Cardinality(Before(r[k])) = k - 1
  <2>1. k - 1 \in Nat /\ k - 1 < N BY <1>3
  <2>2. \E i \in Survivors : Cardinality(Before(i)) = k - 1 BY <1>2, <2>1, RanksAreTaken
  <2> QED BY <1>4, <2>2
<1>6. r \in Seq(Survivors) /\ DOMAIN r = 1..m
  <2>1. r \in [1..m -> Survivors] BY <1>4, <1>5
  <2> QED BY <2>1
<1>7. ASSUME NEW k \in 1..m, NEW l \in 1..m, k < l PROVE Precedes(r[k], r[l])
  <2>1. k - 1 < l - 1 BY <1>7
  <2>2. r[k] \in Survivors /\ r[l] \in Survivors
        /\ Cardinality(Before(r[k])) = k - 1 /\ Cardinality(Before(r[l])) = l - 1
    BY <1>5
  <2> QED BY <2>1, <2>2, NumbersOrder
<1>8. ASSUME NEW i \in Survivors, \A k \in 1..m : r[k] # i
      PROVE  m < N /\ \A k \in 1..m : Precedes(r[k], i)
  <2>1. PICK c \in Nat : c = Cardinality(Before(i)) /\ c < N BY <1>2, BeforeIsBounded
  <2>2. ~(c < m)
    <3> SUFFICES ASSUME c < m PROVE FALSE OBVIOUS
    <3>1. c + 1 \in 1..m /\ (c + 1) - 1 = c BY <2>1
    <3>2. r[c + 1] \in Survivors /\ Cardinality(Before(r[c + 1])) = c BY <1>5, <3>1
    <3>3. r[c + 1] = i BY <2>1, <3>2, NumbersOrder
    <3> QED BY <1>8, <3>1, <3>3
  <2>3. ASSUME NEW k \in 1..m PROVE Precedes(r[k], i)
    <3>1. k - 1 < c BY <2>1, <2>2
    <3>2. r[k] \in Survivors /\ Cardinality(Before(r[k])) = k - 1 BY <1>5
    <3> QED BY <2>1, <3>1, <3>2, NumbersOrder
  <2> QED BY <1>2, <2>1, <2>2, <2>3
<1>9. ASSUME N <= Limit, NEW i \in Survivors PROVE \E k \in 1..m : r[k] = i
  BY <1>2, <1>3, <1>8, <1>9
<1> QED BY <1>1, <1>2, <1>6, <1>7, <1>8, <1>9 DEF Ordered

-----------------------------------------------------------------------------
(***************************************************************************)
(* The invariant of the selection                                          *)
(***************************************************************************)
PackedRow == [row : Nat, kept : Nat]

(* What a candidate may have kept. *)
KeptWell(c) ==
  /\ c.row \in Survivors /\ rows[c.row].length > 0
  /\ c.kept <= CandidateCharLimit /\ c.kept <= rows[c.row].length
  /\ c.kept = rows[c.row].length \/ c.kept >= Least - (Mark - Note) - MaxBlanks

RankedBefore(i, k) == \E l \in DOMAIN ranked : l < k /\ ranked[l] = i

(* Why the loop has a rank behind it. *)
Passed(k) ==
  \/ rows[ranked[k]].length = 0
  \/ ranked[k] \in Chosen
  \/ remaining < Least /\ \A i \in Chosen : RankedBefore(i, k)

SelectionTyped ==
  /\ RowsTyped
  /\ next \in Nat /\ remaining \in Nat /\ packed \in Seq(PackedRow)

RankedWell ==
  /\ next = 0 => ranked = <<>> /\ packed = <<>>
  /\ next # 0 => Ordered(ranked) /\ next <= Len(ranked) + 1

PackedWell == \A q \in DOMAIN packed : KeptWell(packed[q]) /\ RankedBefore(packed[q].row, next)

(* The budget is what is left and what was kept, and nobody kept more than *)
(* it wanted.                                                              *)
Spent ==
  /\ remaining + KeptSum(packed) = Budget
  /\ remaining + SumOver(WantedOf(rows), Chosen) >= Budget

SelectionInv ==
  /\ SelectionTyped
  /\ RankedWell
  /\ PackedWell
  /\ \A k \in DOMAIN ranked : k < next => Passed(k)
  /\ Spent

LEMMA SelectionInitially == SelectInit => SelectionInv
<1> SUFFICES ASSUME SelectInit PROVE SelectionInv OBVIOUS
<1>1. RowsTyped
  <2>1. PICK n \in 0..MaxRows : rows \in [1..n -> Row] BY DEF SelectInit
  <2> QED BY <2>1 DEF RowsTyped
<1>2. SelectionTyped BY <1>1 DEF SelectInit, SelectionTyped
<1>3. RankedWell /\ PackedWell BY DEF SelectInit, RankedWell, PackedWell
<1>4. \A k \in DOMAIN ranked : k < next => Passed(k) BY DEF SelectInit
<1>5. Budget \in Int BY DEF SelectInit
<1>6. Chosen = {} BY DEF SelectInit, Chosen
<1>7. SumOver(WantedOf(rows), {}) = 0
  <2>1. IsFiniteSet({}) BY FS_EmptySet
  <2>2. PICK w : w = WantedOf(rows) OBVIOUS
  <2>3. SumOver(w, {}) = 0 BY <2>1, SumAdds
  <2> QED BY <2>2, <2>3
<1>8. Spent BY <1>5, <1>6, <1>7, NoneKept DEF SelectInit, Spent
<1> QED BY <1>2, <1>3, <1>4, <1>8 DEF SelectionInv

(* Without a candidate the rows, and with them their order, stay. *)
LEMMA RowsStay ==
  ASSUME rows' = rows
  PROVE  /\ \A r : Ordered(r) => Ordered(r)'
         /\ \A c : KeptWell(c) => KeptWell(c)'
         /\ RowsTyped => RowsTyped'
<1> USE DEF Survivors, Survives, Precedes
<1>1. Survivors' = Survivors OBVIOUS
<1>2. \A i, j : Precedes(i, j) => Precedes(i, j)' OBVIOUS
<1> QED BY <1>1, <1>2 DEF Ordered, KeptWell, RowsTyped

LEMMA RankKeeps ==
  ASSUME SelectionInv, Rank
  PROVE  SelectionInv'
<1>1. rows' = rows /\ remaining' = remaining /\ packed' = packed /\ next = 0 /\ next' = 1
  BY DEF Rank
<1>2. packed = <<>> BY <1>1 DEF SelectionInv, RankedWell
<1>3. PICK r : r = ranked' OBVIOUS
<1>4. Ordered(r) BY <1>3, RankOrders DEF SelectionInv, SelectionTyped
<1>5. r \in Seq(Survivors) BY <1>4 DEF Ordered
<1>6. Ordered(ranked)' BY <1>1, <1>3, <1>4, RowsStay
<1>7. SelectionTyped' BY <1>1 DEF SelectionInv, SelectionTyped, RowsTyped
<1>8. RankedWell'
  <2>1. Len(r) \in Nat BY <1>5
  <2> QED BY <1>1, <1>3, <1>6, <2>1 DEF RankedWell
<1>9. PackedWell' BY <1>1, <1>2 DEF PackedWell
<1>10. \A k \in DOMAIN ranked' : ~(k < next')
  <2>1. DOMAIN r = 1..Len(r) BY <1>5
  <2> QED BY <1>1, <1>3, <2>1
<1>11. Spent' BY <1>1 DEF SelectionInv, Spent, Chosen
<1> QED BY <1>7, <1>8, <1>9, <1>10, <1>11 DEF SelectionInv

LEMMA ChosenAre ==
  ASSUME SelectionInv
  PROVE  /\ Chosen \in SUBSET Survivors /\ Chosen \in SUBSET DOMAIN rows
         /\ IsFiniteSet(DOMAIN rows)
         /\ \A i \in DOMAIN rows : WantedOf(rows)[i] \in Nat
         /\ \A i \in Chosen : RankedBefore(i, next)
<1>1. RowsTyped BY DEF SelectionInv, SelectionTyped
<1>2. Chosen \in SUBSET Survivors BY DEF SelectionInv, PackedWell, KeptWell, Chosen
<1>3. ASSUME NEW i \in DOMAIN rows PROVE WantedOf(rows)[i] \in Nat
  <2>1. rows[i].length \in Nat BY <1>1, TotalsAreIntegers
  <2> QED BY <2>1 DEF WantedOf
<1>4. \A i \in Chosen : RankedBefore(i, next) BY DEF SelectionInv, PackedWell, Chosen
<1> QED BY <1>1, <1>2, <1>3, <1>4, SurvivorsAreFinite

(* While enough is left, ranks are behind the loop for lasting reasons. *)
LEMMA PassedStays ==
  ASSUME SelectionInv, Enough(remaining), rows' = rows, ranked' = ranked,
         Chosen \subseteq Chosen', NEW k \in DOMAIN ranked, k < next
  PROVE  Passed(k)'
<1>1. remaining \in Nat BY DEF SelectionInv, SelectionTyped
<1>2. rows[ranked[k]].length = 0 \/ ranked[k] \in Chosen
  BY <1>1 DEF SelectionInv, Passed, Enough
<1> QED BY <1>2 DEF Passed

(* The ranks are those of survivors, one for each number. *)
LEMMA RanksTyped ==
  ASSUME SelectionInv, next # 0
  PROVE  /\ Ordered(ranked) /\ Len(ranked) \in Nat
         /\ DOMAIN ranked = 1..Len(ranked)
         /\ \A k \in DOMAIN ranked : ranked[k] \in Survivors
         /\ next \in Nat /\ next <= Len(ranked) + 1
<1>1. Ordered(ranked) BY DEF SelectionInv, RankedWell
<1>2. PICK X : X = Survivors OBVIOUS
<1>3. ranked \in Seq(X) BY <1>1, <1>2 DEF Ordered
<1>4. \A k \in DOMAIN ranked : ranked[k] \in X BY <1>3
<1> QED BY <1>1, <1>2, <1>3, <1>4 DEF SelectionInv, RankedWell, SelectionTyped

LEMMA PassOverKeeps ==
  ASSUME SelectionInv, PassOver
  PROVE  SelectionInv'
<1>1. /\ rows' = rows /\ ranked' = ranked /\ remaining' = remaining /\ packed' = packed
      /\ next' = next + 1 /\ next \in DOMAIN ranked /\ Enough(remaining)
      /\ rows[ranked[next]].length = 0
  BY DEF PassOver
<1>2. next # 0 BY <1>1 DEF SelectionInv, RankedWell
<1>3. /\ Ordered(ranked) /\ Len(ranked) \in Nat /\ DOMAIN ranked = 1..Len(ranked)
      /\ next \in Nat
  BY <1>2, RanksTyped
<1>4. SelectionTyped' BY <1>1 DEF SelectionInv, SelectionTyped, RowsTyped
<1>5. RankedWell'
  <2>1. \A r : Ordered(r) => Ordered(r)' BY <1>1, RowsStay
  <2>2. Ordered(ranked)' BY <1>1, <1>3, <2>1 DEF Ordered, Survivors, Survives, Precedes
  <2> QED BY <1>1, <1>3, <2>2 DEF RankedWell
<1>6. PackedWell'
  <2>1. PICK m \in Nat : m = next' /\ next <= m BY <1>1, <1>3
  <2>2. \A i : RankedBefore(i, next) => RankedBefore(i, m)'
    BY <1>1, <1>3, <2>1 DEF RankedBefore
  <2>3. \A c : KeptWell(c) => KeptWell(c)' BY <1>1, RowsStay
  <2> QED BY <1>1, <2>1, <2>2, <2>3 DEF SelectionInv, PackedWell, RankedBefore
<1>7. ASSUME NEW k \in DOMAIN ranked, k < next' PROVE Passed(k)'
  <2>1. CASE k < next
    <3>1. Chosen \subseteq Chosen' BY <1>1 DEF Chosen
    <3> QED BY <1>1, <2>1, <3>1, PassedStays
  <2>2. CASE k = next BY <1>1, <2>2 DEF Passed
  <2> QED BY <1>1, <1>3, <1>7, <2>1, <2>2
<1>8. Spent' BY <1>1 DEF SelectionInv, Spent, Chosen
<1> QED BY <1>1, <1>4, <1>5, <1>6, <1>7, <1>8 DEF SelectionInv

LEMMA BreakKeeps ==
  ASSUME SelectionInv, Break
  PROVE  SelectionInv'
<1>1. /\ rows' = rows /\ ranked' = ranked /\ remaining' = remaining /\ packed' = packed
      /\ next' = Len(ranked) + 1 /\ next \in DOMAIN ranked /\ ~Enough(remaining)
  BY DEF Break
<1>2. next # 0 BY <1>1 DEF SelectionInv, RankedWell
<1>3. /\ Ordered(ranked) /\ Len(ranked) \in Nat /\ DOMAIN ranked = 1..Len(ranked)
      /\ next \in Nat /\ next <= Len(ranked) + 1
  BY <1>2, RanksTyped
<1>4. SelectionTyped' BY <1>1, <1>3 DEF SelectionInv, SelectionTyped, RowsTyped
<1>5. RankedWell'
  <2>1. \A r : Ordered(r) => Ordered(r)' BY <1>1, RowsStay
  <2>2. Ordered(ranked)' BY <1>1, <1>3, <2>1 DEF Ordered, Survivors, Survives, Precedes
  <2> QED BY <1>1, <1>3, <2>2 DEF RankedWell
<1>6. PackedWell'
  <2>1. PICK m \in Nat : m = next' /\ next <= m BY <1>1, <1>3
  <2>2. \A i : RankedBefore(i, next) => RankedBefore(i, m)'
    BY <1>1, <1>3, <2>1 DEF RankedBefore
  <2>3. \A c : KeptWell(c) => KeptWell(c)' BY <1>1, RowsStay
  <2> QED BY <1>1, <2>1, <2>2, <2>3 DEF SelectionInv, PackedWell, RankedBefore
<1>7. ASSUME NEW k \in DOMAIN ranked, k < next' PROVE Passed(k)'
  <2>0. Chosen' = Chosen BY <1>1 DEF Chosen
  <2>1. CASE k < next
    <3>1. Passed(k) BY <2>1 DEF SelectionInv
    <3> QED BY <1>1, <2>0, <3>1 DEF Passed, RankedBefore
  <2>2. CASE ~(k < next)
    <3>1. remaining < Least BY <1>1 DEF Enough, SelectionInv, SelectionTyped
    <3>2. \A i \in Chosen : RankedBefore(i, next) BY ChosenAre
    <3>3. \A i \in Chosen : RankedBefore(i, k) BY <1>3, <2>2, <3>2 DEF RankedBefore
    <3> QED BY <1>1, <2>0, <3>1, <3>3 DEF Passed, RankedBefore
  <2> QED BY <2>1, <2>2
<1>8. Spent' BY <1>1 DEF SelectionInv, Spent, Chosen
<1> QED BY <1>1, <1>4, <1>5, <1>6, <1>7, <1>8 DEF SelectionInv

(* What truncateRunes leaves of a text while enough is left. *)
LEMMA TruncatedWell ==
  ASSUME NEW length \in Nat, NEW left \in Nat, Enough(left),
         NEW n \in truncateRunes(length, Room(left))
  PROVE  /\ n \in Nat /\ n <= left /\ n <= CandidateCharLimit /\ n <= length
         /\ n = length \/ n >= Least - (Mark - Note) - MaxBlanks
<1>1. PICK limit \in Nat : /\ limit = Room(left) /\ limit <= left
                           /\ limit <= CandidateCharLimit /\ limit >= Least
  BY DEF Room, Enough
<1>2. CASE length <= limit BY <1>1, <1>2 DEF truncateRunes
<1>3. CASE ~(length <= limit) /\ limit <= Mark BY <1>1, <1>3 DEF truncateRunes
<1>4. CASE ~(length <= limit) /\ ~(limit <= Mark)
  <2>1. PICK blanks \in 0..MaxBlanks : n = limit - Mark - blanks + Note /\ n > Note
    BY <1>1, <1>4 DEF truncateRunes
  <2> QED BY <1>1, <1>4, <2>1
<1> QED BY <1>2, <1>3, <1>4

LEMMA PackKeeps ==
  ASSUME SelectionInv, Pack
  PROVE  SelectionInv'
<1>1. /\ rows' = rows /\ ranked' = ranked /\ next' = next + 1
      /\ next \in DOMAIN ranked /\ Enough(remaining) /\ rows[ranked[next]].length > 0
  BY DEF Pack
<1>2. PICK i : i = ranked[next] OBVIOUS
<1>3. PICK n \in truncateRunes(rows[i].length, Room(remaining)) :
        packed' = Append(packed, [row |-> i, kept |-> n]) /\ remaining' = remaining - n
  BY <1>2 DEF Pack
<1>4. next # 0 BY <1>1 DEF SelectionInv, RankedWell
<1>5. /\ Ordered(ranked) /\ Len(ranked) \in Nat /\ DOMAIN ranked = 1..Len(ranked)
      /\ next \in Nat /\ i \in Survivors
  BY <1>1, <1>2, <1>4, RanksTyped
<1>6. RowsTyped /\ remaining \in Nat /\ packed \in Seq(PackedRow)
  BY DEF SelectionInv, SelectionTyped
<1>7. i \in DOMAIN rows /\ i \in Nat /\ rows[i].length \in Nat /\ rows[i].length > 0
  <2>1. i \in DOMAIN rows BY <1>5, <1>6, SurvivorsAreFinite
  <2>2. DOMAIN rows = 1..Len(rows) /\ Len(rows) \in Nat BY <1>6 DEF RowsTyped
  <2> QED BY <1>1, <1>2, <1>6, <2>1, <2>2, TotalsAreIntegers
<1>8. /\ n \in Nat /\ n <= remaining /\ n <= CandidateCharLimit /\ n <= rows[i].length
      /\ n = rows[i].length \/ n >= Least - (Mark - Note) - MaxBlanks
  BY <1>1, <1>6, <1>7, <1>3, TruncatedWell
<1>9. PICK e : e = [row |-> i, kept |-> n] OBVIOUS
<1>10. PICK q : q = Append(packed, e) OBVIOUS
<1>11. e \in PackedRow /\ e.row = i /\ e.kept = n BY <1>7, <1>8, <1>9 DEF PackedRow
<1>12. /\ q \in Seq(PackedRow) /\ DOMAIN q = DOMAIN packed \cup {Len(packed) + 1}
       /\ Len(packed) + 1 \notin DOMAIN packed
       /\ q[Len(packed) + 1] = e /\ \A k \in DOMAIN packed : q[k] = packed[k]
  BY <1>6, <1>10, <1>11
<1>13. packed' = q BY <1>3, <1>9, <1>10
<1>14. Chosen' = Chosen \cup {i} BY <1>11, <1>12, <1>13 DEF Chosen
<1>15. SelectionTyped'
  <2>1. RowsTyped' BY <1>1, <1>6 DEF RowsTyped
  <2>2. packed' \in Seq(PackedRow)' BY <1>12, <1>13 DEF PackedRow
  <2>3. remaining - n \in Nat /\ next + 1 \in Nat BY <1>5, <1>6, <1>8
  <2>4. remaining' \in Nat /\ next' \in Nat BY <1>1, <1>3, <2>3
  <2> QED BY <2>1, <2>2, <2>4 DEF SelectionTyped
<1>16. RankedWell'
  <2>1. \A r : Ordered(r) => Ordered(r)' BY <1>1, RowsStay
  <2>2. Ordered(ranked)' BY <1>1, <1>5, <2>1 DEF Ordered, Survivors, Survives, Precedes
  <2> QED BY <1>1, <1>5, <2>2 DEF RankedWell
<1>17. PackedWell'
  <2>1. PICK m \in Nat : m = next' /\ m = next + 1 BY <1>1, <1>5
  <2>2. \A j : RankedBefore(j, next) => RankedBefore(j, m)'
    BY <1>1, <1>5, <2>1 DEF RankedBefore
  <2>3. \A c : KeptWell(c) => KeptWell(c)' BY <1>1, RowsStay
  <2>4. RankedBefore(i, m)' BY <1>1, <1>2, <1>5, <2>1 DEF RankedBefore
  <2>5. KeptWell(e) BY <1>5, <1>7, <1>8, <1>11 DEF KeptWell
  <2>6. ASSUME NEW k \in DOMAIN q, NEW c, c = q[k]
        PROVE  KeptWell(c)' /\ RankedBefore(c.row, m)'
    <3>1. CASE k \in DOMAIN packed
      <4>1. c = packed[k] BY <1>12, <2>6, <3>1
      <4>2. KeptWell(c) /\ RankedBefore(c.row, next)
        BY <3>1, <4>1 DEF SelectionInv, PackedWell
      <4> QED BY <2>2, <2>3, <4>2
    <3>2. CASE k = Len(packed) + 1 BY <1>11, <1>12, <2>3, <2>4, <2>5, <2>6, <3>2
    <3> QED BY <1>12, <3>1, <3>2
  <2> QED BY <1>13, <2>1, <2>6 DEF PackedWell, KeptWell, RankedBefore
<1>18. ASSUME NEW k \in DOMAIN ranked, k < next' PROVE Passed(k)'
  <2>1. CASE k < next BY <1>1, <1>14, <2>1, PassedStays
  <2>2. CASE k = next BY <1>1, <1>2, <1>14, <2>2 DEF Passed
  <2> QED BY <1>1, <1>5, <1>18, <2>1, <2>2
<1>19. Spent'
  <2>1. KeptSum(packed) \in Int /\ KeptSum(q) = KeptSum(packed) + n
    BY <1>6, <1>10, <1>11, KeptSumGrows DEF PackedRow
  <2>2. PICK U, C, w : U = DOMAIN rows /\ C = Chosen /\ w = WantedOf(rows) OBVIOUS
  <2>3. /\ C \in SUBSET U /\ IsFiniteSet(U) /\ \A j \in U : w[j] \in Nat
        /\ \A j \in C : RankedBefore(j, next)
    BY <2>2, ChosenAre
  <2>4. i \notin C
    <3> SUFFICES ASSUME i \in C PROVE FALSE OBVIOUS
    <3>1. PICK l \in DOMAIN ranked : l < next /\ ranked[l] = i BY <2>3 DEF RankedBefore
    <3>2. Precedes(i, i) BY <1>1, <1>2, <1>5, <3>1 DEF Ordered
    <3> QED BY <1>6, <1>7, <3>2, Order
  <2>5. i \in U \ C /\ \A j \in U : w[j] \in Int BY <1>7, <2>2, <2>3, <2>4
  <2>6. SumOver(w, C) \in Int /\ SumOver(w, C \cup {i}) = SumOver(w, C) + w[i]
    BY <2>3, <2>5, SumAdds
  <2>7. w[i] \in Nat /\ n <= w[i] BY <1>7, <1>8, <2>2 DEF WantedOf
  <2>8. /\ remaining + KeptSum(packed) = Budget
        /\ remaining + SumOver(w, C) >= Budget
    BY <2>2 DEF SelectionInv, Spent
  <2>9. PICK t : t = remaining' OBVIOUS
  <2>10. t = remaining - n BY <1>3, <2>9
  <2>11. t + KeptSum(q) = Budget BY <1>6, <1>8, <2>1, <2>8, <2>10
  <2>12. t + SumOver(w, C \cup {i}) >= Budget
    BY <1>6, <1>8, <2>6, <2>7, <2>8, <2>10
  <2> QED BY <1>1, <1>13, <1>14, <2>2, <2>9, <2>11, <2>12 DEF Spent
<1> QED BY <1>1, <1>15, <1>16, <1>17, <1>18, <1>19 DEF SelectionInv

(* The invariant of the selection. *)
LEMMA SelectionInvariance == SelectSpec => []SelectionInv
<1>1. SelectInit => SelectionInv BY SelectionInitially
<1>2. SelectionInv /\ [SelectNext]_selection => SelectionInv'
  <2> SUFFICES ASSUME SelectionInv, [SelectNext]_selection PROVE SelectionInv' OBVIOUS
  <2>1. CASE Rank BY <2>1, RankKeeps
  <2>2. CASE PassOver BY <2>2, PassOverKeeps
  <2>3. CASE Pack BY <2>3, PackKeeps
  <2>4. CASE Break BY <2>4, BreakKeeps
  <2>5. CASE UNCHANGED selection
    BY <2>5 DEF selection, SelectionInv, SelectionTyped, RowsTyped, RankedWell, PackedWell,
                KeptWell, RankedBefore, Passed, Spent, Chosen, Ordered, Survivors, Survives,
                Precedes
  <2> QED BY <2>1, <2>2, <2>3, <2>4, <2>5 DEF SelectNext
<1> QED BY <1>1, <1>2, PTL DEF SelectSpec

-----------------------------------------------------------------------------
(* What the briefing is given fits the budget and the limit of a candidate *)
(* for any evidence, and none of it is a stump (ApplyEvidenceBudget).      *)
THEOREM EvidenceIsWithinBudget == SelectSpec => []WithinBudget
<1>1. SelectionInv => WithinBudget
  <2> SUFFICES ASSUME SelectionInv PROVE WithinBudget OBVIOUS
  <2>1. \A k \in DOMAIN packed : KeptWell(packed[k]) BY DEF SelectionInv, PackedWell
  <2>2. KeptSum(packed) <= Budget
    <3>1. packed \in Seq([row : Nat, kept : Nat]) /\ remaining \in Nat
      BY DEF SelectionInv, SelectionTyped, PackedRow
    <3>2. [row |-> 0, kept |-> 0] \in [row : Nat, kept : Nat] OBVIOUS
    <3>3. KeptSum(packed) \in Int BY <3>1, <3>2, KeptSumGrows
    <3> QED BY <3>1, <3>3 DEF SelectionInv, Spent
  <2>3. MapThenSumSet(LAMBDA k : packed[k].kept, DOMAIN packed) <= Budget
    BY <2>2 DEF KeptSum
  <2> QED BY <2>1, <2>3 DEF WithinBudget, KeptWell
<1> QED BY <1>1, SelectionInvariance, PTL

(* When the loop is over, a candidate with evidence was left out for good  *)
(* reason: it ranks behind everything chosen (Select, the stable sort and  *)
(* the cut at the limit, then ApplyEvidenceBudget).                        *)
LEMMA LeftOutLast ==
  ASSUME SelectionInv, Done, NEW i \in Eligible \ Chosen, NEW j \in Chosen
  PROVE  Precedes(j, i) /\ i \in DOMAIN rows /\ j \in DOMAIN rows
<1>1. next # 0
  <2>1. SUFFICES ASSUME next = 0 PROVE FALSE OBVIOUS
  <2>2. Len(ranked) = 0 BY <2>1 DEF SelectionInv, RankedWell
  <2> QED BY <2>1, <2>2 DEF Done
<1>2. /\ Ordered(ranked) /\ DOMAIN ranked = 1..Len(ranked) /\ Len(ranked) \in Nat
      /\ next = Len(ranked) + 1
  BY <1>1, RanksTyped DEF Done
<1>3. i \in Survivors /\ rows[i].length > 0 /\ i \notin Chosen
  BY DEF Eligible, Survivors, Survives
<1>4. j \in DOMAIN rows /\ i \in DOMAIN rows BY <1>3, ChosenAre DEF Survivors
<1>5. PICK l \in DOMAIN ranked : ranked[l] = j BY ChosenAre DEF RankedBefore
<1>6. CASE \A k \in DOMAIN ranked : ranked[k] # i
  BY <1>2, <1>3, <1>4, <1>5, <1>6 DEF Ordered
<1>7. CASE \E k \in DOMAIN ranked : ranked[k] = i
  <2>1. PICK k \in DOMAIN ranked : ranked[k] = i BY <1>7
  <2>2. k < next BY <1>2
  <2>3. Passed(k) BY <2>1, <2>2 DEF SelectionInv
  <2>4. rows[i].length # 0
    <3>1. RowsTyped BY DEF SelectionInv, SelectionTyped
    <3>2. rows[i].length \in Nat BY <1>4, <3>1, TotalsAreIntegers
    <3> QED BY <1>3, <3>2
  <2>5. RankedBefore(j, k) BY <1>3, <2>1, <2>3, <2>4 DEF Passed
  <2>6. PICK m \in DOMAIN ranked : m < k /\ ranked[m] = j BY <2>5 DEF RankedBefore
  <2> QED BY <1>2, <1>4, <2>1, <2>6 DEF Ordered
<1> QED BY <1>6, <1>7

(* Nothing is left out for something that scores less, or the same and is  *)
(* older, whatever the scores (Select and ApplyEvidenceBudget).            *)
THEOREM TheBestAreChosen == SelectSpec => []BestAreChosen
<1>1. SelectionInv => BestAreChosen
  <2> SUFFICES ASSUME SelectionInv, Done, NEW i \in Eligible \ Chosen, NEW j \in Chosen
               PROVE  \/ Total(rows[i]) < Total(rows[j])
                      \/ Total(rows[i]) = Total(rows[j]) /\ rows[i].day <= rows[j].day
    BY DEF BestAreChosen
  <2>1. Precedes(j, i) /\ i \in DOMAIN rows /\ j \in DOMAIN rows BY LeftOutLast
  <2>2. RowsTyped BY DEF SelectionInv, SelectionTyped
  <2>3. /\ Total(rows[i]) \in Int /\ Total(rows[j]) \in Int
        /\ rows[i].day \in Nat /\ rows[j].day \in Nat
    BY <2>1, <2>2, TotalsAreIntegers
  <2> QED BY <2>1, <2>3 DEF Precedes
<1> QED BY <1>1, SelectionInvariance, PTL

(* Few candidates whose evidence leaves the least that packing goes on for *)
(* are all chosen: neither the limit nor the budget drops any of them.     *)
THEOREM AllAreChosen == SelectSpec => []AllChosenWhenTheyFit
<1>1. SelectionInv => AllChosenWhenTheyFit
  <2> SUFFICES ASSUME SelectionInv, Done,
                      Cardinality({i \in DOMAIN rows : Total(rows[i]) >= 0}) <= Limit,
                      MapThenSumSet(Wanted, Eligible) <= Budget - Least,
                      NEW i \in Eligible, i \notin Chosen
               PROVE  FALSE
    BY DEF AllChosenWhenTheyFit
  <2>1. Cardinality(Survivors) <= Limit
    <3>1. Survivors = {x \in DOMAIN rows : Total(rows[x]) >= 0} BY DEF Survivors, Survives
    <3> QED BY <3>1
  <2>2. next # 0
    <3>1. SUFFICES ASSUME next = 0 PROVE FALSE OBVIOUS
    <3>2. Len(ranked) = 0 BY <3>1 DEF SelectionInv, RankedWell
    <3> QED BY <3>1, <3>2 DEF Done
  <2>3. /\ Ordered(ranked) /\ DOMAIN ranked = 1..Len(ranked) /\ Len(ranked) \in Nat
        /\ next = Len(ranked) + 1
    BY <2>2, RanksTyped DEF Done
  <2>4. i \in Survivors /\ rows[i].length > 0 BY DEF Eligible, Survivors, Survives
  <2>5. PICK k \in DOMAIN ranked : ranked[k] = i BY <2>1, <2>3, <2>4 DEF Ordered
  <2>6. Passed(k)
    <3>1. k < next BY <2>3
    <3> QED BY <3>1 DEF SelectionInv
  <2>7. RowsTyped /\ remaining \in Nat BY DEF SelectionInv, SelectionTyped
  <2>8. remaining < Least
    <3>1. rows[i].length \in Nat BY <2>4, <2>7, TotalsAreIntegers, SurvivorsAreFinite
    <3> QED BY <2>4, <2>5, <2>6, <3>1 DEF Passed
  <2>9. PICK U, C, E, w :
          U = DOMAIN rows /\ C = Chosen /\ E = Eligible /\ w = WantedOf(rows)
    OBVIOUS
  <2>10. IsFiniteSet(U) /\ C \in SUBSET U /\ \A x \in U : w[x] \in Nat /\ w[x] \in Int
    BY <2>9, ChosenAre
  <2>11. E \in SUBSET U /\ C \in SUBSET E
    <3>1. \A q \in DOMAIN packed : KeptWell(packed[q]) BY DEF SelectionInv, PackedWell
    <3>2. \A x \in Chosen : x \in Survivors /\ rows[x].length > 0 BY <3>1 DEF Chosen, KeptWell
    <3> QED BY <2>9, <3>2 DEF Eligible, Survivors, Survives
  <2>12. SumOver(w, C) <= SumOver(w, E) BY <2>10, <2>11, SumGrows
  <2>13. SumOver(w, C) \in Int /\ SumOver(w, E) \in Int BY <2>10, <2>11, SumAdds
  <2>14. MapThenSumSet(Wanted, E) = SumOver(w, E)
    <3>1. IsFiniteSet(E) BY <2>10, <2>11, FS_Subset
    <3>2. E \in SUBSET DOMAIN rows /\ \A x \in E : WantedOf(rows)[x] \in Int
      BY <2>9, <2>10, <2>11
    <3> QED BY <2>9, <3>1, <3>2, WantedSumIs
  <2>15. SumOver(w, E) <= Budget - Least BY <2>9, <2>14
  <2>16. remaining + SumOver(w, C) >= Budget BY <2>9 DEF SelectionInv, Spent
  <2> QED BY <2>7, <2>8, <2>12, <2>13, <2>15, <2>16
<1> QED BY <1>1, SelectionInvariance, PTL
=============================================================================
