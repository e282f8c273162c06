----------------------------- MODULE Publication -----------------------------
(***************************************************************************)
(* What a reader of briefings may rely on, without queries, a model,       *)
(* transactions and failures: a briefing appears at once and never         *)
(* changes; the artifacts it was made from were shown with the text they   *)
(* had then, each once; its items say nothing but of them, and a verified  *)
(* one says what was there; it names threads that know its artifacts; and  *)
(* an artifact is marked with a briefing only when that is there.          *)
(***************************************************************************)
CONSTANTS Artifact, Request, Thread, Text, NoText, Says, NoRequest, NoThread

VARIABLES
  text,       \* what is known of each artifact
  members,    \* pairs of a thread and an artifact
  shown,      \* what each request has shown to the model
  published,  \* the items of each briefing that is there
  marked      \* the briefing each artifact was last used for

vars == <<text, members, shown, published, marked>>

Init ==
  /\ text \in [Artifact -> Text \cup {NoText}]
  /\ members = {}
  /\ shown = [r \in Request |-> {}]
  /\ published = <<>>
  /\ marked = [a \in Artifact |-> NoRequest]

(* Artifacts are extracted, again or for the first time. *)
Extract ==
  /\ text' \in [Artifact -> Text \cup {NoText}]
  /\ \A a \in Artifact : text[a] # NoText => text'[a] # NoText
  /\ UNCHANGED <<members, shown, published, marked>>

Join ==
  /\ members \subseteq members' /\ members' \subseteq Thread \X Artifact
  /\ UNCHANGED <<text, shown, published, marked>>

Artifacts(candidates) == {c.art : c \in candidates}

Show(r, a) ==
  /\ r \notin DOMAIN published
  /\ text[a] # NoText
  /\ a \notin Artifacts(shown[r])
  /\ shown' = [shown EXCEPT ![r] = @ \cup {[art |-> a, text |-> text[a]]}]
  /\ UNCHANGED <<text, members, published, marked>>

Grounded(item, candidates) ==
  /\ item.ids # {} /\ item.ids \subseteq Artifacts(candidates)
  /\ \A s \in item.snippets : s.art \in item.ids
  /\ item.status = "verified" =>
       /\ item.snippets # {}
       /\ \A s \in item.snippets : \E c \in candidates : c.art = s.art /\ s.quote \in Says[c.text]
  /\ item.thread # NoThread => \E a \in item.ids : <<item.thread, a>> \in members

Publish(r) ==
  /\ r \notin DOMAIN published
  /\ DOMAIN published' = DOMAIN published \cup {r}
  /\ \A q \in DOMAIN published : published'[q] = published[q]
  /\ \A item \in published'[r] : Grounded(item, shown[r])
  /\ UNCHANGED <<text, members, shown, marked>>

Mark(r, a) ==
  /\ r \in DOMAIN published
  /\ a \in Artifacts(shown[r])
  /\ marked' = [marked EXCEPT ![a] = r]
  /\ UNCHANGED <<text, members, shown, published>>

Next ==
  \/ Extract \/ Join
  \/ \E r \in Request : \/ Publish(r)
                        \/ \E a \in Artifact : Show(r, a) \/ Mark(r, a)

Spec == Init /\ [][Next]_vars

=============================================================================
