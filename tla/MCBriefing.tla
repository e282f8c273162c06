----------------------------- MODULE MCBriefing -----------------------------
(* Instances of Briefing for TLC. *)
EXTENDS Briefing, TLC

CONSTANTS a1, a2, bill, form, promo, q1, q2

MCText == {bill, form, promo}
MCSays == (bill :> {q1}) @@ (form :> {q2}) @@ (promo :> {})
MCScoring == {bill, form}
MCExtracted == (a1 :> {bill, promo}) @@ (a2 :> {form})

Snippet(a, q) == [art |-> a, quote |-> q]
Item(ids, snippets) == [wellFormed |-> TRUE, ids |-> ids, snippets |-> snippets]

(* Quoted well or badly, not at all, about strangers, of another artifact, *)
(* in an unknown category.                                                 *)
MCAnswers ==
  { {Item({a1}, {Snippet(a1, q1)}), Item({a2}, {Snippet(a2, q2)})},
    {Item({a1, a2}, {Snippet(a1, q1), Snippet(a2, q1)})},
    {Item({a1}, {Snippet(a1, NoQuote)}), Item({}, {})},
    {Item({a1, Foreign}, {Snippet(a1, q1)}), Item({a1}, {Snippet(a2, q2)})},
    {[Item({a2}, {}) EXCEPT !.wellFormed = FALSE]} }

AnyFault == {"sql", "model", "stop"}

Symmetry == Permutations(Request) \cup Permutations(Thread)
=============================================================================
