----------------------------- MODULE MCPipeline -----------------------------
(* Instances of Pipeline for TLC: two bills of one vendor that are         *)
(* processed after a third; the extraction of the first may be blank.      *)
EXTENDS Pipeline, TLC

CONSTANTS a0, a1, a2, march, april, may, blank, bytes

MCText == {march, april, may, blank}
MCContentHash == [a \in Artifact |-> IF a = a0 THEN march ELSE bytes]
MCFirstVaries == (a0 :> {march}) @@ (a1 :> {april, blank}) @@ (a2 :> {may})
MCClassOf == [t \in MCText |-> IF t = blank THEN "generic_document" ELSE "bill_statement"]

MCFactType == {"vendor", "amount", "document_title"}
MCTitleOf == (a0 :> NoTitle) @@ (a1 :> "april.pdf") @@ (a2 :> NoTitle)
MCNormalize == [v \in {"verizon", "10", "20", "april.pdf"} |-> v]
                 @@ ("Verizon" :> "verizon")

Match(type, value) == [type |-> type, value |-> value, confidence |-> 80]

MCRuleMatches ==
  (april :> <<Match("amount", "10"), Match("vendor", "Verizon"), Match("amount", "10")>>)
    @@ (may :> <<Match("amount", "20")>>) @@ (march :> <<>>) @@ (blank :> <<>>)

Generated(a, type, value, ev, quoted, confidence) ==
  [artifact |-> a, type |-> type, value |-> value, ev |-> ev, quoted |-> quoted,
   sound |-> TRUE, confidence |-> confidence]

(* A vendor by its quote, in two spellings and twice with other confidence; *)
(* a quote and an id that are nowhere, another artifact, an unknown type.   *)
MCModelAnswers ==
  [e \in Artifact \X MCText |->
     {<<>>,
      <<Generated(e[1], "vendor", "Verizon", <<a1, may>>, {}, 90),
        Generated(NoArtifact, "vendor", "Verizon", NoEvidence, {e}, 70),
        Generated(e[1], "vendor", "verizon", e, {}, 90),
        Generated(e[1], "vendor", "Verizon", e, {}, 80),
        Generated(e[1], "amount", "10", NoEvidence, {}, 90),
        Generated(e[1], "amount", "10", <<a2, april>>, {e}, 90),
        Generated(IF e[1] = a1 THEN a2 ELSE a1, "amount", "10", e, {e}, 90),
        Generated(e[1], "amount", "10", e, {e}, 101),
        Generated(e[1], "rumour", "10", e, {e}, 90)>>}]

(* States a0 leaves behind, which was processed before the others: it has  *)
(* not the vendor the others may share, so that the LIMITs just suffice, or *)
(* it has, and they do not.  In that case the first attempt of a1 erred in  *)
(* persistExtraction, which changed nothing but its job.                    *)
MCInit ==
  LET ev == <<a0, march>>
      request == [artifact |-> a0, title |-> TitleOf[a0], evidence |-> <<ev>>]
  IN  \E answer \in ModelAnswers[ev] :
        /\ job = (a0 :> "succeeded") @@ (a1 :> IF answer = <<>> THEN "queued" ELSE "failed")
                   @@ (a2 :> "queued")
        /\ attempts = (a0 :> 1) @@ (a1 :> IF answer = <<>> THEN 0 ELSE 1) @@ (a2 :> 0)
        /\ work = [w \in Worker |-> Free]
        /\ text = [a \in Artifact |-> IF a = a0 THEN march ELSE NoText]
        /\ evidence = {ev}
        /\ class = [a \in Artifact |->
                      IF a = a0 THEN [class |-> ClassOf[march], ev |-> ev] ELSE Unclassified]
        /\ facts = [a \in Artifact |->
                      IF a = a0 THEN Fields!ExtractFacts(answer, request) ELSE {}]
        /\ relations = {}
        /\ stage = [a \in Artifact |->
                      [s \in Stages |-> IF a = a0 THEN "succeeded" ELSE "none"]]

MCSpec == MCInit /\ [][Next]_vars

SqlFault == {"sql"}
AnyFault == {"sql", "reasoner", "stop"}

Symmetry == Permutations(Worker)
=============================================================================
