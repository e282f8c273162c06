---------------------------- MODULE MCSelection ----------------------------
(* Instances of Selection for TLC. *)
EXTENDS Selection

Plain == [type |-> "text", money |-> FALSE, action |-> FALSE, household |-> FALSE,
          date |-> FALSE, genericName |-> FALSE, newsletter |-> FALSE, class |-> "other",
          facts |-> {}, related |-> FALSE, briefed |-> FALSE]

Bill == [Plain EXCEPT !.type = "pdf", !.money = TRUE, !.date = TRUE,
                      !.class = "bill_statement",
                      !.facts = {[type |-> "payment_status", value |-> "payment_due"]}]
Slip == [Plain EXCEPT !.money = TRUE]
Promo == [Plain EXCEPT !.newsletter = TRUE, !.class = "newsletter_promo"]

MCProfile == {Bill, Slip, Promo}
=============================================================================
