----------------------------- MODULE MCThreads -----------------------------
(* Instances of Threads for TLC. *)
EXTENDS Threads, TLC

CONSTANTS a1, a2, a3, a4

Vendor(v) == [type |-> "vendor", value |-> v]
Amount(n) == [type |-> "amount", value |-> n]
Policy == [type |-> "policy_number", value |-> "P1"]

(* Two bills of one vendor, another vendor's receipt that names the policy *)
(* of the second bill, and a newsletter of the first vendor.               *)
MCFacts == (a1 :> {Vendor("verizon"), Amount(1)})
             @@ (a2 :> {Vendor("verizon"), Amount(2), Policy})
             @@ (a3 :> {Vendor("acme"), Policy})
             @@ (a4 :> {Vendor("verizon")})
MCClassOf == (a1 :> "bill_statement") @@ (a2 :> "bill_statement")
               @@ (a3 :> "receipt_purchase") @@ (a4 :> "newsletter_promo")
MCEventDay == (a1 :> 0) @@ (a2 :> 70) @@ (a3 :> 14) @@ (a4 :> 5)

Symmetry == Permutations(Worker)
=============================================================================
