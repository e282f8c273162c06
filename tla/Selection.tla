------------------------------ MODULE Selection ------------------------------
(***************************************************************************)
(* How a briefing's candidates are chosen (internal/actionitems/           *)
(* selector.go): artifacts of the period are scored by rules, those below  *)
(* zero are left out, the best Limit are kept, and their evidence is       *)
(* packed into a budget of characters.  Evidence is known by its length.   *)
(***************************************************************************)
EXTENDS Integers, Sequences, FiniteSets, FiniteSetsExt

CONSTANTS
  Profile,             \* what the rules see of an artifact (records)
  Lengths,             \* lengths its evidence may have, without outer blanks
  Day,                 \* days of the period
  MaxRows,             \* bound: artifacts of the period
  Limit,               \* Selector.Limit, 40 in the server
  Budget,              \* Selector.EvidenceBudget, 32000 characters
  CandidateCharLimit,  \* 4000 characters
  Least,               \* packing stops when less than this is left: 200
  Mark,                \* characters given up for the truncation mark: 16
  Note,                \* length of the mark itself: 12
  MaxBlanks,           \* bound: blanks before the cut
  Substantial          \* length of a substantial text: 80

ASSUME LimitAssumption == Limit \in Nat \ {0}
ASSUME LengthAssumption ==
  /\ Lengths \subseteq Nat
  /\ {Budget, CandidateCharLimit, Least} \subseteq Nat \ {0}
  /\ {Mark, Note, MaxBlanks, Substantial} \subseteq Nat
  /\ Note <= Mark
  /\ Least <= CandidateCharLimit
ASSUME ProfileAssumption == \A p \in Profile : IsFiniteSet(p.facts)
ASSUME DayAssumption == Day \subseteq Nat

VARIABLES
  rows,       \* the artifacts of the period, newest first
  ranked,     \* the candidates by rank: positions in rows
  next,       \* the rank to be packed next, 0 before there are ranks
  remaining,  \* characters left of the budget
  packed      \* the candidates that were packed and what they kept

selection == <<rows, ranked, next, remaining, packed>>

-----------------------------------------------------------------------------
(* Scoring *)

Points(signal, n) == IF signal THEN n ELSE 0

(* Score: words in the title and the text.                                 *)
Score(p, length) ==
    Points(length >= Substantial, 3)
  + Points(p.money, 4)
  + Points(p.action, 5)
  + Points(p.household, 3)
  + Points(p.date, 3)
  + Points(p.type = "pdf", 2)
  + Points(p.type = "image" /\ length >= Substantial, 2)
  - Points(length < Substantial /\ ~p.date, 4)
  - Points(p.type = "image" /\ p.genericName /\ ~p.action, 4)
  - Points(p.newsletter, 6)

ClassPoints(class) ==
  CASE class = "newsletter_promo" -> -6
    [] class \in {"bill_statement", "school_family", "medical_health",
                  "insurance_vehicle", "tax_finance", "travel_event"} -> 4
    [] class \in {"receipt_purchase", "identity_legal"} -> 2
    [] OTHER -> 0

FactPoints(f) ==
  CASE f.type \in {"due_date", "requested_action", "appointment", "amount_due"} -> 5
    [] f.type = "payment_status" /\ f.value = "payment_due" -> 6
    [] f.type = "payment_status" /\ f.value = "paid"        -> -6
    [] f.type = "is_payment_due" /\ f.value = "true"        -> 6
    [] f.type = "is_payment_due" /\ f.value = "false"       -> -6
    [] f.type = "document_type" /\ f.value = "receipt"      -> -3
    [] f.type = "amount_paid"                               -> -2
    [] f.type \in {"policy_number", "account_number"}       -> 3
    [] f.type = "document_title"                            -> 1
    [] OTHER                                                -> 0

(* StructuredScore: what the pipeline found out. *)
StructuredScore(p) ==
    ClassPoints(p.class)
  + MapThenSumSet(FactPoints, p.facts)
  + Points(p.related, 2)
  - Points(p.briefed, 1)

Total(row) == Score(row.profile, row.length) + StructuredScore(row.profile)

-----------------------------------------------------------------------------
Row == [profile : Profile, length : Lengths, day : Day]

(* ORDER BY a.event_at DESC *)
NewestFirst(s) == \A i, j \in DOMAIN s : i < j => s[j].day <= s[i].day

SelectInit ==
  /\ rows \in {s \in UNION {[1..n -> Row] : n \in 0..MaxRows} : NewestFirst(s)}
  /\ ranked = <<>>
  /\ next = 0
  /\ remaining = Budget
  /\ packed = <<>>

(* Mutant of Survives: a score of zero is too low. *)
SurvivesPositive(i) == Total(rows[i]) > 0

(* Mutant of Precedes: of equally good candidates the oldest comes first. *)
PrecedesOldest(i, j) ==
  \/ Total(rows[i]) > Total(rows[j])
  \/ Total(rows[i]) = Total(rows[j]) /\ i > j

(* "if raw.Score >= 0" *)
Survives(i) == Total(rows[i]) >= 0
Survivors == {i \in DOMAIN rows : Survives(i)}

(* The order of the stable sort: better score, then later, then as it was. *)
Precedes(i, j) ==
  \/ Total(rows[i]) > Total(rows[j])
  \/ Total(rows[i]) = Total(rows[j]) /\ rows[i].day > rows[j].day
  \/ Total(rows[i]) = Total(rows[j]) /\ rows[i].day = rows[j].day /\ i < j

(* Select, up to the evidence: the best Limit of the survivors.            *)
Rank ==
  /\ next = 0
  /\ LET n == Cardinality(Survivors)
     IN  ranked' = [k \in 1..(IF n > Limit THEN Limit ELSE n) |->
           CHOOSE i \in Survivors :
             Cardinality({j \in Survivors : Precedes(j, i)}) = k - 1]
  /\ next' = 1
  /\ UNCHANGED <<rows, remaining, packed>>

(* truncateRunes: the lengths it may leave; blanks before the cut go too.  *)
truncateRunes(length, limit) ==
  IF length <= limit THEN {length}
  ELSE IF limit <= Mark THEN {limit}
  ELSE {n \in {limit - Mark - blanks + Note : blanks \in 0..MaxBlanks} : n > Note}

(* Mutant of Room: what is left of the budget is forgotten. *)
RoomOfCandidate(left) == CandidateCharLimit

Room(left) == IF left < CandidateCharLimit THEN left ELSE CandidateCharLimit

Enough(left) == left >= Least

(* ApplyEvidenceBudget, a turn of its loop: candidates without evidence    *)
(* are passed over.                                                        *)
PassOver ==
  /\ next \in DOMAIN ranked
  /\ Enough(remaining)
  /\ rows[ranked[next]].length = 0
  /\ next' = next + 1
  /\ UNCHANGED <<rows, ranked, remaining, packed>>

Pack ==
  /\ next \in DOMAIN ranked
  /\ Enough(remaining)
  /\ rows[ranked[next]].length > 0
  /\ \E n \in truncateRunes(rows[ranked[next]].length, Room(remaining)) :
       /\ packed' = Append(packed, [row |-> ranked[next], kept |-> n])
       /\ remaining' = remaining - n
  /\ next' = next + 1
  /\ UNCHANGED <<rows, ranked>>

(* The break: too little is left for another candidate. *)
Break ==
  /\ next \in DOMAIN ranked
  /\ ~Enough(remaining)
  /\ next' = Len(ranked) + 1
  /\ UNCHANGED <<rows, ranked, remaining, packed>>

SelectNext == Rank \/ PassOver \/ Pack \/ Break

SelectSpec == SelectInit /\ [][SelectNext]_selection

-----------------------------------------------------------------------------
(* Properties *)

Done == next = Len(ranked) + 1
Chosen == {packed[k].row : k \in DOMAIN packed}
Eligible == {i \in DOMAIN rows : Total(rows[i]) >= 0 /\ rows[i].length > 0}
Wanted(i) == IF rows[i].length < CandidateCharLimit THEN rows[i].length ELSE CandidateCharLimit

(***************************************************************************)
(* What the model is given fits its context: no candidate is longer than   *)
(* its own limit, together they are within the budget (selector_test.go    *)
(* checks one sequence of three equal texts), and none is cut to a stump:  *)
(* it kept its evidence or almost the least that packing goes on for.      *)
(***************************************************************************)
WithinBudget ==
  /\ \A k \in DOMAIN packed : packed[k].kept <= CandidateCharLimit
  /\ MapThenSumSet(LAMBDA k : packed[k].kept, DOMAIN packed) <= Budget
  /\ \A k \in DOMAIN packed :
       \/ packed[k].kept = rows[packed[k].row].length
       \/ packed[k].kept >= Least - (Mark - Note) - MaxBlanks

(* No artifact is left out for one that scores less, or that scores the    *)
(* same and is older.                                                      *)
BestAreChosen ==
  Done => \A i \in Eligible \ Chosen, j \in Chosen :
    \/ Total(rows[i]) < Total(rows[j])
    \/ Total(rows[i]) = Total(rows[j]) /\ rows[i].day <= rows[j].day

(* When they are few enough and their evidence fits, all are chosen that   *)
(* score zero or more.                                                     *)
AllChosenWhenTheyFit ==
  Done /\ Cardinality({i \in DOMAIN rows : Total(rows[i]) >= 0}) <= Limit
       /\ MapThenSumSet(Wanted, Eligible) <= Budget - Least
       => Eligible \subseteq Chosen

=============================================================================
