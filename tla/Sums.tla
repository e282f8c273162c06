-------------------------------- MODULE Sums --------------------------------
(***************************************************************************)
(* Lemmas about the sums of the models, MapThenSumSet of FiniteSetsExt,    *)
(* the greatest of finitely many integers and the image of a finite set.   *)
(***************************************************************************)
EXTENDS Integers, FiniteSets, FiniteSetsExt, FiniteSetTheorems, TLAPS

(***************************************************************************)
(* Sums over finite sets.  MapThenSumSet takes the elements in the order   *)
(* of CHOOSE; a function on the subsets that adds the weight of each new   *)
(* element, whichever comes last, exists and is what MapThenSumSet sums.   *)
(***************************************************************************)
Additive(g, w, U) ==
  /\ g \in [SUBSET U -> Int]
  /\ g[{}] = 0
  /\ \A s \in SUBSET U : \A x \in U \ s : g[s \cup {x}] = w[x] + g[s]

Folds(f, w, S) ==
  f = [s \in SUBSET S |->
         IF s = {} THEN 0 ELSE w[CHOOSE x \in s : TRUE] + f[s \ {CHOOSE x \in s : TRUE}]]

Part(g, S) == [s \in SUBSET S |-> g[s]]

(* Of the subsets that lack a property one is minimal. *)
LEMMA MinimalSubset ==
  ASSUME NEW U, IsFiniteSet(U), NEW T \in SUBSET SUBSET U, T # {}
  PROVE  \E s \in T : \A r \in SUBSET s : r # s => r \notin T
<1>1. FiniteSubsetsOf(U) = SUBSET U BY FS_FiniteSubsetsOfFinite
<1>2. IsWellFoundedOn(StrictSubsetOrdering(U), SUBSET U)
  BY <1>1, FS_StrictSubsetOrderingWellFounded
<1>3. PICK s \in T : \A r \in T : <<r, s>> \notin StrictSubsetOrdering(U)
  BY <1>2, WFMin
<1>4. ASSUME NEW r \in SUBSET s, r # s, r \in T PROVE FALSE
  <2>1. <<r, s>> \in StrictSubsetOrdering(U) BY <1>4 DEF StrictSubsetOrdering
  <2> QED BY <1>3, <1>4, <2>1
<1> QED BY <1>3, <1>4

LEMMA AdditiveExists ==
  ASSUME NEW U, IsFiniteSet(U), NEW w, \A x \in U : w[x] \in Int
  PROVE  \E g : Additive(g, w, U)
<1>0. PICK T : T = {V \in SUBSET U : ~ \E g : Additive(g, w, V)} OBVIOUS
<1> SUFFICES ASSUME T # {} PROVE FALSE BY <1>0
<1>1. PICK V \in T : V \in SUBSET U /\ \A r \in SUBSET V : r # V => \E g : Additive(g, w, r)
  <2>1. T \in SUBSET SUBSET U BY <1>0
  <2>2. PICK V \in T : \A r \in SUBSET V : r # V => r \notin T BY <2>1, MinimalSubset
  <2> QED BY <1>0, <2>2
<1>2. CASE V = {}
  <2>1. Additive([s \in SUBSET V |-> 0], w, V) BY <1>2 DEF Additive
  <2> QED BY <1>0, <2>1
<1>3. CASE V # {}
  <2>1. PICK y \in V : TRUE BY <1>3
  <2>2. PICK W : W = V \ {y} OBVIOUS
  <2>3. W \in SUBSET V /\ W # V /\ V \in SUBSET U BY <1>1, <2>1, <2>2
  <2>4. PICK h : Additive(h, w, W) BY <1>1, <2>3
  <2>5. PICK g : g = [s \in SUBSET V |-> IF y \in s THEN h[s \ {y}] + w[y] ELSE h[s]] OBVIOUS
  <2>6. h \in [SUBSET W -> Int] /\ w[y] \in Int BY <2>1, <2>3, <2>4 DEF Additive
  <2>7. \A s \in SUBSET V : s \ {y} \in SUBSET W /\ (y \notin s => s \in SUBSET W) BY <2>2
  <2>8. g \in [SUBSET V -> Int] BY <2>5, <2>6, <2>7
  <2>9. g[{}] = 0 BY <2>4, <2>5 DEF Additive
  <2>10. ASSUME NEW s \in SUBSET V, NEW x \in V \ s PROVE g[s \cup {x}] = w[x] + g[s]
    <3>1. CASE x = y
      <4>1. (s \cup {x}) \ {y} = s /\ y \in s \cup {x} /\ s \cup {x} \in SUBSET V BY <3>1
      <4>2. g[s \cup {x}] = h[s] + w[y] /\ g[s] = h[s] BY <2>5, <3>1, <4>1
      <4>3. h[s] \in Int BY <2>6, <2>7, <3>1
      <4> QED BY <2>6, <3>1, <4>2, <4>3
    <3>2. CASE x # y
      <4>1. s \cup {x} \in SUBSET V /\ (y \in s \cup {x} <=> y \in s) BY <3>2
      <4>2. CASE y \in s
        <5>1. (s \cup {x}) \ {y} = (s \ {y}) \cup {x} BY <3>2
        <5>2. s \ {y} \in SUBSET W /\ x \in W \ (s \ {y}) BY <2>2, <3>2
        <5>3. h[(s \ {y}) \cup {x}] = w[x] + h[s \ {y}] BY <2>4, <5>2 DEF Additive
        <5>4. g[s] = h[s \ {y}] + w[y] /\ g[s \cup {x}] = h[(s \ {y}) \cup {x}] + w[y]
          BY <2>5, <4>1, <4>2, <5>1
        <5>5. h[s \ {y}] \in Int /\ w[x] \in Int BY <2>3, <2>6, <5>2
        <5> QED BY <2>6, <5>3, <5>4, <5>5
      <4>3. CASE y \notin s
        <5>1. s \in SUBSET W /\ x \in W \ s BY <2>2, <3>2, <4>3
        <5>2. h[s \cup {x}] = w[x] + h[s] BY <2>4, <5>1 DEF Additive
        <5> QED BY <2>5, <4>1, <4>3, <5>2
      <4> QED BY <4>2, <4>3
    <3> QED BY <3>1, <3>2
  <2>11. Additive(g, w, V) BY <2>8, <2>9, <2>10 DEF Additive
  <2> QED BY <1>0, <2>11
<1> QED BY <1>2, <1>3

(* On the subsets of a part it is the only function that folds. *)
LEMMA FoldsOnlyTo ==
  ASSUME NEW U, IsFiniteSet(U), NEW w, NEW g, Additive(g, w, U), NEW S \in SUBSET U,
         NEW f
  PROVE  Folds(f, w, S) <=> f = Part(g, S)
<1>1. ASSUME NEW s \in SUBSET S, s # {},
                    NEW x, x = CHOOSE y \in s : TRUE
      PROVE  x \in s /\ s \ {x} \in SUBSET S /\ g[s] = w[x] + g[s \ {x}]
  <2>2. x \in s BY <1>1
  <2>3. s \ {x} \in SUBSET U /\ x \in U \ (s \ {x}) /\ (s \ {x}) \cup {x} = s BY <2>2
  <2>4. g[s] = w[x] + g[s \ {x}] BY <2>3 DEF Additive
  <2> QED BY <2>2, <2>3, <2>4
<1>2. ASSUME f = Part(g, S) PROVE Folds(f, w, S)
  <2>1. \A s \in SUBSET S : s # {} =>
          g[s] = w[CHOOSE x \in s : TRUE] + f[s \ {CHOOSE x \in s : TRUE}]
    BY <1>1, <1>2 DEF Part
  <2>2. g[{}] = 0 BY DEF Additive
  <2> QED BY <1>2, <2>1, <2>2 DEF Folds, Part
<1>3. ASSUME Folds(f, w, S) PROVE f = Part(g, S)
  <2>0. PICK T : T = {s \in SUBSET S : f[s] # g[s]} OBVIOUS
  <2>1. f = [s \in SUBSET S |-> f[s]] BY <1>3 DEF Folds
  <2>2. SUFFICES ASSUME T # {} PROVE FALSE BY <2>0, <2>1 DEF Part
  <2>3. IsFiniteSet(S) /\ T \in SUBSET SUBSET S BY <2>0, FS_Subset
  <2>4. PICK s \in T : \A r \in SUBSET s : r # s => r \notin T BY <2>2, <2>3, MinimalSubset
  <2>7. s \in SUBSET S /\ f[s] # g[s] /\ \A r \in SUBSET s : r # s => f[r] = g[r]
    BY <2>0, <2>4
  <2>5. CASE s = {} BY <1>3, <2>5, <2>7 DEF Folds, Additive
  <2>6. CASE s # {}
    <3>1. PICK x : x = CHOOSE y \in s : TRUE OBVIOUS
    <3>2. x \in s /\ s \ {x} \in SUBSET S /\ g[s] = w[x] + g[s \ {x}] BY <1>1, <2>6, <2>7, <3>1
    <3>3. f[s] = w[x] + f[s \ {x}] BY <1>3, <2>6, <2>7, <3>1 DEF Folds
    <3>4. s \ {x} \in SUBSET s /\ s \ {x} # s BY <3>2
    <3>5. f[s \ {x}] = g[s \ {x}] BY <2>7, <3>2, <3>4
    <3> QED BY <2>7, <3>2, <3>3, <3>5
  <2> QED BY <2>5, <2>6
<1> QED BY <1>2, <1>3

LEMMA AdditiveGrows ==
  ASSUME NEW U, IsFiniteSet(U), NEW w, NEW g, Additive(g, w, U), \A x \in U : w[x] \in Nat,
         NEW S \in SUBSET U, NEW R \in SUBSET S
  PROVE  g[R] <= g[S]
<1>0. PICK T : T = {s \in SUBSET S : R \subseteq s /\ ~(g[R] <= g[s])} OBVIOUS
<1> SUFFICES ASSUME T # {} PROVE FALSE BY <1>0
<1>1. IsFiniteSet(S) /\ T \in SUBSET SUBSET S BY <1>0, FS_Subset
<1>2. PICK s \in SUBSET S : /\ R \subseteq s /\ ~(g[R] <= g[s])
                           /\ \A r \in SUBSET s : r # s /\ R \subseteq r => g[R] <= g[r]
  <2>1. PICK s \in T : \A r \in SUBSET s : r # s => r \notin T BY <1>1, MinimalSubset
  <2> QED BY <1>0, <2>1
<1>3. g[R] \in Int /\ g[s] \in Int BY <1>2 DEF Additive
<1>4. PICK x \in s : x \notin R
  <2>1. R # s BY <1>2, <1>3
  <2> QED BY <1>2, <2>1
<1>5. PICK r : r = s \ {x} OBVIOUS
<1>6. r \in SUBSET U /\ x \in U \ r /\ r \cup {x} = s /\ R \subseteq r /\ r \in SUBSET s /\ r # s
  BY <1>2, <1>4, <1>5
<1>7. g[s] = w[x] + g[r] /\ g[r] \in Int /\ w[x] \in Nat BY <1>6 DEF Additive
<1>8. g[R] <= g[r] BY <1>2, <1>6
<1> QED BY <1>2, <1>3, <1>7, <1>8

(* A sum of the values of a function. *)
SumOver(w, S) == MapThenSumSet(LAMBDA x : w[x], S)

LEMMA FoldOf ==
  ASSUME NEW w, NEW S
  PROVE  SumOver(w, S) = (CHOOSE f : Folds(f, w, S))[S]
BY DEF SumOver, MapThenSumSet, MapThenFoldSet, Folds

LEMMA SumIs ==
  ASSUME NEW U, IsFiniteSet(U), NEW w, NEW g, Additive(g, w, U), NEW S \in SUBSET U
  PROVE  SumOver(w, S) = g[S]
<1>1. \A f : Folds(f, w, S) <=> f = Part(g, S) BY FoldsOnlyTo
<1> QED BY <1>1, FoldOf DEF Part

LEMMA SumAdds ==
  ASSUME NEW U, IsFiniteSet(U), NEW w, \A x \in U : w[x] \in Int, NEW S \in SUBSET U
  PROVE  /\ SumOver(w, {}) = 0
         /\ SumOver(w, S) \in Int
         /\ \A x \in U \ S : SumOver(w, S \cup {x}) = SumOver(w, S) + w[x]
<1>1. PICK g : Additive(g, w, U) BY AdditiveExists
<1>2. ASSUME NEW R \in SUBSET U PROVE SumOver(w, R) = g[R] /\ g[R] \in Int
  <2>1. SumOver(w, R) = g[R] BY <1>1, SumIs
  <2> QED BY <1>1, <2>1 DEF Additive
<1>3. SumOver(w, {}) = 0 BY <1>1, <1>2 DEF Additive
<1>4. ASSUME NEW x \in U \ S PROVE SumOver(w, S \cup {x}) = SumOver(w, S) + w[x]
  <2>1. S \cup {x} \in SUBSET U BY <1>4
  <2>2. g[S \cup {x}] = w[x] + g[S] BY <1>1 DEF Additive
  <2>3. w[x] \in Int BY <1>4
  <2> QED BY <1>2, <2>1, <2>2, <2>3
<1> QED BY <1>2, <1>3, <1>4

LEMMA SumGrows ==
  ASSUME NEW U, IsFiniteSet(U), NEW w, \A x \in U : w[x] \in Nat,
         NEW S \in SUBSET U, NEW R \in SUBSET S
  PROVE  SumOver(w, R) <= SumOver(w, S)
<1>1. PICK g : Additive(g, w, U) BY AdditiveExists
<1>2. SumOver(w, S) = g[S] BY <1>1, SumIs
<1>3. SumOver(w, R) = g[R]
  <2>1. R \in SUBSET U OBVIOUS
  <2> QED BY <1>1, <2>1, SumIs
<1> QED BY <1>1, <1>2, <1>3, AdditiveGrows

LEMMA FoldsToOne ==
  ASSUME NEW S, IsFiniteSet(S), NEW w, \A x \in S : w[x] \in Int
  PROVE  \E g : SumOver(w, S) = g[S] /\ \A f : Folds(f, w, S) <=> f = Part(g, S)
<1>1. PICK g : Additive(g, w, S) BY AdditiveExists
<1>2. S \in SUBSET S OBVIOUS
<1> QED BY <1>1, <1>2, SumIs, FoldsOnlyTo

(* What a function makes of finitely many is finite. *)
LEMMA ImageIsFinite ==
  ASSUME NEW S, IsFiniteSet(S), NEW f, DOMAIN f = S
  PROVE  IsFiniteSet({f[x] : x \in S})
<1>1. PICK g : g = [x \in S |-> f[x]] OBVIOUS
<1>2. g \in Surjection(S, {f[x] : x \in S}) BY <1>1 DEF Surjection
<1> QED BY <1>2, FS_Surjection

(* Finitely many things that are measured by integers have a greatest one. *)
LEMMA GreatestExists ==
  ASSUME NEW S, IsFiniteSet(S), S # {}, NEW w, \A x \in S : w[x] \in Int
  PROVE  \E x \in S : \A y \in S : w[y] <= w[x]
<1>0. PICK T : T = {V \in SUBSET S : V # {} /\ ~ \E x \in V : \A y \in V : w[y] <= w[x]} OBVIOUS
<1> SUFFICES ASSUME T # {} PROVE FALSE BY <1>0
<1>1. T \in SUBSET SUBSET S BY <1>0
<1>2. PICK V \in T : \A r \in SUBSET V : r # V => r \notin T BY <1>1, MinimalSubset
<1>3. V \in SUBSET S /\ V # {} /\ ~ \E x \in V : \A y \in V : w[y] <= w[x] BY <1>0
<1>4. PICK x \in V : TRUE BY <1>3
<1>5. PICK r : r = V \ {x} OBVIOUS
<1>6. r \in SUBSET S /\ r \in SUBSET V /\ r # V /\ \A y \in V : y = x \/ y \in r BY <1>3, <1>4, <1>5
<1>7. CASE r = {} BY <1>3, <1>4, <1>6, <1>7
<1>8. CASE r # {}
  <2>1. PICK z \in r : \A y \in r : w[y] <= w[z] BY <1>0, <1>2, <1>6, <1>8
  <2>2. w[x] \in Int /\ w[z] \in Int /\ x \in V /\ z \in V /\ \A y \in r : w[y] \in Int
    BY <1>3, <1>4, <1>6
  <2>3. CASE w[z] <= w[x]
    <3>1. \A y \in V : w[y] <= w[x] BY <1>6, <2>1, <2>2, <2>3
    <3> QED BY <1>3, <2>2, <3>1
  <2>4. CASE w[x] <= w[z] BY <1>3, <1>6, <2>1, <2>2, <2>4
  <2> QED BY <2>2, <2>3, <2>4
<1> QED BY <1>7, <1>8

=============================================================================
