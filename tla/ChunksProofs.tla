---------------------------- MODULE ChunksProofs ----------------------------
(***************************************************************************)
(* Proofs about ChunkMarkdown, for texts of any length, any target and any *)
(* overlap, also one that is longer than the target.                       *)
(***************************************************************************)
EXTENDS Chunks, WellFoundedInduction, TLAPS

USE SizeAssumption, LevelAssumption

-----------------------------------------------------------------------------
(* The least and the greatest of an interval's elements *)

LEMMA LeastNatural ==
  ASSUME NEW S \in SUBSET Nat, S # {}
  PROVE  \E m \in S : \A n \in S : m <= n
<1>1. PICK m \in S : \A n \in S : ~(<<n, m>> \in OpToRel(<, Nat))
  BY NatLessThanWellFounded, WFMin
<1>2. \A n \in S : ~(n < m) BY <1>1 DEF OpToRel
<1> QED BY <1>2

LEMMA MinIsLeast ==
  ASSUME NEW S \in SUBSET Int, S # {}, NEW a \in Int, \A n \in S : a <= n
  PROVE  Min(S) \in S /\ \A n \in S : Min(S) <= n
<1>1. PICK T : T = {n - a : n \in S} OBVIOUS
<1>2. T \in SUBSET Nat /\ T # {}
  <2>1. \A n \in S : n - a \in Nat OBVIOUS
  <2> QED BY <1>1, <2>1
<1>3. PICK t \in T : \A n \in T : t <= n BY <1>2, LeastNatural
<1>4. PICK m \in S : t = m - a BY <1>1
<1>5. \A n \in S : m =< n BY <1>1, <1>3, <1>4
<1> QED BY <1>5 DEF Min

LEMMA MaxIsGreatest ==
  ASSUME NEW S \in SUBSET Int, S # {}, NEW b \in Int, \A n \in S : n <= b
  PROVE  Max(S) \in S /\ \A n \in S : Max(S) >= n
<1>1. PICK T : T = {b - n : n \in S} OBVIOUS
<1>2. T \in SUBSET Nat /\ T # {}
  <2>1. \A n \in S : b - n \in Nat OBVIOUS
  <2> QED BY <1>1, <2>1
<1>3. PICK t \in T : \A n \in T : t <= n BY <1>2, LeastNatural
<1>4. PICK m \in S : t = b - m BY <1>1
<1>5. \A n \in S : m >= n BY <1>1, <1>3, <1>4
<1> QED BY <1>5 DEF Max

-----------------------------------------------------------------------------
(***************************************************************************)
(* The invariant                                                           *)
(***************************************************************************)
Chunk == [start : Nat, end : Nat, section : Nat, path : [Level -> Int]]

Typed ==
  /\ text \in Seq({"text", "blank", "newline"})
  /\ DOMAIN heads \subseteq 0..(Len(text) - 1)
  /\ \A h \in DOMAIN heads : heads[h] \in Level
  /\ section \in [start : Nat, end : Nat]
  /\ headings \in [Level -> Int]
  /\ start \in Nat
  /\ chunks \in Seq(Chunk)
  /\ section.start <= start /\ start <= section.end /\ section.end <= Len(text)

(* What is not blank and lies before the next window is in a chunk. *)
Holds(c, o) == o \in c.start..(c.end - 1)

Covered(n) == \A o \in 0..(n - 1) : IsText(o) => \E k \in DOMAIN chunks : Holds(chunks[k], o)

(* A section has no heading but at its start, and the headings above it are *)
(* those that enclose its last byte, and so each of its bytes.              *)
NoneInside == \A h \in DOMAIN heads : h <= section.start \/ h >= section.end

Above == \A l \in Level : headings[l] = Enclosing(section.end - 1, l)

Fits(c) == c.end - c.start <= Target

(* How far the last chunk may reach: into the overlap, not over a heading. *)
Reaches(c) ==
  /\ c.section <= c.start /\ c.start < c.end /\ c.end <= section.end
  /\ c.section = section.start => c.end <= start + Overlap
  /\ c.section # section.start => c.end <= section.start

Near(c, d) == c.end - d.start <= (IF d.section = c.section THEN Overlap ELSE 0)

Encloses(c) == \A l \in Level : c.path[l] = Enclosing(c.start, l)

IInv ==
  /\ Typed
  /\ Covered(start)
  /\ NoneInside
  /\ Above
  /\ \A k \in DOMAIN chunks : Fits(chunks[k]) /\ Encloses(chunks[k])
  /\ \A k \in 2..Len(chunks) : Near(chunks[k - 1], chunks[k])
  /\ Len(chunks) > 0 => Reaches(chunks[Len(chunks)])

LEMMA Initially == Init => IInv
<1> SUFFICES ASSUME Init PROVE IInv OBVIOUS
<1>1. PICK n \in 0..MaxLength : text \in [1..n -> {"text", "blank", "newline"}] BY DEF Init
<1>2. text \in Seq({"text", "blank", "newline"}) /\ Len(text) = n /\ n \in Nat BY <1>1
<1>3. PICK H \in SUBSET {o \in 0..(Len(text) - 1) : text[o + 1] = "text" /\ LineStart(text, o)} :
        heads \in [H -> Level]
  BY DEF Init
<1>4. Typed BY <1>2, <1>3 DEF Init, Typed, None
<1>5. Covered(start) BY DEF Init, Covered
<1>6. NoneInside BY <1>2, <1>3 DEF Init, NoneInside
<1>7. Above
  <2>1. \A l \in Level : {h \in DOMAIN heads : h <= -1 /\ heads[h] <= l} = {} BY <1>2, <1>4 DEF Typed
  <2>2. section.end - 1 = -1 BY DEF Init
  <2>3. \A l \in Level : Enclosing(-1, l) = None BY <2>1 DEF Enclosing
  <2> QED BY <2>2, <2>3 DEF Init, Above
<1> QED BY <1>4, <1>5, <1>6, <1>7 DEF Init, IInv

-----------------------------------------------------------------------------
(* What encloses a byte *)

AboveOf(o, l) == {h \in DOMAIN heads : h <= o /\ heads[h] <= l}

LEMMA EnclosingIs ==
  ASSUME NEW o, NEW l
  PROVE  Enclosing(o, l) = IF AboveOf(o, l) # {} /\ heads[Max(AboveOf(o, l))] = l
                           THEN Max(AboveOf(o, l)) ELSE None
BY DEF Enclosing, AboveOf

(* Between headings the same headings enclose. *)
LEMMA SameEnclosing ==
  ASSUME Typed, NEW o \in Int, NEW q \in Int, NEW l \in Level,
         \A h \in DOMAIN heads : h <= o <=> h <= q
  PROVE  Enclosing(o, l) = Enclosing(q, l)
<1>1. AboveOf(o, l) = AboveOf(q, l) BY DEF AboveOf
<1> QED BY <1>1, EnclosingIs

LEMMA AtAHeading ==
  ASSUME Typed, NEW o \in DOMAIN heads, NEW l \in Level
  PROVE  Enclosing(o, l) = IF l < heads[o] THEN Enclosing(o - 1, l)
                           ELSE IF l = heads[o] THEN o ELSE None
<1>1. o \in 0..(Len(text) - 1) /\ heads[o] \in Nat /\ l \in Nat BY DEF Typed
<1>2. CASE l < heads[o]
  <2>1. AboveOf(o, l) = AboveOf(o - 1, l) BY <1>1, <1>2 DEF AboveOf, Typed
  <2> QED BY <1>2, <2>1, EnclosingIs
<1>3. CASE l >= heads[o]
  <2>1. o \in AboveOf(o, l) /\ AboveOf(o, l) \in SUBSET (0..o) BY <1>1, <1>3 DEF AboveOf, Typed
  <2>2. Max(AboveOf(o, l)) = o
    <3>1. PICK S : S = AboveOf(o, l) OBVIOUS
    <3>2. o \in Int /\ o \in S /\ S \in SUBSET Int /\ \A n \in S : n <= o BY <1>1, <2>1, <3>1
    <3>3. Max(S) \in S /\ Max(S) >= o BY <1>1, <3>2, MaxIsGreatest
    <3> QED BY <1>1, <3>1, <3>2, <3>3
  <2> QED BY <1>1, <1>3, <2>1, <2>2, EnclosingIs
<1> QED BY <1>1, <1>2, <1>3

-----------------------------------------------------------------------------
LEMMA SectionEnds ==
  ASSUME Typed, section.end < Len(text)
  PROVE  LET e == SectionEnd(section.end)
         IN  /\ e \in Nat /\ section.end < e /\ e <= Len(text)
             /\ \A h \in DOMAIN heads : h <= section.end \/ h >= e
<1>0. PICK S : S = {h \in DOMAIN heads : h > section.end} \cup {Len(text)} OBVIOUS
<1>1. Len(text) \in Nat /\ section.end \in Nat BY DEF Typed
<1>2. /\ S \in SUBSET Int /\ S # {}
      /\ \A n \in S : section.end + 1 <= n /\ n <= Len(text)
  BY <1>0, <1>1 DEF Typed
<1>3. Min(S) \in S /\ \A n \in S : Min(S) <= n
  <2>1. PICK a \in Int : a = section.end + 1 BY <1>1
  <2>2. \A n \in S : a <= n BY <1>2, <2>1
  <2> QED BY <1>2, <2>2, MinIsLeast
<1>4. SectionEnd(section.end) = Min(S) BY <1>0 DEF SectionEnd
<1>5. PICK e : e = Min(S) OBVIOUS
<1>6. e \in Nat /\ section.end < e /\ e <= Len(text)
  <2>1. e \in S /\ e \in Int BY <1>2, <1>3, <1>5
  <2>2. section.end + 1 <= e /\ e <= Len(text) BY <1>2, <2>1
  <2> QED BY <1>1, <2>1, <2>2
<1>7. ASSUME NEW h \in DOMAIN heads PROVE h <= section.end \/ h >= e
  BY <1>0, <1>1, <1>3, <1>5 DEF Typed
<1> QED BY <1>4, <1>5, <1>6, <1>7

LEMMA NextSectionKeeps ==
  ASSUME IInv, NextSection
  PROVE  IInv'
<1> DEFINE s == section.end  e == SectionEnd(s)
<1>1. Typed /\ s \in Nat /\ start = s BY DEF IInv, Typed, NextSection
<1>2. /\ e \in Nat /\ s < e /\ e <= Len(text)
      /\ \A h \in DOMAIN heads : h <= s \/ h >= e
  BY <1>1, SectionEnds DEF NextSection
<1>3. section' = [start |-> s, end |-> e] BY DEF NextSection
<1>4. UNCHANGED <<text, heads, start, chunks>> BY DEF NextSection
<1> HIDE DEF e
<1>5. headings' \in [Level -> Int]
  BY <1>1 DEF Typed, NextSection, Under, None
<1>6. Typed' BY <1>1, <1>2, <1>3, <1>4, <1>5 DEF Typed
<1>7. Covered(start)' BY <1>4 DEF IInv, Covered, IsText, Byte, Holds
<1>8. NoneInside' BY <1>2, <1>3, <1>4 DEF NoneInside
<1>9. ASSUME NEW l \in Level PROVE headings'[l] = Enclosing(e - 1, l)
  <2>1. Enclosing(e - 1, l) = Enclosing(s, l)
    <3>1. \A h \in DOMAIN heads : h <= e - 1 <=> h <= s BY <1>1, <1>2 DEF Typed
    <3> QED BY <1>1, <1>2, <3>1, SameEnclosing
  <2>2. headings[l] = Enclosing(s - 1, l) BY DEF IInv, Above
  <2>3. CASE s \in DOMAIN heads
    <3>1. headings' = Under(s) BY <2>3 DEF NextSection
    <3> QED BY <1>1, <2>1, <2>2, <2>3, <3>1, AtAHeading DEF Under
  <2>4. CASE s \notin DOMAIN heads
    <3>1. \A h \in DOMAIN heads : h <= s <=> h <= s - 1 BY <1>1, <2>4 DEF Typed
    <3>2. Enclosing(s, l) = Enclosing(s - 1, l) BY <1>1, <3>1, SameEnclosing
    <3>3. headings' = headings BY <2>4 DEF NextSection
    <3> QED BY <2>1, <2>2, <3>2, <3>3
  <2> QED BY <2>3, <2>4
<1>10. Above' BY <1>3, <1>4, <1>9 DEF Above, Enclosing
<1>11. \A k \in DOMAIN chunks : (Fits(chunks[k]) /\ Encloses(chunks[k]))'
  <2>1. \A c : Encloses(c) => Encloses(c)' BY <1>4 DEF Encloses, Enclosing
  <2> QED BY <1>4, <2>1 DEF IInv, Fits
<1>12. \A k \in 2..Len(chunks) : Near(chunks[k - 1], chunks[k])' BY <1>4 DEF IInv, Near
<1>13. Len(chunks) > 0 => Reaches(chunks[Len(chunks)])'
  <2> SUFFICES ASSUME Len(chunks) > 0 PROVE Reaches(chunks[Len(chunks)])' OBVIOUS
  <2>1. PICK c : c = chunks[Len(chunks)] OBVIOUS
  <2>2. c \in Chunk BY <1>1, <2>1 DEF Typed
  <2>3. /\ c.section <= c.start /\ c.start < c.end /\ c.end <= s
    BY <2>1 DEF IInv, Reaches
  <2>4. c.section < s BY <1>1, <2>2, <2>3 DEF Chunk
  <2>5. c = chunks'[Len(chunks')] BY <1>4, <2>1
  <2> QED BY <1>1, <1>2, <1>3, <1>4, <2>1, <2>2, <2>3, <2>4 DEF Reaches, Chunk
<1> QED BY <1>4, <1>6, <1>7, <1>8, <1>10, <1>11, <1>12, <1>13 DEF IInv

-----------------------------------------------------------------------------
(***************************************************************************)
(* A window                                                                *)
(***************************************************************************)

(* The next chunk, if the window holds text. *)
LEMMA EmitGives ==
  ASSUME Typed, NEW to \in Nat, start < to, Emit(start, to)
  PROVE  \/ chunks' = chunks /\ \A o \in start..(to - 1) : ~IsText(o)
         \/ \E c \in [start : Nat, end : Nat, section : {section.start}, path : {headings}] :
              /\ chunks' = Append(chunks, c)
              /\ start <= c.start /\ c.start < c.end /\ c.end <= to
              /\ \A o \in start..(to - 1) : IsText(o) => Holds(c, o)
<1>1. PICK S : S = TextIn(start, to) OBVIOUS
<1>2. start \in Nat BY DEF Typed
<1>3. S \in SUBSET Int /\ \A n \in S : start <= n /\ n <= to - 1 BY <1>1, <1>2 DEF TextIn
<1>4. CASE S = {}
  <2>1. chunks' = chunks BY <1>1, <1>4 DEF Emit
  <2>2. \A o \in start..(to - 1) : ~IsText(o) BY <1>1, <1>4 DEF TextIn
  <2> QED BY <2>1, <2>2
<1>5. CASE S # {}
  <2>1. PICK a, b : a = Min(S) /\ b = Max(S) OBVIOUS
  <2>2. a \in S /\ \A n \in S : a <= n BY <1>2, <1>3, <1>5, <2>1, MinIsLeast
  <2>3. b \in S /\ \A n \in S : b >= n
    <3>1. PICK m \in Int : m = to - 1 BY <1>2
    <3>2. \A n \in S : n <= m BY <1>3, <3>1
    <3> QED BY <1>3, <1>5, <2>1, <3>2, MaxIsGreatest
  <2>4. PICK c : c = [start |-> a, end |-> b + 1, section |-> section.start, path |-> headings]
    OBVIOUS
  <2>5. chunks' = Append(chunks, c) BY <1>1, <1>5, <2>1, <2>4 DEF Emit
  <2>6. /\ a \in Nat /\ b + 1 \in Nat /\ start <= a /\ a < b + 1 /\ b + 1 <= to
    BY <1>2, <1>3, <2>2, <2>3
  <2>7. ASSUME NEW o \in start..(to - 1), IsText(o) PROVE Holds(c, o)
    <3>1. o \in S BY <1>1, <2>7 DEF TextIn
    <3>2. a <= o /\ b >= o BY <2>2, <2>3, <3>1
    <3>3. a \in Int /\ b \in Int /\ o \in Int BY <1>3, <2>2, <2>3, <3>1
    <3>4. c.start = a /\ c.end = b + 1 BY <2>4
    <3>5. o \in a..((b + 1) - 1) BY <3>2, <3>3
    <3> QED BY <3>4, <3>5 DEF Holds
  <2> QED BY <2>4, <2>5, <2>6, <2>7
<1> QED BY <1>4, <1>5

LEMMA WindowKeeps ==
  ASSUME IInv, NEW to \in Nat, Emit(start, to), UNCHANGED <<text, heads, section, headings>>,
         start < to, to <= section.end, to <= start + Target,
         start' \in Nat, start < start', start' <= to, to <= start' + Overlap
  PROVE  IInv'
<1> USE DEF IInv
<1>1. start \in Nat /\ section.start \in Nat /\ section.end \in Nat /\ section.start <= start
      /\ chunks \in Seq(Chunk)
  BY DEF Typed
<1>0. \A o \in 0..(start' - 1) : o \in 0..(to - 1)
  <2>1. PICK s \in Nat : s = start' OBVIOUS
  <2>2. s <= to BY <2>1
  <2>3. \A o \in 0..(s - 1) : o \in 0..(to - 1) BY <2>2
  <2> QED BY <2>1, <2>3
<1>2. /\ NoneInside' /\ Above'
      /\ \A c : Encloses(c) => Encloses(c)'
      /\ \A c, o : Holds(c, o) => Holds(c, o)'
      /\ \A o : IsText(o)' => IsText(o)
      /\ \A c : Fits(c) => Fits(c)'
      /\ \A c, d : Near(c, d) => Near(c, d)'
  BY DEF NoneInside, Above, Enclosing, Encloses, Holds, IsText, Byte, Fits, Near
<1>3. CASE chunks' = chunks /\ \A o \in start..(to - 1) : ~IsText(o)
  <2>1. Typed' BY <1>1, <1>3 DEF Typed
  <2>2. ASSUME NEW o \in 0..(start' - 1), IsText(o)' PROVE (\E k \in DOMAIN chunks : Holds(chunks[k], o))'
    <3>1. IsText(o) BY <1>2, <2>2
    <3>2. o \in 0..(to - 1) BY <1>0, <2>2
    <3>3. o \notin start..(to - 1) BY <1>3, <3>1
    <3>4. o \in 0..(start - 1) BY <1>1, <3>2, <3>3
    <3>5. \E k \in DOMAIN chunks : Holds(chunks[k], o) BY <3>1, <3>4 DEF Covered
    <3> QED BY <1>2, <1>3, <3>5
  <2>3. Covered(start)' BY <2>2 DEF Covered
  <2>4. Len(chunks) > 0 => Reaches(chunks[Len(chunks)])'
    <3> SUFFICES ASSUME Len(chunks) > 0 PROVE Reaches(chunks[Len(chunks)])' OBVIOUS
    <3>1. PICK c : c = chunks[Len(chunks)] OBVIOUS
    <3>2. c \in Chunk /\ Reaches(c) BY <1>1, <3>1
    <3>3. Reaches(c)' BY <1>1, <3>2 DEF Reaches, Chunk
    <3> QED BY <1>3, <3>1, <3>3
  <2> QED BY <1>2, <1>3, <2>1, <2>3, <2>4
<1>4. CASE \E c \in [start : Nat, end : Nat, section : {section.start}, path : {headings}] :
              /\ chunks' = Append(chunks, c)
              /\ start <= c.start /\ c.start < c.end /\ c.end <= to
              /\ \A o \in start..(to - 1) : IsText(o) => Holds(c, o)
  <2>1. PICK c \in [start : Nat, end : Nat, section : {section.start}, path : {headings}] :
              /\ chunks' = Append(chunks, c)
              /\ start <= c.start /\ c.start < c.end /\ c.end <= to
              /\ \A o \in start..(to - 1) : IsText(o) => Holds(c, o)
    BY <1>4
  <2>2. c \in Chunk BY <1>1 DEF Chunk, Typed
  <2>3. PICK n \in Nat : n = Len(chunks) BY <1>1
  <2>4. /\ DOMAIN chunks = 1..n /\ DOMAIN chunks' = 1..(n + 1) /\ Len(chunks') = n + 1
        /\ \A k \in 1..n : chunks'[k] = chunks[k]
        /\ chunks'[n + 1] = c /\ chunks' \in Seq(Chunk)
    BY <1>1, <2>1, <2>2, <2>3
  <2>5. Typed' BY <1>1, <2>4 DEF Typed
  <2>6. Covered(start)'
    <3>1. ASSUME NEW o \in 0..(start' - 1), IsText(o)'
          PROVE  (\E k \in DOMAIN chunks : Holds(chunks[k], o))'
      <4>1. IsText(o) BY <1>2, <3>1
      <4>2. CASE o < start
        <5>1. o \in 0..(start - 1) BY <1>1, <4>2
        <5>2. PICK k \in DOMAIN chunks : Holds(chunks[k], o) BY <4>1, <5>1 DEF Covered
        <5> QED BY <1>2, <2>4, <5>2
      <4>3. CASE o >= start
        <5>0. o \in 0..(to - 1) BY <1>0, <3>1
        <5>1. o \in start..(to - 1) BY <1>1, <4>3, <5>0
        <5>2. Holds(c, o)' BY <1>2, <2>1, <4>1, <5>1
        <5>3. n + 1 \in DOMAIN chunks' /\ chunks'[n + 1] = c BY <2>4
        <5> QED BY <5>2, <5>3
      <4> QED BY <1>1, <4>2, <4>3
    <3> QED BY <3>1 DEF Covered
  <2>7. Fits(c) BY <1>1, <2>1 DEF Fits
  <2>8. Encloses(c)
    <3>1. section.start <= c.start /\ c.start < section.end BY <1>1, <2>1
    <3>2. \A h \in DOMAIN heads : h <= c.start <=> h <= section.end - 1
      BY <1>1, <3>1 DEF NoneInside, Typed
    <3>3. \A l \in Level : Enclosing(c.start, l) = Enclosing(section.end - 1, l)
      BY <1>1, <3>2, SameEnclosing
    <3> QED BY <3>3 DEF Encloses, Above
  <2>9. \A k \in DOMAIN chunks' : (Fits(chunks[k]) /\ Encloses(chunks[k]))'
    BY <1>2, <2>4, <2>7, <2>8
  <2>10. n > 0 => Near(chunks[n], c)
    <3> SUFFICES ASSUME n > 0 PROVE Near(chunks[n], c) OBVIOUS
    <3>1. PICK d : d = chunks[n] OBVIOUS
    <3>2. d \in Chunk /\ Reaches(d) BY <1>1, <2>3, <3>1
    <3>3. Near(d, c) BY <1>1, <2>1, <3>2 DEF Reaches, Near, Chunk
    <3> QED BY <3>1, <3>3
  <2>11. \A k \in 2..Len(chunks') : Near(chunks[k - 1], chunks[k])'
    <3>1. ASSUME NEW k \in 2..(n + 1) PROVE Near(chunks[k - 1], chunks[k])'
      <4>1. CASE k <= n
        <5>1. k \in 2..n /\ k - 1 \in 1..n BY <4>1
        <5>2. Near(chunks[k - 1], chunks[k]) BY <2>3, <5>1
        <5> QED BY <1>2, <2>4, <5>1, <5>2 DEF Near
      <4>2. CASE k = n + 1
        <5>1. n > 0 /\ k - 1 = n /\ n \in 1..n BY <4>2
        <5>2. chunks'[k - 1] = chunks[n] /\ chunks'[k] = c BY <2>4, <4>2, <5>1
        <5> QED BY <2>10, <5>1, <5>2 DEF Near
      <4> QED BY <4>1, <4>2
    <3> QED BY <2>4, <3>1
  <2>12. Reaches(c)' BY <1>1, <2>1 DEF Reaches
  <2>13. Len(chunks') > 0 => Reaches(chunks[Len(chunks)])' BY <2>4, <2>12
  <2> QED BY <1>2, <2>5, <2>6, <2>9, <2>11, <2>13
<1> QED BY <1>1, <1>3, <1>4, EmitGives

(* A window ends beyond its start and within the target. *)
LEMMA Boundary ==
  ASSUME Typed
  PROVE  /\ paragraphBoundary \in Nat
         /\ start < paragraphBoundary /\ paragraphBoundary <= start + Target
<1>1. PICK a, b : a = MinEnd /\ b = MaxEnd OBVIOUS
<1>2. a \in Nat /\ b \in Nat /\ start <= a /\ start < b /\ b = start + Target
  BY <1>1 DEF Typed, MinEnd, MaxEnd
<1>3. ASSUME NEW S \in SUBSET ((a + 1)..b), S # {}
      PROVE  Max(S) \in Nat /\ start < Max(S) /\ Max(S) <= start + Target
  <2>1. S \in SUBSET Int /\ \A n \in S : a + 1 <= n /\ n <= b BY <1>2, <1>3
  <2>0. b \in Int /\ \A n \in S : n <= b BY <1>2, <2>1
  <2>2. Max(S) \in S BY <1>3, <2>0, <2>1, MaxIsGreatest
  <2>3. PICK m : m = Max(S) OBVIOUS
  <2>4. m \in Int /\ a + 1 <= m /\ m <= b BY <2>1, <2>2, <2>3
  <2>5. start \in Nat BY DEF Typed
  <2> QED BY <1>2, <2>3, <2>4, <2>5
<1>4. ParagraphEnds \in SUBSET ((a + 1)..b) /\ LineEnds \in SUBSET ((a + 1)..b)
  BY <1>1, <1>2 DEF ParagraphEnds, LineEnds
<1> QED BY <1>1, <1>2, <1>3, <1>4 DEF paragraphBoundary

LEMMA LastWindowKeeps ==
  ASSUME IInv, LastWindow
  PROVE  IInv'
<1>1. /\ section.end \in Nat /\ start \in Nat /\ start < section.end
      /\ section.end <= start + Target
  BY DEF IInv, Typed, LastWindow, MaxEnd
<1>2. Emit(start, section.end) /\ start' = section.end /\ UNCHANGED <<text, heads, section, headings>>
  BY DEF LastWindow
<1> QED BY <1>1, <1>2, WindowKeeps

LEMMA WindowStepKeeps ==
  ASSUME IInv, Window
  PROVE  IInv'
<1>1. PICK to : to = paragraphBoundary OBVIOUS
<1>2. to \in Nat /\ start < to /\ to <= start + Target BY <1>1, Boundary DEF IInv
<1>3. start \in Nat /\ section.end \in Nat /\ to <= section.end
  BY <1>2 DEF IInv, Typed, Window, MaxEnd
<1>4. start' = NextStart(to) BY <1>1 DEF Window
<1>5. start' \in Nat /\ start < start' /\ start' <= to /\ to <= start' + Overlap
  BY <1>2, <1>3, <1>4 DEF NextStart
<1>6. Emit(start, to) /\ UNCHANGED <<text, heads, section, headings>> BY <1>1 DEF Window
<1> QED BY <1>2, <1>3, <1>5, <1>6, WindowKeeps

LEMMA Stuttering ==
  ASSUME IInv, UNCHANGED vars
  PROVE  IInv'
<1> USE DEF vars
<1>1. \A c : Reaches(c) => Reaches(c)' BY DEF Reaches
<1>2. \A c : Encloses(c) => Encloses(c)' BY DEF Encloses, Enclosing
<1> QED BY <1>1, <1>2 DEF IInv, Typed, Covered, IsText, Byte, Holds, NoneInside, Above, Enclosing,
                          Fits, Near

LEMMA Invariance == Spec => []IInv
<1>1. Init => IInv BY Initially
<1>2. IInv /\ [Next]_vars => IInv'
  BY NextSectionKeeps, WindowStepKeeps, LastWindowKeeps, Stuttering DEF Next
<1> QED BY <1>1, <1>2, PTL DEF Spec

-----------------------------------------------------------------------------
(* At the end every byte that is not blank is in a chunk, whatever the      *)
(* overlap does to the start of a window.                                   *)
THEOREM NoByteIsLost == Spec => []NothingLost
<1>1. IInv => NothingLost BY DEF IInv, Covered, Holds, NothingLost, Done
<1> QED BY <1>1, Invariance, PTL

(* No chunk is longer than the target, neighbours of one section share no   *)
(* more than the overlap, and nothing is shared across a heading.           *)
THEOREM ChunksAreOfSize == Spec => []ChunksFit
<1>1. IInv => ChunksFit BY DEF IInv, Fits, Near, ChunksFit
<1> QED BY <1>1, Invariance, PTL

(* The heading path of a chunk is that of the headings that enclose it.     *)
THEOREM PathsAreRight == Spec => []PathsEnclose
<1>1. IInv => PathsEnclose BY DEF IInv, Encloses, PathsEnclose
<1> QED BY <1>1, Invariance, PTL

-----------------------------------------------------------------------------
(* What is left to do: the bytes after the next window's start and those    *)
(* after the section.                                                       *)
Left == (Len(text) - start) + (Len(text) - section.end)

GoesOn == Left \in Nat /\ Left' \in Nat /\ Left' < Left

(* What is left shrinks with every step, however long the overlap is, so    *)
(* that no text keeps the loop for ever: the reason why it terminates.      *)
THEOREM EveryStepAdvances == Spec => [][GoesOn]_vars
<1>1. ASSUME IInv, IInv', Next PROVE GoesOn
  <2>1. PICK n, s, e : n = Len(text) /\ s = start /\ e = section.end OBVIOUS
  <2>2. n \in Nat /\ s \in Nat /\ e \in Nat /\ s <= e /\ e <= n
    BY <1>1, <2>1 DEF IInv, Typed
  <2>3. PICK t, f : t = start' /\ f = section'.end OBVIOUS
  <2>4. text' = text BY <1>1 DEF Next, NextSection, Window, LastWindow
  <2>5. t \in Nat /\ f \in Nat /\ t <= f /\ f <= n
    BY <1>1, <2>1, <2>3, <2>4 DEF IInv, Typed
  <2>6. (t = s /\ e < f) \/ (s < t /\ f = e)
    <3>1. CASE NextSection
      <4>1. e < SectionEnd(section.end) BY <1>1, <2>1, <3>1, SectionEnds DEF NextSection, IInv
      <4> QED BY <2>1, <2>3, <3>1, <4>1 DEF NextSection
    <3>2. CASE Window
      <4>1. PICK to : to = paragraphBoundary OBVIOUS
      <4>2. to \in Nat /\ s < to BY <1>1, <2>1, <4>1, Boundary DEF IInv
      <4>3. t = NextStart(to) BY <2>3, <3>2, <4>1 DEF Window
      <4>4. s < t BY <2>1, <2>2, <4>2, <4>3 DEF NextStart
      <4> QED BY <2>1, <2>3, <3>2, <4>4 DEF Window
    <3>3. CASE LastWindow BY <2>1, <2>3, <3>3 DEF LastWindow
    <3> QED BY <1>1, <3>1, <3>2, <3>3 DEF Next
  <2>7. Left = (n - s) + (n - e) /\ Left' = (n - t) + (n - f)
    BY <2>1, <2>3, <2>4 DEF Left
  <2> QED BY <2>2, <2>5, <2>6, <2>7 DEF GoesOn
<1>2. IInv /\ IInv' /\ [Next]_vars => [GoesOn]_vars BY <1>1
<1> QED BY <1>2, Invariance, PTL DEF Spec

=============================================================================
