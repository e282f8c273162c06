------------------------------- MODULE Chunks -------------------------------
(***************************************************************************)
(* ChunkMarkdown (internal/ingest/chunk.go): a text is split at its        *)
(* headings into sections, a long section is cut into windows that overlap *)
(* and end at a paragraph or a line where there is one, and windows lose   *)
(* the blanks around them.  Offsets count bytes from 0; a byte is a        *)
(* newline, another blank, or text.                                        *)
(***************************************************************************)
EXTENDS Integers, Sequences, FiniteSets, FiniteSetsExt

CONSTANTS
  Target,     \* chunkTargetChars, 3000
  Overlap,    \* chunkOverlapChars, 300
  Level,      \* heading levels
  MaxLength   \* bound: bytes of a text

ASSUME SizeAssumption == Target \in Nat \ {0} /\ Overlap \in Nat
ASSUME LevelAssumption == Level \subseteq Nat

VARIABLES
  text,      \* the bytes
  heads,     \* the headings: a function from the offsets of their lines to levels
  section,   \* the section being cut
  headings,  \* the headings above it, by level
  start,     \* where its next window starts, "done" after the last
  chunks     \* the result

vars == <<text, heads, section, headings, start, chunks>>

None == -1
Byte(o) == text[o + 1]
IsText(o) == Byte(o) = "text"
LineStart(s, o) == o = 0 \/ s[o] = "newline"

(* Texts in which any line that begins with text may be a heading. *)
Init ==
  /\ text \in UNION {[1..n -> {"text", "blank", "newline"}] : n \in 0..MaxLength}
  /\ \E H \in SUBSET {o \in 0..(Len(text) - 1) : text[o + 1] = "text" /\ LineStart(text, o)} :
       heads \in [H -> Level]
  /\ section = [start |-> 0, end |-> 0]
  /\ headings = [l \in Level |-> None]
  /\ start = 0
  /\ chunks = <<>>

-----------------------------------------------------------------------------
(* markdownSections: the next section ends at the next heading.            *)

SectionEnd(o) == Min({h \in DOMAIN heads : h > o} \cup {Len(text)})

(* Mutant of Under: deeper headings of an earlier section stay. *)
UnderKeeping(o) == [headings EXCEPT ![heads[o]] = o]

Under(o) == [l \in Level |-> IF l < heads[o] THEN headings[l]
                             ELSE IF l = heads[o] THEN o ELSE None]

NextSection ==
  /\ start = section.end
  /\ section.end < Len(text)
  /\ section' = [start |-> section.end, end |-> SectionEnd(section.end)]
  /\ headings' = IF section.end \in DOMAIN heads THEN Under(section.end) ELSE headings
  /\ UNCHANGED <<text, heads, start, chunks>>

-----------------------------------------------------------------------------
(* chunkSection and trimWindow *)

(* A newline is found when all of it lies between half the window and its  *)
(* end; paragraphs are preferred to lines.                                 *)
MinEnd == start + Target \div 2
MaxEnd == start + Target
ParagraphEnds == {o \in (MinEnd + 2)..MaxEnd : Byte(o - 1) = "newline" /\ Byte(o - 2) = "newline"}
LineEnds == {o \in (MinEnd + 1)..MaxEnd : Byte(o - 1) = "newline"}

(* Mutant of paragraphBoundary: a window without a newline takes one more. *)
paragraphBoundaryBeyond == IF LineEnds # {} THEN Max(LineEnds) ELSE MaxEnd + 1

paragraphBoundary ==
  IF ParagraphEnds # {} THEN Max(ParagraphEnds)
  ELSE IF LineEnds # {} THEN Max(LineEnds)
  ELSE MaxEnd

TextIn(from, to) == {o \in from..(to - 1) : IsText(o)}

(* A window becomes a chunk unless it is blank. *)
Emit(from, to) ==
  LET inside == TextIn(from, to)
  IN  chunks' = IF inside = {} THEN chunks
                ELSE Append(chunks, [start |-> Min(inside), end |-> Max(inside) + 1,
                                     section |-> section.start, path |-> headings])

(* The last window of a section, or the only one. *)
LastWindow ==
  /\ start < section.end
  /\ MaxEnd >= section.end
  /\ Emit(start, section.end)
  /\ start' = section.end
  /\ UNCHANGED <<text, heads, section, headings>>

\* Mutants of NextStart: it may stand still; it skips instead of overlapping.
NextStartStill(end) == end - Overlap
NextStartSkipping(end) == end + 1
NextStart(end) == IF end - Overlap <= start THEN end ELSE end - Overlap

Window ==
  /\ start < section.end
  /\ MaxEnd < section.end
  /\ Emit(start, paragraphBoundary)
  /\ start' = NextStart(paragraphBoundary)
  /\ UNCHANGED <<text, heads, section, headings>>

Next == NextSection \/ Window \/ LastWindow

Spec == Init /\ [][Next]_vars

(* A sequential function: it goes on while it can. *)
FairSpec == Spec /\ WF_vars(Next)

-----------------------------------------------------------------------------
(* Properties *)

Done == start = Len(text)

(* Nothing of a text is lost between its sections and windows: what is not *)
(* blank is in a chunk, so it can be cited.                                *)
NothingLost ==
  Done => \A o \in 0..(Len(text) - 1) : IsText(o) =>
    \E k \in DOMAIN chunks : o \in chunks[k].start..(chunks[k].end - 1)

(* No chunk is longer than the target, and neighbours share no more than   *)
(* the overlap, and nothing across a heading.                              *)
ChunksFit ==
  /\ \A k \in DOMAIN chunks : chunks[k].end - chunks[k].start <= Target
  /\ \A k \in 2..Len(chunks) :
       chunks[k - 1].end - chunks[k].start <=
         (IF chunks[k].section = chunks[k - 1].section THEN Overlap ELSE 0)

(* The heading path of a chunk is made of the headings that enclose it: at *)
(* each level the last heading before it, unless one of a higher rank came *)
(* between.                                                                *)
Enclosing(o, l) ==
  LET above == {h \in DOMAIN heads : h <= o /\ heads[h] <= l}
  IN  IF above # {} /\ heads[Max(above)] = l THEN Max(above) ELSE None

PathsEnclose ==
  \A k \in DOMAIN chunks : \A l \in Level : chunks[k].path[l] = Enclosing(chunks[k].start, l)

(* The loop over windows ends for every text. *)
Terminates == <>Done

=============================================================================
