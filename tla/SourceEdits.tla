----------------------------- MODULE SourceEdits -----------------------------
(***************************************************************************)
(* rules/edits.py: applying the replacements a rule has planned to a text. *)
(* A text is a sequence of lines, a line a sequence of characters without  *)
(* its line ending; an edit replaces a half-open range of positions.       *)
(***************************************************************************)
EXTENDS Naturals, FiniteSets, SequencesExt

CONSTANTS
    Characters,
    EndOfLine   \* the line ending, one of them

ASSUME SourceEditsAssumption == EndOfLine \in Characters

\* Text before line l, as one sequence of characters.
Before(text, l) == FlattenSeq([k \in 1..(l - 1) |-> Append(text[k], EndOfLine)])

LineStart(text, l) == Len(Before(text, l))

\* The last line of a text has a line ending too.
Flat(text) == Before(text, Len(text) + 1)

\* _position_offset: no position lies behind the line's own characters.
IsPosition(text, position) ==
    position.line \in DOMAIN text /\ position.column \in 0..Len(text[position.line])

Offset(text, position) == LineStart(text, position.line) + position.column

Start(text, edit) == Offset(text, edit.from)
End(text, edit)   == Offset(text, edit.to)

\* The order edits are applied in; only edits that are refused are equal in it.
Precedes(text, e, f) ==
    \/ Start(text, e) < Start(text, f)
    \/ Start(text, e) = Start(text, f) /\ End(text, e) <= End(text, f)

\* sorted(indexed_edits, key=offsets) of a sequence of edits.
Rank(text, edits, i) ==
    Cardinality({j \in DOMAIN edits :
                   /\ Precedes(text, edits[j], edits[i])
                   /\ Precedes(text, edits[i], edits[j]) => j <= i})

InOrder(text, edits) ==
    [k \in DOMAIN edits |-> edits[CHOOSE i \in DOMAIN edits : Rank(text, edits, i) = k]]

FollowsOnOrMeets(text, previous, edit) == End(text, previous) <= Start(text, edit)

\* Two edits may touch but not overlap, and not begin at the same place.
FollowsOn(text, previous, edit) ==
    End(text, previous) <= Start(text, edit) /\ Start(text, previous) # Start(text, edit)

Applicable(text, edits) ==
    /\ \A i \in DOMAIN edits : IsPosition(text, edits[i].from) /\ IsPosition(text, edits[i].to)
    /\ LET sorted == InOrder(text, edits)
       IN  /\ \A k \in DOMAIN sorted : Start(text, sorted[k]) <= End(text, sorted[k])
           /\ \A k \in DOMAIN sorted \ {1} : FollowsOn(text, sorted[k - 1], sorted[k])

\* What the i-th of some edits in order starts from: the end of the one before.
Cursor(text, sorted, i) == IF i = 1 THEN 0 ELSE End(text, sorted[i - 1])

Slice(chars, begin, end) == SubSeq(chars, begin + 1, end)

\* apply_source_edits: what lies between the edits is copied.
Chunk(text, sorted, i) ==
    Slice(Flat(text), Cursor(text, sorted, i), Start(text, sorted[i])) \o sorted[i].with

Assembled(text, sorted) ==
    FlattenSeq([i \in DOMAIN sorted |-> Chunk(text, sorted, i)])
      \o Slice(Flat(text), Cursor(text, sorted, Len(sorted) + 1), Len(Flat(text)))

Applied(text, edits) == Assembled(text, InOrder(text, edits))
=============================================================================
