---------------------------- MODULE MarkdownFences ----------------------------
(***************************************************************************)
(* markdown.py: the closed fences of a Markdown document, their logical    *)
(* bodies, and how a formatted body is put back.                           *)
(*                                                                         *)
(* A document is a sequence of physical lines.  A line is its indentation  *)
(* and the text after it; of a text, the run of fence characters it starts *)
(* with and what follows matter, and of other text only its identity.      *)
(***************************************************************************)
EXTENDS Naturals, Sequences, FiniteSets

CONSTANTS
    Words   \* texts that start with no fence, by what they say

\* What follows the fence characters: nothing, a Python language token with or
\* without pydocfmt-skip, something else, something with a backtick.
Infos == {"none", "python", "skip", "other", "tick"}

Fence(mark, len, info) == [mark |-> mark, len |-> len, info |-> info]

Plain(word) == Fence("none", 0, word)

FenceTexts == [mark : {"backtick", "tilde"}, len : Nat, info : Infos]

MDLines == [indent : Nat, text : {Plain(word) : word \in Words} \cup FenceTexts]

\* Two words that are always there: of an empty line, and of one run into the
\* next.
ASSUME MarkdownFencesAssumption == {"empty", "joined"} \subseteq Words

\* _OPENING_FENCE_RE and the backtick that rules it out.
OpensFence(line) ==
    /\ line.indent <= 3 /\ line.text.mark # "none"
    /\ line.text.len >= 3
    /\ ~(line.text.mark = "backtick" /\ line.text.info = "tick")

\* _closing_fence_index
ClosesFence(line, opening) ==
    /\ line.indent <= 3 /\ line.text.mark # "none"
    /\ line.text.mark = opening.text.mark
    /\ line.text.len >= opening.text.len
    /\ line.text.info = "none"

ClosingIndexes(doc, open) == {i \in (open + 1)..Len(doc) : ClosesFence(doc[i], doc[open])}

FirstOf(indexes) == CHOOSE i \in indexes : \A j \in indexes : i <= j

\* markdown_fences: the closed fences from line start on, an unclosed one ends
\* the search.
FencesFrom(doc) ==
    LET from[start \in 1..(Len(doc) + 1)] ==
          IF start > Len(doc) THEN <<>>
          ELSE IF ~OpensFence(doc[start]) THEN from[start + 1]
          ELSE IF ClosingIndexes(doc, start) = {} THEN <<>>
          ELSE LET close == FirstOf(ClosingIndexes(doc, start))
               IN  <<[open |-> start, close |-> close]>> \o from[close + 1]
    IN  from

Fences(doc) == FencesFrom(doc)[1]

\* is_python and not skipped; a tilde fence may have a backtick in its info.
IsTarget(doc, fence) == doc[fence.open].text.info = "python"

\* _removed_prefix: at most the indentation of the opening line goes.
Logical(line, opening) ==
    [line EXCEPT !.indent = IF @ < opening.indent THEN 0 ELSE @ - opening.indent]

\* MarkdownFence.source
BodyOf(doc, fence) ==
    [k \in 1..(fence.close - fence.open - 1) |-> Logical(doc[fence.open + k], doc[fence.open])]

-----------------------------------------------------------------------------
(* render_body and replace_fence_bodies                                    *)

\* difflib.SequenceMatcher: which lines of new are lines of old that stayed.
\* Any order-preserving choice for bodies that differ.
Alignments(old, new) ==
    IF old = new THEN {[k \in DOMAIN new |-> k]}
    ELSE {kept \in [DOMAIN new -> 0..Len(old)] :
            /\ \A k \in DOMAIN new : kept[k] # 0 => old[kept[k]] = new[k]
            /\ \A j, k \in DOMAIN new : j < k /\ kept[j] # 0 /\ kept[k] # 0 => kept[j] < kept[k]}

IsEmptyLine(line) == line.indent = 0 /\ line.text = Plain("empty")

\* Lines that stayed keep their physical form, others get the indentation of
\* the opening line unless they are empty.
RenderedBody(doc, fence, new, kept) ==
    [k \in DOMAIN new |->
        IF kept[k] # 0 THEN doc[fence.open + kept[k]]
        ELSE IF IsEmptyLine(new[k]) THEN new[k]
        ELSE [new[k] EXCEPT !.indent = @ + doc[fence.open].indent]]

\* A body whose last line has no line ending runs into the closing line.
FollowedBy(body, ended, rest) ==
    IF ended \/ rest = <<>> THEN body \o rest
    ELSE SubSeq(body, 1, Len(body) - 1)
           \o <<[body[Len(body)] EXCEPT !.text = Plain("joined")]>>
           \o Tail(rest)

\* The document with the bodies of the fences of indexes replaced: bodies[i] are
\* the rendered lines, ended[i] says whether the last of them ends.
WithBodies(doc, fences, indexes, bodies, ended) ==
    LET end(i) == IF i = 0 THEN 1 ELSE fences[i].close
        rest[i \in 0..Len(fences)] ==
          LET upto == IF i = Len(fences) THEN Len(doc) ELSE fences[i + 1].open
              here == SubSeq(doc, end(i), upto)
          IN  IF i = Len(fences) THEN here
              ELSE here \o
                     IF i + 1 \in indexes
                     THEN FollowedBy(bodies[i + 1], ended[i + 1], rest[i + 1])
                     ELSE SubSeq(doc, fences[i + 1].open + 1, fences[i + 1].close - 1) \o rest[i + 1]
    IN  rest[0]

\* The source of a fence is a body whose last line, if there is one, ends.
IsSource(body, source) == body = source.lines /\ source.ended

\* Mutant: only the number of fences is compared.
KeepsCount(doc, candidate, expected) == Len(Fences(candidate)) = Len(Fences(doc))

\* validate_rewrite: the same fences in number, delimiters and info strings,
\* with the bodies that were meant.
KeepsShape(doc, candidate, expected) ==
    LET old == Fences(doc)
        new == Fences(candidate)
    IN  /\ Len(new) = Len(old)
        /\ \A i \in DOMAIN old :
             /\ candidate[new[i].open] = doc[old[i].open]
             /\ candidate[new[i].close] = doc[old[i].close]
             /\ IF i \in DOMAIN expected
                THEN IsSource(BodyOf(candidate, new[i]), expected[i])
                ELSE BodyOf(candidate, new[i]) = BodyOf(doc, old[i])

=============================================================================
