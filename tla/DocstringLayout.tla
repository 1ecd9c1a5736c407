--------------------------- MODULE DocstringLayout ---------------------------
(***************************************************************************)
(* rules/definitions/PDF: the fixable rules about the lines of a           *)
(* docstring, PDF102 to PDF110, PDF200 and PDF201, run together over one   *)
(* docstring the way rules/runner.py runs them.                            *)
(*                                                                         *)
(* The docstring is a simple string whose lines map to source lines and    *)
(* whose Unicode is plain.  A line is what the rules tell apart: its kind, *)
(* the whitespace before and after it, and an identity for its text.  The  *)
(* last line holds the closing quotes unless the value ends with a newline. *)
(***************************************************************************)
EXTENDS Subsequences, FiniteSetsExt, SequencesExt

CONSTANTS
    Layouts,    \* layouts a docstring may start with
    Setups,     \* selections and settings that are explored
    MaxPasses   \* passes after which a run counts as not settling

\* PDF<nnn>, in execution order.
Rules == (102..110) \cup {200, 201}

\* Prose, a Google section header, an entry of its section, a list item.
ContentKinds == {"text", "head", "entry", "list"}

\* Whitespace before a line, or on a blank one: none, the margin of the
\* docstring, anything else.  A module's docstring has no margin.
Leads == {"none", "margin", "other"}

\* Whitespace after a line: two spaces or more are a Markdown hard break.
Trails == {"none", "space", "tab", "break", "tab+break"}

Lines ==
    [kind : ContentKinds, id : Nat, lead : Leads, trail : Trails]
      \cup [kind : {"blank"}, id : {0}, lead : Leads, trail : {"none"}]

AllLayouts == [lines : Seq(Lines) \ {<<>>}, newline : BOOLEAN]

AllSetups ==
    [selected  : SUBSET Rules,
     margin    : {"none", "margin"},
     aligned   : BOOLEAN,   \* docstring-blank-line-style is aligned
     lastBlank : BOOLEAN,   \* docstring-blank-line-after-last-section
     fits      : BOOLEAN,   \* the summary fits on one line with both quotes
     tight     : BOOLEAN]   \* the last content cannot touch the closing quotes

ASSUME DocstringLayoutAssumption ==
    /\ Layouts \subseteq AllLayouts
    /\ Setups \subseteq AllSetups
    /\ MaxPasses \in Nat \ {0}

VARIABLES
    setup,     \* selection and settings of the run
    original,  \* the layout the run started with
    layout,    \* the current layout
    pass,      \* number of the current pass
    rule,      \* rule of the last fix in this pass, 0 before the first
    seen,      \* layouts passes started with
    stop       \* none while running, then settled, repeat or limit

layoutVars == <<setup, original, layout, pass, rule, seen, stop>>

-----------------------------------------------------------------------------
(* The value: definition_helpers/docstring_source.py                       *)

BlankLine(lead) == [kind |-> "blank", id |-> 0, lead |-> lead, trail |-> "none"]

IsBlank(line) == line.kind = "blank"

ContentIndexes(d) == {i \in DOMAIN d.lines : ~IsBlank(d.lines[i])}

FirstContent(d) == Min(ContentIndexes(d))
LastContent(d) == Max(ContentIndexes(d))

EmptyValue == [lines |-> <<BlankLine("none")>>, newline |-> FALSE]

\* A last line of nothing is a newline that ends the value.
Reparsed(lines, newline) ==
    IF ~newline /\ Len(lines) > 1 /\ Last(lines) = BlankLine("none")
    THEN [lines |-> Front(lines), newline |-> TRUE]
    ELSE [lines |-> lines, newline |-> newline]

\* More than one source line.
IsMultiline(d) == Len(d.lines) > 1 \/ d.newline

\* The line before the closing quotes, when they do not start a line.
IsClosingPrefix(d, i) == i = Len(d.lines) /\ ~d.newline /\ d # EmptyValue

\* The rest of the opening quotes' line, when it is blank.
IsOpeningSuffix(d, i) == i = 1 /\ Len(d.lines) > 1 /\ IsBlank(d.lines[1])

OpensOnContent(d) == 1 \in ContentIndexes(d)
ClosesOnContent(d) == ~d.newline /\ Len(d.lines) \in ContentIndexes(d)

\* DocstringOutputSeparatorFallback.CLOSING: content that cannot touch the
\* quotes, because no escape parts them, is followed by a space.
Parted(line) ==
    IF setup.tight /\ line.trail = "none" THEN [line EXCEPT !.trail = "space"] ELSE line

-----------------------------------------------------------------------------
(* The structure: _DocstringParser in PDF.py                               *)

\* A section reaches from its header to the next one or to the end.
InSection(d, i) == \E h \in 1..i : d.lines[h].kind = "head"

\* The text is one summary line and nothing else.
IsSummaryOnly(d) ==
    \E i \in DOMAIN d.lines : ContentIndexes(d) = {i} /\ d.lines[i].kind = "text"

\* final_convention_section_spacing: the docstring ends with a section that
\* has content, and the blank line after that, which the closing quotes may
\* not share.
EndsWithSection(d) ==
    /\ ContentIndexes(d) # {}
    /\ InSection(d, LastContent(d))
    /\ d.lines[LastContent(d)].kind # "head"

\* Mutant: the line of the closing quotes passes for the blank line.
HasFinalLine(d) == EndsWithSection(d) /\ LastContent(d) < Len(d.lines)

HasFinalBlank(d) ==
    /\ EndsWithSection(d)
    /\ LastContent(d) < Len(d.lines)
    /\ ~IsClosingPrefix(d, LastContent(d) + 1)

-----------------------------------------------------------------------------
(* The rules                                                               *)

TrailingStripped(line) ==
    [line EXCEPT !.trail = IF @ \in {"break", "tab+break"} THEN "break" ELSE "none"]

\* PDF102: content followed by a newline ends without whitespace, but for a
\* hard break.
DocstringTrailingWhitespace(d) ==
    [d EXCEPT !.lines = [i \in DOMAIN @ |->
        IF i < Len(@) \/ d.newline THEN TrailingStripped(@[i]) ELSE @[i]]]

\* PDF103
DocstringBlankLineWhitespace(d) ==
    IF d = EmptyValue THEN d
    ELSE Reparsed([i \in DOMAIN d.lines |->
            IF ~IsBlank(d.lines[i]) THEN d.lines[i]
            ELSE BlankLine(IF IsClosingPrefix(d, i) \/ setup.aligned THEN setup.margin ELSE "none")],
            d.newline)

\* PDF104
OpeningQuotesWhitespace(d) ==
    IF OpensOnContent(d) THEN [d EXCEPT !.lines[1].lead = "none"] ELSE d

\* PDF105: one space stays where the quotes cannot touch the content.
ClosingQuotesWhitespace(d) ==
    IF ClosesOnContent(d) /\ Last(d.lines).trail # "none"
    THEN [d EXCEPT !.lines[Len(d.lines)] = Parted([@ EXCEPT !.trail = "none"])]
    ELSE d

\* Mutant: the content that follows the first one goes with what precedes it.
MultilineOpeningQuotesLastContent(d) ==
    IF IsMultiline(d) /\ ContentIndexes(d) # {} /\ ~OpensOnContent(d)
    THEN [d EXCEPT !.lines =
             <<[@[FirstContent(d)] EXCEPT !.lead = "none"]>> \o SubSeq(@, LastContent(d) + 1, Len(@))]
    ELSE d

\* PDF106: what is before the first content goes, with that line's margin.
MultilineOpeningQuotesSameLine(d) ==
    IF IsMultiline(d) /\ ContentIndexes(d) # {} /\ ~OpensOnContent(d)
    THEN [d EXCEPT !.lines =
             <<[@[FirstContent(d)] EXCEPT !.lead = "none"]>> \o SubSeq(@, FirstContent(d) + 1, Len(@))]
    ELSE d

\* PDF107
MultilineOpeningQuotesSeparateLine(d) ==
    IF IsMultiline(d) /\ OpensOnContent(d)
    THEN [d EXCEPT !.lines =
             <<BlankLine("none"), [Head(@) EXCEPT !.lead = setup.margin]>> \o Tail(@)]
    ELSE d

\* PDF108: not where the setting wants a blank line after the last section.
MultilineClosingQuotesSameLine(d) ==
    IF /\ IsMultiline(d) /\ ContentIndexes(d) # {} /\ ~ClosesOnContent(d)
       /\ ~(setup.lastBlank /\ HasFinalBlank(d))
    THEN [lines   |-> Append(SubSeq(d.lines, 1, LastContent(d) - 1), Parted(d.lines[LastContent(d)])),
          newline |-> FALSE]
    ELSE d

\* PDF109
MultilineClosingQuotesSeparateLine(d) ==
    IF IsMultiline(d) /\ ClosesOnContent(d)
    THEN Reparsed(Append(d.lines, BlankLine(setup.margin)), FALSE)
    ELSE d

\* PDF110: only text of the opening quotes' line keeps what precedes it.
OneLineDocstring(d) ==
    IF IsMultiline(d) /\ IsSummaryOnly(d) /\ setup.fits
    THEN LET line == d.lines[FirstContent(d)]
         IN  [lines   |-> <<Parted(IF OpensOnContent(d) THEN line ELSE [line EXCEPT !.lead = "none"])>>,
              newline |-> FALSE]
    ELSE d

\* PDF200, _should_drop_blank_separator: inside a section no blank line
\* follows the header or parts two entries.
KeepsSeparator(d, before, after) ==
    \/ d.lines[after].kind = "head" \/ ~InSection(d, before)
    \/ d.lines[before].kind # "head"
         /\ ~(d.lines[before].kind = "entry" /\ d.lines[after].kind = "entry")

\* The first blank line between two pieces of content that stay apart.
IsSeparator(d, i) ==
    /\ IsBlank(d.lines[i]) /\ i > 1 /\ i - 1 \in ContentIndexes(d)
    /\ \E after \in ContentIndexes(d) :
         /\ after > i /\ \A j \in ContentIndexes(d) : j > i => j >= after
         /\ KeepsSeparator(d, i - 1, after)

Retained(d) ==
    {i \in DOMAIN d.lines :
        \/ i \in ContentIndexes(d)
        \/ IsSeparator(d, i)
        \/ IsOpeningSuffix(d, i)
        \/ setup.lastBlank /\ HasFinalBlank(d) /\ i = LastContent(d) + 1
        \/ IsClosingPrefix(d, i)}

\* PDF200
TooManyBlankLines(d) ==
    IF ContentIndexes(d) = {} THEN EmptyValue
    ELSE [d EXCEPT !.lines = Elements(@, Retained(d))]

\* PDF201: a section, and structure right after a summary line, is preceded
\* by a blank line.
MissesBlankBefore(d, i) ==
    /\ {i - 1, i} \subseteq ContentIndexes(d)
    /\ \/ d.lines[i].kind = "head"
       \/ d.lines[i].kind = "list" /\ i - 1 = FirstContent(d) /\ d.lines[i - 1].kind = "text"

MissesBlankAfter(d, i) ==
    setup.lastBlank /\ EndsWithSection(d) /\ ~HasFinalBlank(d) /\ i = LastContent(d)

GeneratedBlank == BlankLine(IF setup.aligned THEN setup.margin ELSE "none")

Inserted(d, i) ==
    (IF MissesBlankBefore(d, i) THEN <<GeneratedBlank>> ELSE <<>>)
      \o <<d.lines[i]>>
      \o (IF MissesBlankAfter(d, i) THEN <<GeneratedBlank>> ELSE <<>>)
      \o (IF MissesBlankAfter(d, i) /\ i = Len(d.lines) /\ ~d.newline
          THEN <<BlankLine(setup.margin)>> ELSE <<>>)

MissingBlankLine(d) ==
    Reparsed(FlattenSeq([i \in DOMAIN d.lines |-> Inserted(d, i)]), d.newline)

Fixed(r, d) ==
    CASE r = 102 -> DocstringTrailingWhitespace(d)
      [] r = 103 -> DocstringBlankLineWhitespace(d)
      [] r = 104 -> OpeningQuotesWhitespace(d)
      [] r = 105 -> ClosingQuotesWhitespace(d)
      [] r = 106 -> MultilineOpeningQuotesSameLine(d)
      [] r = 107 -> MultilineOpeningQuotesSeparateLine(d)
      [] r = 108 -> MultilineClosingQuotesSameLine(d)
      [] r = 109 -> MultilineClosingQuotesSeparateLine(d)
      [] r = 110 -> OneLineDocstring(d)
      [] r = 200 -> TooManyBlankLines(d)
      [] r = 201 -> MissingBlankLine(d)

-----------------------------------------------------------------------------
(* The run: rules_selection.py, then run_rule_plan in rules/runner.py      *)

\* Mutant: the placements of the closing quotes are not declared opposites.
OpeningConflicts == {{106, 107}}

\* incompatible_with of the rules.
Conflicts == {{106, 107}, {108, 109}}

IsCompatible(selected) == \A pair \in Conflicts : ~(pair \subseteq selected)

\* What a docstring can be: without margin no line is at one, headers start at
\* the margin, quotes that cannot touch the content do not, and an indented
\* line right after a list item is no entry but a part of the item.
IsPossible(d) ==
    /\ d = Reparsed(d.lines, d.newline)
    /\ setup.tight /\ ClosesOnContent(d) => Last(d.lines).trail # "none"
    /\ \A i \in DOMAIN d.lines :
         LET line == d.lines[i]
         IN  /\ setup.margin = "none" => line.lead # "margin"
             /\ line.kind = "head" /\ i > 1 => line.lead = setup.margin
             /\ line.kind = "entry" => i > 1 /\ d.lines[i - 1].kind # "list"

LayoutInit ==
    /\ setup \in Setups /\ IsCompatible(setup.selected)
    /\ original \in Layouts /\ IsPossible(original)
    /\ layout = original
    /\ pass = 1 /\ rule = 0 /\ seen = {original} /\ stop = "none"

\* The rules of this pass that are left and find something.
FindingRules == {r \in setup.selected : r > rule /\ Fixed(r, layout) # layout}

\* Rules that find nothing are passed over.
ApplyRule ==
    /\ stop = "none" /\ FindingRules # {}
    /\ rule' = Min(FindingRules)
    /\ layout' = Fixed(rule', layout)
    /\ UNCHANGED <<setup, original, pass, seen, stop>>

EndPass ==
    /\ stop = "none" /\ FindingRules = {}
    /\ \/ /\ rule = 0
          /\ stop' = "settled"
          /\ UNCHANGED <<pass, rule, seen>>
       \/ /\ rule # 0 /\ layout \in seen
          /\ stop' = "repeat"
          /\ UNCHANGED <<pass, rule, seen>>
       \/ /\ rule # 0 /\ layout \notin seen /\ pass = MaxPasses
          /\ stop' = "limit"
          /\ UNCHANGED <<pass, rule, seen>>
       \/ /\ rule # 0 /\ layout \notin seen /\ pass < MaxPasses
          /\ seen' = seen \cup {layout}
          /\ pass' = pass + 1
          /\ rule' = 0
          /\ UNCHANGED stop
    /\ UNCHANGED <<setup, original, layout>>

LayoutNext == ApplyRule \/ EndPass

LayoutSpec == LayoutInit /\ [][LayoutNext]_layoutVars

-----------------------------------------------------------------------------
(* Properties                                                              *)

\* Any selection of these rules without declared opposites reaches a layout
\* in which none of them finds anything, within MaxPasses passes: no chain of
\* fixes undoes itself, however rules of different passes feed each other.
Settles == stop \notin {"repeat", "limit"}

Content(d) == Elements(d.lines, ContentIndexes(d))

IsHardBreak(line) == line.trail \in {"break", "tab+break"}

\* No fix loses, repeats or reorders text, and none adds or takes a Markdown
\* hard break between two pieces of content.  PDF102 and PDF105 both strip
\* whitespace, and PDF106 to PDF110 move text between the lines they look at.
ContentKept ==
    LET was == Content(original)
        is  == Content(layout)
    IN  /\ Len(is) = Len(was)
        /\ \A i \in DOMAIN is :
             /\ is[i].id = was[i].id
             /\ i < Len(is) => (IsHardBreak(is[i]) <=> IsHardBreak(was[i]))

\* With docstring-blank-line-after-last-section, PDF200 and PDF201 agree on a
\* single blank line after the last section, and on what is that line and what
\* is the line of the closing quotes, wherever PDF108 to PDF110 want those.
LastSectionSpaced ==
    stop = "settled" /\ {200, 201} \subseteq setup.selected
      /\ setup.lastBlank /\ EndsWithSection(layout) =>
        LET tail == Len(layout.lines) - LastContent(layout)
        IN  IF layout.newline THEN tail = 1 ELSE tail = 2
=============================================================================
