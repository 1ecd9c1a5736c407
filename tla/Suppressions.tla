----------------------------- MODULE Suppressions -----------------------------
(***************************************************************************)
(* rules/suppressions.py: which findings the comments of a source suppress,*)
(* and which entries of those comments suppress nothing.                   *)
(*                                                                         *)
(* A source is its lines; a line has at most one comment.  Of a comment    *)
(* is kept where it stands (on a line of its own, at some indentation, or  *)
(* behind code), its form, and its list if it is a directive:              *)
(*   bracket  "pydocfmt: ignore[...]" and what else has this form          *)
(*   noqa     "noqa" and "noqa: ..."                                       *)
(*   pynoqa   "pydocfmt: noqa" and "pydocfmt: noqa: ..."                   *)
(*   tool     another protected comment                                    *)
(*   empty    nothing but the marker                                       *)
(*   words    any other comment                                            *)
(* Of the code only its string tokens are kept, each with the range of the *)
(* implicit concatenation it belongs to.                                   *)
(***************************************************************************)
EXTENDS Directives

CONSTANTS
    CategoryOf,         \* prefix of each rule's category
    CommentCategory,    \* PCF
    SelfSuppressing,    \* rules with allows_directive_self_suppression
    NoList,             \* a noqa comment without a list
    NoComment

Forms == {"bracket", "noqa", "pynoqa", "tool", "empty", "words"}

\* What a token is of: a rule, a broad selector or other text; a blank of none.
Texts == Rules \cup Broad \cup STRING \cup {""}

ListTokens ==
    [kind : LocalKinds \cup RuffKinds \cup {"unknown", "invalid", "blank"},
     of : Texts, canonical : BOOLEAN]

Comments ==
    [placement : {"standalone", "trailing"}, indent : Nat, form : Forms, spaced : BOOLEAN,
     tool : STRING, action : STRING, list : Seq(ListTokens) \cup {NoList}]

ASSUME SuppressionsAssumption == NoComment \notin Comments /\ NoList \notin Seq(ListTokens)

Strings == [token : Nat \X Nat, whole : Nat \X Nat]

\* A source; a directive with brackets has a list.
IsSource(src) ==
    /\ src \in [comments : Seq(Comments \cup {NoComment}), strings : SUBSET Strings]
    /\ \A l \in DOMAIN src.comments :
         src.comments[l] # NoComment /\ src.comments[l].form = "bracket"
           => src.comments[l].list # NoList

LinesOf(src) == 1..Len(src.comments)
RangeLines(range) == range[1]..range[2]

Commented(src) == {l \in LinesOf(src) : src.comments[l] # NoComment}
OnOwnLine(comment) == comment.placement = "standalone"
HasForm(comment, tool, action) ==
    comment.form = "bracket" /\ comment.tool = tool /\ comment.action = action

\* A selector: the codes it covers, the lines it covers them on, and the
\* string expressions it covers if the category of the finding allows it.
Selector(line, position, codes, lines) ==
    [line |-> line, position |-> position, codes |-> codes, lines |-> lines,
     audit |-> TRUE, valid |-> TRUE, ranges |-> {}, self |-> {}]

InvalidSelector(line, position) == [Selector(line, position, {}, {}) EXCEPT !.valid = FALSE]

Key(selector) == [line |-> selector.line, position |-> selector.position]

\* _matched_codes_for_bracket_token
Codes(token) ==
    CASE token.kind \in ExactKinds -> {token.of}
      [] token.kind = "broad-code" -> CodesOf[token.of]
      [] OTHER -> {}

-----------------------------------------------------------------------------
(* What a directive covers                                                 *)

\* _inline_candidate_expression_ranges: an inline directive reaches the
\* whole of an expression one of whose tokens ends on its line.
InlineRanges(src, l) ==
    IF OnOwnLine(src.comments[l]) THEN {}
    ELSE {s.whole : s \in {t \in src.strings : t.token[2] = l /\ RangeLines(t.whole) # {l}}}

LocalLines(src) ==
    {l \in Commented(src) : /\ OnOwnLine(src.comments[l])
                            /\ HasForm(src.comments[l], "pydocfmt", "ignore")}

\* The line below the block of local directives that l belongs to.
TargetLine(src, l) ==
    CHOOSE t \in (l + 1)..(Len(src.comments) + 1) :
       t \notin LocalLines(src) /\ (l + 1)..(t - 1) \subseteq LocalLines(src)

RangesFrom(src, l) == {s.whole : s \in {t \in src.strings : t.whole[1] = l}}

\* _extends_standalone_comment_run
InRun(comment) == comment.form = "words" /\ OnOwnLine(comment)

ContinuesRun(src, first, l) ==
    /\ l \in Commented(src)
    /\ InRun(src.comments[l]) /\ src.comments[l].indent = src.comments[first].indent

\* _comment_target_coverage
CommentTarget(src, target) ==
    IF target \notin Commented(src) THEN {}
    ELSE {l \in target..Len(src.comments) :
            /\ l = target \/ InRun(src.comments[target])
            /\ \A k \in (target + 1)..l : ContinuesRun(src, target, k)}

-----------------------------------------------------------------------------
(* The selectors of one directive                                          *)

\* Of a bracketed list; an empty one is one invalid selector.
ListSelectors(list, line, covered) ==
    LET one(k) == IF Codes(list[k]) = {} THEN InvalidSelector(line, k)
                  ELSE covered[k]
    IN  IF list = <<>> THEN {InvalidSelector(line, 0)} ELSE {one(k) : k \in DOMAIN list}

\* _line_directives, an inline pydocfmt ignore
InlineSelectors(src, l) ==
    LET list == Retained(src.comments[l])
    IN  ListSelectors(list, l,
            [k \in DOMAIN list |-> [Selector(l, k, Codes(list[k]), {l}) EXCEPT
                                      !.ranges = InlineRanges(src, l)]])

\* _local_bracket_selector: comment lines are for selectors with PCF rules.
LocalSelectors(src, l) ==
    LET list   == Retained(src.comments[l])
        target == TargetLine(src, l)
        onComments(token) == \E r \in Codes(token) : CategoryOf[r] = CommentCategory
    IN  ListSelectors(list, l,
            [k \in DOMAIN list |->
              [Selector(l, k, Codes(list[k]),
                        IF onComments(list[k]) THEN CommentTarget(src, target) ELSE {})
                 EXCEPT !.ranges = RangesFrom(src, target), !.self = {l}]])

\* The list of a noqa comment: names are not codes, spellings do not count.
NoqaCodes(token) == IF token.kind = "exact-name" THEN {} ELSE Codes(token)
NoqaPositions(list) ==
    {k \in Tokens(list) :
       \A j \in Tokens(list) :
          <<list[j].kind, list[j].of>> = <<list[k].kind, list[k].of>> => k <= j}

\* _line_directives, a noqa: unknown entries belong to other tools.
NoqaSelectors(src, l) ==
    LET list == src.comments[l].list
        covering(k, codes) ==
            [Selector(l, k, codes, {l}) EXCEPT !.ranges = InlineRanges(src, l)]
    IN  IF list = NoList THEN {[covering(0, CodesOf[AllTag]) EXCEPT !.audit = FALSE]}
        ELSE {covering(k, NoqaCodes(list[k])) :
                k \in {j \in NoqaPositions(list) : NoqaCodes(list[j]) # {}}}

\* _pydocfmt_file_directives
FileSelectors(src, l) ==
    LET comment == src.comments[l]
        list == Retained(comment)
        all(k, codes) == Selector(l, k, codes, LinesOf(src))
        entry(k) == IF NoqaCodes(comment.list[k]) = {} THEN InvalidSelector(l, k)
                    ELSE all(k, NoqaCodes(comment.list[k]))
    IN  IF comment.form = "bracket"
        THEN ListSelectors(list, l, [k \in DOMAIN list |-> all(k, Codes(list[k]))])
        ELSE IF comment.list = NoList THEN {all(0, CodesOf[AllTag])}
        ELSE IF NoqaPositions(comment.list) = {} THEN {InvalidSelector(l, 0)}
        ELSE {entry(k) : k \in NoqaPositions(comment.list)}

IsInline(comment) == ~OnOwnLine(comment) /\ HasForm(comment, "pydocfmt", "ignore")
IsNoqa(comment) == comment.form = "noqa" /\ comment.spaced
IsFileWide(comment) ==
    OnOwnLine(comment) /\ (comment.form = "pynoqa" \/ HasForm(comment, "pydocfmt", "file-ignore"))

SelectorsOn(src, l) ==
    CASE IsInline(src.comments[l])   -> InlineSelectors(src, l)
      [] IsNoqa(src.comments[l])     -> NoqaSelectors(src, l)
      [] IsFileWide(src.comments[l]) -> FileSelectors(src, l)
      [] l \in LocalLines(src)       -> LocalSelectors(src, l)
      [] OTHER                       -> {}

\* source_directive_indexes
Selectors(src) == UNION {SelectorsOn(src, l) : l \in Commented(src)}

-----------------------------------------------------------------------------
(* Filtering findings and auditing selectors                               *)

\* A finding has several targets, each a set of lines; covering one of them
\* suffices.
CoverageOptions(selector, finding, active, authorized) ==
    {selector.lines}
      \cup {selector.self : r \in {finding.rule} \cap SelfSuppressing}
      \cup {selector.lines \cup RangeLines(range) :
              range \in {r \in selector.ranges \cap authorized :
                            CategoryOf[finding.rule] = active}}

Suppresses(selector, finding, active, authorized) ==
    /\ selector.valid
    /\ finding.rule \in selector.codes
    /\ \E target \in finding.targets,
          covered \in CoverageOptions(selector, finding, active, authorized) :
             target \subseteq covered

UsedKeysByLine(selectors, findings, active, authorized) ==
    {Key(s) : s \in {t \in selectors : \E f \in findings : Suppresses(t, f, active, {})}}

UsedDirectives(selectors, findings, active, authorized) ==
    {Key(s) : s \in {t \in selectors : \E u \in selectors, f \in findings :
                         u.line = t.line /\ Suppresses(u, f, active, authorized)}}

\* filter_violations: every selector that suppresses a finding is used.
UsedKeys(selectors, findings, active, authorized) ==
    {Key(s) : s \in {t \in selectors : \E f \in findings : Suppresses(t, f, active, authorized)}}

Unsuppressed(selectors, findings, active, authorized) ==
    {f \in findings : ~\E s \in selectors : Suppresses(s, f, active, authorized)}

\* unused_findings, for the selected rules whose findings were filtered.
Unused(selectors, used, selected) ==
    {s \in selectors : s.audit /\ (s.valid => Key(s) \notin used /\ s.codes \cap selected # {})}
=============================================================================
