-------------------------- MODULE MCSuppressedCheck --------------------------
(***************************************************************************)
(* Five rules over sources of four lines: directives above, on and between *)
(* comments and a docstring of one or two string tokens on lines 3 and 4.  *)
(***************************************************************************)
EXTENDS SuppressedCheck

MCRules == {"PCF000", "PCF001", "PCF101", "PCF102", "PDF101"}
MCOrder == <<"PCF000", "PCF001", "PCF102", "PDF101">>
MCCategoryOf == [r \in MCRules |-> IF r = "PDF101" THEN "PDF" ELSE "PCF"]
MCCodesOf ==
    [b \in Broad |-> CASE b = "PCF" -> MCRules \ {"PDF101"}
                       [] b = "PDF" -> {"PDF101"}
                       [] OTHER -> MCRules]

Code(r) == Token("exact-code", r)
Name(r) == Token("exact-name", r)
All     == Token("broad-code", "ALL")
Unknown == Token("unknown", "PCF999")
Junk    == Token("invalid", "bad!")

Lists ==
    {<<Code("PDF101")>>,
     <<Name("PDF101"), Miscased(Code("PDF101")), Token("broad-code", "PDF")>>,
     <<Code("PCF000"), Code("PCF001")>>,
     <<Code("PCF102"), Name("PCF102"), Blank>>,
     <<Blank, Code("PCF101"), Code("PCF000"), Name("PCF000"), Junk>>,
     <<Code("PCF102"), Blank, Name("PCF102")>>, <<All, Unknown>>, <<Blank>>}

FewLists == {<<Code("PCF102"), Name("PDF101")>>, <<Miscased(All)>>}

Comment(placement, form, list) ==
    [placement |-> placement, indent |-> 0, form |-> form, spaced |-> TRUE,
     tool |-> "pydocfmt", action |-> "ignore", list |-> list]
Words(indent) == [Comment("standalone", "words", NoList) EXCEPT !.indent = indent]
Empty == Comment("standalone", "empty", NoList)
Local(list) == Comment("standalone", "bracket", list)
Inline(list) == Comment("trailing", "bracket", list)
FileWide(list) == [Local(list) EXCEPT !.action = "file-ignore"]
Noqa(list) == Comment("trailing", "noqa", list)
PyNoqa(list) == Comment("standalone", "pynoqa", list)
Ruff(list) == [Local(list) EXCEPT !.tool = "ruff", !.action = "disable"]
Trailing == Comment("trailing", "words", NoList)

\* Comments of lines 1 and 2.
Heads ==
    {<<c, NoComment>> : c \in {FileWide(l) : l \in Lists} \cup {PyNoqa(l) : l \in FewLists \cup {NoList, <<Blank>>}}}
      \cup {<<NoComment, Local(l)>> : l \in Lists}
      \cup {<<Local(k), Local(l)>> : k \in FewLists, l \in Lists}
      \cup {<<Local(l), c>> : l \in Lists, c \in {Words(0), Empty, Trailing}}
      \cup {<<[Words(0) EXCEPT !.form = "tool"], Ruff(<<Token("ruff-code", "F401"), Token("ruff-code", "F401")>>)>>}

\* Comments of lines 3 and 4, where there is no string or where there is.
Bodies ==
    {<<Words(0), Words(0)>>, <<Words(0), Words(1)>>, <<Words(0), Trailing>>, <<Trailing, Empty>>}
Behind ==
    {NoComment} \cup {Inline(l) : l \in {<<Name("PDF101")>>, <<Code("PCF000"), Token("broad-code", "PDF")>>}}
      \cup {Noqa(l) : l \in {NoList, <<Code("PDF101"), Code("PCF001"), Name("PDF101"), Unknown>>}}
      \cup {[Noqa(NoList) EXCEPT !.spaced = FALSE]}
OneToken  == {[token |-> <<3, 4>>, whole |-> <<3, 4>>]}
TwoTokens == {[token |-> <<3, 3>>, whole |-> <<3, 4>>], [token |-> <<4, 4>>, whole |-> <<3, 4>>]}

Sources ==
    {[comments |-> h \o b, strings |-> {}] : h \in Heads, b \in Bodies}
      \cup {[comments |-> h \o <<NoComment, c>>, strings |-> OneToken] : h \in Heads, c \in Behind}
      \cup {[comments |-> h \o <<c, NoComment>>, strings |-> TwoTokens] : h \in Heads, c \in Behind}

MCCharacters == {"a", "b", "d", "i", "n", "o", "p", "q", "w", " ", "eol"}
MCText == [l \in 1..4 |-> <<"a", "b">>]

At(l, first, last, with) ==
    [from |-> [line |-> l, column |-> first], to |-> [line |-> l, column |-> last], with |-> with]

\* What the rules find; the docstring rule also on line 1, which belongs to
\* the docstring, and without a fix.
Having(s, P(_)) == {l \in Commented(s) : P(s.comments[l])}
RunFrom(s, l) == CommentTarget(s, l)
Standalone(s) ==
    {Fixing("PCF000", {Change({At(l, 0, 1, <<"w", "w">>)}, RunFrom(s, l), {})}) :
        l \in {k \in Having(s, InRun) : k = 1 \/ ~ContinuesRun(s, k, k - 1)}}
Spacing(s) ==
    {Fixing("PCF001", {Change({At(l, 1, 1, <<" ">>)}, {l}, {})}) :
        l \in Having(s, LAMBDA c : ~OnOwnLine(c))}
Policy(s) ==
    {Fixing("PCF102", {Change({At(l, 1, 2, <<"n">>)}, {l}, {})}) :
        l \in Having(s, LAMBDA c : c.form = "bracket" /\ PolicyFixes(c, "exact-name"))}
      \cup {Diagnostic("PCF102", {l}, {}) :
        l \in Having(s, LAMBDA c : c.form = "bracket" /\ PolicyReports(c, "exact-name"))}
Docstring(s) ==
    UNION {{Fixing("PDF101", {Change({At(3, 0, 1, <<>>)}, {3}, {{3, 4}}),
                              Change({At(4, 0, 1, <<"d">>), At(4, 1, 1, <<"i">>)}, {4}, {})}),
            Diagnostic("PDF101", {1}, {{3, 4}})} : t \in s.strings}
Overlapping == {Fixing("PCF001", {Change({At(2, 0, 2, <<"o">>), At(2, 1, 1, <<"p">>)}, {2}, {})})}
Colliding == {Fixing("PCF001", {Change({At(2, 1, 1, <<"p">>), At(2, 1, 1, <<"q">>)}, {2}, {})})}
Repeated ==
    {Fixing("PCF001", {Change({At(2, 1, 1, <<"p">>)}, lines, {})}) : lines \in {{2}, {1, 2}}}
Misattributed == {Diagnostic("PCF102", {2}, {})}

MCCase(s, extra, selected, raising, unprepared, fixing) ==
    [src |-> s, text |-> MCText,
     violations |-> [r \in MCRules |->
        CASE r = "PCF000" -> Standalone(s) [] r = "PCF001" -> Spacing(s) \cup extra
          [] r = "PCF102" -> Policy(s) [] r = "PDF101" -> Docstring(s) [] OTHER -> {}],
     authorized |-> [c \in {"PCF", "PDF"} |-> IF c = "PDF" THEN {t.whole : t \in s.strings} ELSE {}],
     unprepared |-> unprepared, raising |-> raising,
     selected |-> selected, fixable |-> selected, fixing |-> fixing]

MCCases ==
    {MCCase(s, {}, MCRules, {}, {}, f) : s \in Sources, f \in BOOLEAN}
      \cup {[MCCase(s, {}, MCRules, {}, {}, TRUE) EXCEPT !.fixable = {"PDF101"}] : s \in Sources}
      \cup {MCCase(s, e, MCRules \ {"PDF101"}, r, u, TRUE) :
              s \in {t \in Sources : t.strings = {}}, e \in {{}, Overlapping, Colliding, Repeated, Misattributed},
              r \in {{}, {"PCF000"}}, u \in {{}, {"PCF"}}}
=============================================================================
