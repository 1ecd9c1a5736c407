-------------------------- MODULE MCSettingsResolver --------------------------
(***************************************************************************)
(* A tree of three directories, with a file that the command line may name *)
(* and one with the name of an inline option; seven rules of two           *)
(* categories, two pairs of which are incompatible.                        *)
(***************************************************************************)
EXTENDS SettingsResolver

P == <<"p">>
S == <<"p", "s">>
MCOrder == <<"PCF", "PDF">>
MCDirectories == {Root, P, S}
MCFiles == {<<"p", "a.py">>, <<"p", "s", "b.md">>, <<"p", "s", "c.txt">>, <<"-">>}
MCSuffix == [s \in {"a.py", "b.md", "c.txt", "-"} |->
    CASE s = "a.py" -> "py" [] s = "b.md" -> "md" [] s = "c.txt" -> "txt" [] OTHER -> Invalid]
MCWild == [w \in {"*.md", "*"} |-> IF w = "*.md" THEN {"b.md"} ELSE {"a.py", "b.md", "c.txt", "p", "s"}]

Rule(code, name, fix, effects, incompatible, contexts) ==
    [code |-> code, name |-> name, fix |-> fix, effects |-> effects,
     incompatible |-> incompatible, contexts |-> contexts]
Effect(kind, values) == [setting |-> "docstring_convention", effect |-> kind, values |-> values]

PCF0 == <<"PCF", 0>>
PCF1 == <<"PCF", 1>>
D11 == <<"PDF", 1, 1>>
D12 == <<"PDF", 1, 2>>
D13 == <<"PDF", 1, 3>>
D21 == <<"PDF", 2, 1>>
D22 == <<"PDF", 2, 2>>

MCRules ==
    {Rule(PCF0, "comment", "always", {}, {}, Contexts),
     Rule(PCF1, "audit", "never", {}, {}, Contexts),
     Rule(D11, "layout", "sometimes", {Effect("ignored", {"numpy"})}, {D12}, Contexts),
     Rule(D12, "compact", "sometimes", {Effect("ignored", {"none", "google"})}, {D11, D13}, Contexts),
     Rule(D13, "spread", "always", {}, {D12}, Contexts),
     Rule(D21, "documented", "never", {Effect("disabled", {"none"})}, {}, {"module"}),
     Rule(D22, "typed", "sometimes", {}, {}, {"module"})}

Tag(tag) == [form |-> "tag", tag |-> tag]
Name(name) == [form |-> "name", name |-> name]
Junk == [form |-> "junk"]
EmptyText == [form |-> "empty"]
All == Tag(<<>>)
List(l) == Raw("list", l)

MCFields ==
    SelectionFields \cup {"extension", "per_file_settings", "source_context", "docstring_convention",
        "docstring_missing_documentation", "line_length", "docstring_placeholder_markers"}
MCDefaults ==
    [f \in MCFields |->
       CASE f \in {"select", "fixable"} -> <<All>>
         [] f = "require_explicit" -> <<Tag(D22), Tag(<<"PDF", 9>>)>>
         [] f = "extension" -> {}
         [] f = "source_context" -> "module"
         [] f = "docstring_convention" -> "google"
         [] f = "docstring_missing_documentation" -> "all-docstrings"
         [] f = "line_length" -> 88
         [] OTHER -> <<>>]
MCNested == [p \in {"docstring", "comment"} |->
    IF p = "docstring" THEN [convention |-> "docstring_convention",
                             missing |-> "docstring_missing_documentation"]
    ELSE [x \in {} |-> Invalid]]

Section(keys) == [keys |-> keys, nested |-> [p \in {} |-> Invalid]]
Document_(table, section) == [table |-> table, section |-> section]
Configured(keys) == Document_("settings", Section(keys))
NoKeys == [f \in {} |-> Invalid]

Pattern_(negated, segments, slash) == [negated |-> negated, glob |-> Pattern(segments, slash)]
Markdown == Pattern_(FALSE, <<"*.md">>, FALSE)
NotMarkdown == Pattern_(TRUE, <<"*.md">>, FALSE)
UnderS == Pattern_(FALSE, <<"s", "*">>, TRUE)
Somewhere == Pattern_(FALSE, <<"**", "*.md">>, TRUE)
TextFiles == [text |-> ".TXT", normal |-> "txt", simple |-> TRUE]
Text(t) == Raw("text", t)

\* Configuration files of the discovery cases.
Plain == Configured([line_length |-> Raw("int", 100)])
Nested == Document_("settings",
    [keys |-> NoKeys, nested |-> [docstring |-> [convention |-> Text("numpy")]]])
Twice == Document_("settings",
    [keys |-> [docstring_convention |-> Text("numpy")],
     nested |-> [docstring |-> [convention |-> Text("google")]]])
PerFile == Configured([per_file_settings |-> Raw("table",
    <<<<Markdown, Section([source_context |-> Text("module"), line_length |-> Raw("int", 60)])>>,
      <<UnderS, Section([line_length |-> Raw("int", 70)])>>>>),
    extension |-> Raw("table", <<<<TextFiles, Text("markdown")>>>>),
    source_context |-> Text("module")])
Strange == Configured([line_length |-> Raw("bool", 1)])
Without == Document_("none", Section(NoKeys))
Odd == Document_("odd", Section(NoKeys))

MCContents == {Absent, Broken, PerFile}

\* Configuration files of the selection cases.
Selecting ==
    {[select |-> List(<<All>>), ignore |-> List(i), extend_select |-> List(e)] :
        i \in {<<Tag(D11)>>, <<Tag(<<"PDF", 1>>), Name("layout")>>, <<Tag(<<"PDF">>), Junk>>},
        e \in {<<>>, <<Name("compact")>>, <<Tag(<<"PDF", 1>>), Tag(D22)>>}}
      \cup {[select |-> List(s), docstring_convention |-> Text(c)] :
        s \in {<<Tag(<<"PDF", 1>>)>>, <<Tag(D12), Tag(D13)>>, <<Tag(<<"PDF", 2>>), Tag(D21), Name("nobody")>>,
               <<Tag(D11), All>>},
        c \in {"none", "numpy"}}
      \cup {[fixable |-> List(<<Tag(<<"PDF">>), Tag(D21)>>), unfixable |-> List(<<Tag(<<"PDF", 1>>)>>),
             extend_fixable |-> List(<<Name("spread")>>), require_explicit |-> List(<<Tag(<<"PCF">>)>>)],
            [per_file_ignores |-> Raw("table", <<<<NotMarkdown, List(<<Tag(<<"PDF", 1>>)>>)>>,
                                                <<Somewhere, List(<<Tag(D21)>>)>>>>)]}

Asked ==
    {NoKeys,
     [select |-> <<List(<<Tag(D11)>>), List(<<Tag(D12)>>)>>],
     [ignore |-> <<List(<<Tag(D12)>>)>>],
     [extend_select |-> <<List(<<Name("compact"), Tag(D22)>>)>>],
     [fixable |-> <<List(<<All>>)>>],
     [docstring_convention |-> <<Text("numpy")>>, line_length |-> <<Raw("int", 50), Raw("int", 120)>>],
     [per_file_ignores |-> <<Raw("table", <<<<Markdown, List(<<Tag(D11)>>)>>>>),
                             Raw("table", <<<<Markdown, List(<<Tag(PCF0)>>)>>>>)>>],
     [source_context |-> <<Text("module")>>]}

Custom == <<"p", "custom.toml">>
Inline == <<"p", "line-length=77">>
AtCustom == [path |-> Custom, section |-> Nothing]
AtProject == [path |-> Candidate(P), section |-> Nothing]
InlineOption(keys) == [path |-> Inline, section |-> Section(keys)]
BrokenInline == [path |-> Inline, section |-> Broken]

Disk(root, p, s, custom, inline) ==
    [f \in {Candidate(Root), Candidate(P), Candidate(S), Custom, Inline} |->
       CASE f = Candidate(Root) -> root [] f = Candidate(P) -> p [] f = Candidate(S) -> s
         [] f = Custom -> custom [] OTHER -> inline]

Invocation(d, isolated, options, arguments, overrides, bound) ==
    [rules |-> MCRules, cwd |-> P, disk |-> d, isolated |-> isolated, options |-> options,
     arguments |-> arguments, overrides |-> overrides, edits |-> bound]

Simple == {Absent, Broken, Plain, PerFile, Without, Odd, Strange, Nested, Twice}
MCInvocations ==
    {Invocation(Disk(r, p, s, Absent, Absent), FALSE, <<>>, NoKeys, NoKeys, 0) :
        r \in {Absent, Plain}, p \in Simple, s \in Simple}
      \cup {Invocation(Disk(r, p, s, Absent, Absent), FALSE, <<>>, NoKeys, NoKeys, 0) :
        r \in {Broken, Odd}, p \in {Absent, Without}, s \in {Absent, Without, PerFile}}
      \cup {Invocation(Disk(r, p, s, Absent, Absent), FALSE, <<>>, NoKeys, NoKeys, 1) :
        r \in {Absent, Plain}, p \in {Absent, Broken, Without}, s \in {Absent, PerFile, Without}}
      \cup {Invocation(Disk(Absent, Configured(c), Absent, Absent, Absent), FALSE, <<>>, a, NoKeys, 0) :
        c \in Selecting, a \in Asked}
      \cup {Invocation(Disk(Plain, PerFile, q, q, i), x, o, NoKeys, v, 0) :
        q \in {Absent, Without, PerFile}, i \in {Absent, Nested}, x \in BOOLEAN,
        o \in {<<>>, <<AtCustom>>, <<AtProject>>, <<AtCustom, AtProject>>, <<BrokenInline>>,
               <<InlineOption([line_length |-> Raw("int", 77)]),
                 InlineOption([line_length |-> Raw("int", 0)])>>,
               <<InlineOption([line_length |-> Raw("int", 77)]),
                 InlineOption([source_context |-> Text("module")])>>},
        v \in {NoKeys, [line_length |-> Raw("int", 99)]}}
=============================================================================
