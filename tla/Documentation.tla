---------------------------- MODULE Documentation ----------------------------
(***************************************************************************)
(* A file under the documentation rules PDF500 to PDF723: what the         *)
(* selected rules report, the fixes some of them offer, and an author who  *)
(* answers one finding after the other the way its message asks.           *)
(***************************************************************************)
EXTENDS TypeRules, OwnerRules

CONSTANT Cases  \* what a file may look like: source, settings, docstrings, rules

\* The definitions of a file are its module, the first, and classes and functions
\* in it.
ASSUME CasesAssumption ==
    \A c \in Cases :
      LET definitions == c.source.definitions
      IN  \A d \in DOMAIN definitions :
            /\ definitions[d].kind \in {"module", "class", "function"}
            /\ definitions[d].kind = "module" <=> d = 1
            /\ d # 1 => definitions[d].parent \in DOMAIN definitions

\* Whatever stands in a Google entry of what is returned or yielded is its type.
ASSUME GoogleValuesAssumption ==
    \A c \in Cases :
      c.settings.convention = "google" =>
        \A d \in DOMAIN c.strings : \A i \in DOMAIN c.strings[d].entries :
          c.strings[d].entries[i].kind \in {"return", "yield"} => c.strings[d].entries[i].type # NoType

VARIABLE selected  \* the rules that are enabled for the file

vars == <<source, settings, strings, attached, selected>>

Violations(rule) ==
    CASE rule = "PDF500" -> PDF500MissingParameterDocumentation
      [] rule = "PDF501" -> PDF501ExtraneousParameterDocumentation
      [] rule = "PDF502" -> PDF502MissingReturnDocumentation
      [] rule = "PDF503" -> PDF503ExtraneousReturnDocumentation
      [] rule = "PDF504" -> PDF504MissingYieldDocumentation
      [] rule = "PDF505" -> PDF505ExtraneousYieldDocumentation
      [] rule = "PDF506" -> PDF506MissingExceptionDocumentation
      [] rule = "PDF507" -> PDF507ExtraneousExceptionDocumentation
      [] rule = "PDF508" -> PDF508MissingPublicClassAttributeDocumentation
      [] rule = "PDF509" -> PDF509ExtraneousClassAttributeDocumentation
      [] rule = "PDF510" -> PDF510MissingPublicModuleAttributeDocumentation
      [] rule = "PDF511" -> PDF511ExtraneousModuleAttributeDocumentation
      [] rule = "PDF512" -> PDF512DuplicateClassAttributeDocumentation
      [] rule = "PDF513" -> PDF513DuplicateModuleAttributeDocumentation
      [] rule = "PDF514" -> PDF514PrivateClassAttributeOwnerDocstringForbidden
      [] rule = "PDF515" -> PDF515PrivateModuleAttributeOwnerDocstringForbidden
      [] rule = "PDF516" -> PDF516PrivateClassAttributeAttachedDocstringForbidden
      [] rule = "PDF517" -> PDF517PrivateModuleAttributeAttachedDocstringForbidden
      [] rule = "PDF518" -> PDF518PublicClassAttributeDocstringMustBeOwner
      [] rule = "PDF519" -> PDF519PublicClassAttributeDocstringMustBeAttached
      [] rule = "PDF520" -> PDF520PublicModuleAttributeDocstringMustBeOwner
      [] rule = "PDF521" -> PDF521PublicModuleAttributeDocstringMustBeAttached
      [] rule = "PDF522" -> PDF522PrivateClassAttributeDocstringMustBeOwner
      [] rule = "PDF523" -> PDF523PrivateClassAttributeDocstringMustBeAttached
      [] rule = "PDF524" -> PDF524PrivateModuleAttributeDocstringMustBeOwner
      [] rule = "PDF525" -> PDF525PrivateModuleAttributeDocstringMustBeAttached
      [] rule = "PDF526" -> PDF526ParameterDocumentationOrder
      [] rule = "PDF527" -> PDF527ParameterVariadicMarkerStyle
      [] rule = "PDF528" -> PDF528ClassAttributeDocumentationOrder
      [] rule = "PDF529" -> PDF529ModuleAttributeDocumentationOrder
      [] rule \in OwnerRuleCodes \cup {"PDF616"} -> OwnerViolations(rule)
      [] OTHER -> TypedViolations(rule)

Reported == UNION {{[rule |-> rule, about |-> f] : f \in Violations(rule)} : rule \in selected}

(***************************************************************************)
(* Which rules can be selected for a file together.                        *)
(***************************************************************************)

\* A missing, forbidden or typed documentation has no meaning without fields;
\* a few rules look at code and attached strings only.
WithoutConvention == {"PDF516", "PDF517", "PDF518", "PDF520", "PDF522", "PDF524"}
                       \cup OwnerRuleCodes \cup {"PDF616"}

DisabledRule(rule) ==
    CASE settings.convention \in UnparsedConventions -> rule \notin WithoutConvention
      [] settings.convention \in {"google", "numpy"} -> rule = "PDF722"
      [] settings.convention = "rest" -> rule \in {"PDF721", "PDF723"}

\* Private attributes are documented in one place or in none, public ones in
\* one place or in any; a type is required or forbidden.
IncompatibleRules ==
    {{"PDF514", "PDF522"}, {"PDF514", "PDF523"}, {"PDF516", "PDF522"}, {"PDF516", "PDF523"},
     {"PDF515", "PDF524"}, {"PDF515", "PDF525"}, {"PDF517", "PDF524"}, {"PDF517", "PDF525"},
     {"PDF518", "PDF519"}, {"PDF520", "PDF521"}, {"PDF522", "PDF523"}, {"PDF524", "PDF525"},
     {"PDF701", "PDF702"}, {"PDF702", "PDF703"}, {"PDF705", "PDF706"}, {"PDF706", "PDF707"},
     {"PDF709", "PDF710"}, {"PDF710", "PDF711"}, {"PDF713", "PDF714"}, {"PDF714", "PDF715"},
     {"PDF717", "PDF718"}, {"PDF718", "PDF719"}}

Selectable(rules) ==
    /\ \A rule \in rules : ~DisabledRule(rule)
    /\ \A pair \in IncompatibleRules : ~(pair \subseteq rules)

(***************************************************************************)
(* Fixes: the fix of a rule is made wherever it is offered, which is never *)
(* in a docstring whose value is not mapped to its source.                 *)
(***************************************************************************)

FixableRules == {"PDF527", "PDF701", "PDF705", "PDF709", "PDF713", "PDF717"}

Fix(rule) ==
    /\ rule \in selected \cap FixableRules
    /\ strings' = [d \in Definitions |->
                      CASE strings[d].editable = "none" -> strings[d]
                        [] strings[d].editable # "none" /\ rule # "PDF527" -> TypesFixed(rule, d)
                        [] OTHER -> [strings[d] EXCEPT !.entries = IF Kind(d) = "function" THEN MarkersFixed(d) ELSE @]]
    /\ strings' # strings
    /\ UNCHANGED <<source, settings, attached, selected>>

(***************************************************************************)
(* The author.                                                             *)
(***************************************************************************)

BlankDocstring == [more |-> FALSE, sections |-> {}, entries |-> <<>>, editable |-> "all"]
Started(d) == IF Documented(d) THEN strings[d] ELSE BlankDocstring

SectionFor == [parameter |-> "parameters", return |-> "returns", yield |-> "yields", exception |-> "raises",
               attribute |-> "attributes", warning |-> "warnings", method |-> "methods"]

\* Entries are added at the end, under the heading of their section if the
\* convention has sections; a heading goes with its last entry.
SomeType == "object"

WithEntries(d, kind, names) ==
    LET type == IF EntriesAreTyped(kind) THEN SomeType ELSE NoType
        added == SetToSeq({Entry(kind, "value", name, "", type, TRUE) : name \in names})
    IN  [Started(d) EXCEPT !.entries = @ \o added,
                           !.sections = IF Rest THEN @ ELSE @ \cup {SectionFor[kind]}]

WithoutEntries(d, kind, entries) ==
    [strings[d] EXCEPT
        !.entries = FlattenSeq([i \in DOMAIN @ |-> IF i \in entries THEN <<>> ELSE <<@[i]>>]),
        !.sections = IF EntriesOf(d, kind) \subseteq entries THEN @ \ {SectionFor[kind], TextIn(SectionFor[kind])} ELSE @]

\* A text that is no entry.
WithText(docstring, section) == [docstring EXCEPT !.sections = @ \cup {section, TextIn(section)}]

\* In reST a field goes with the one it is paired with.
EntryAndPair(d, i) == {i} \cup {j \in DOMAIN strings[d].entries : Paired(d, i, j) \/ Paired(d, j, i)}

WithEdit(d, i, by) ==
    [strings[d] EXCEPT !.entries = FlattenSeq([j \in DOMAIN @ |-> IF j = i THEN by ELSE <<@[j]>>])]

Write(d, docstring) == strings' = [strings EXCEPT ![d] = docstring]

KindFor(rule) ==
    CASE rule \in {"PDF500", "PDF501"} -> "parameter"
      [] rule \in {"PDF502", "PDF503"} -> "return"
      [] rule \in {"PDF504", "PDF505"} -> "yield"
      [] rule \in {"PDF506", "PDF507"} -> "exception"
      [] OTHER -> "attribute"

Documenting == {"PDF500", "PDF502", "PDF504", "PDF506"}

\* What is missing is written, as an entry or, where that can do, as a text.
Document(rule, f) ==
    /\ rule \in Documenting
    /\ \/ Write(f.of, WithEntries(f.of, KindFor(rule), {f.name}))
       \/ EntriesAreTyped(KindFor(rule)) /\ Write(f.of, WithText(Started(f.of), SectionFor[KindFor(rule)]))
    /\ UNCHANGED attached

\* An attribute is documented where the selected rules want it.
AttachingRule(d, public) ==
    CASE Kind(d) = "class" /\ public -> "PDF519"
      [] Kind(d) = "class" /\ ~public -> "PDF523"
      [] Kind(d) = "module" /\ public -> "PDF521"
      [] Kind(d) = "module" /\ ~public -> "PDF525"

PlacesOf(d, name) == {a.place : a \in {b \in Range(AttributesFor(d)) : b.origin # "slots" /\ name \in Range(b.names)}}

DocumentAttribute(rule, f) ==
    /\ rule \in {"PDF508", "PDF510"}
    /\ IF AttachingRule(f.of, TRUE) \in selected /\ PlacesOf(f.of, f.name) # {}
       THEN /\ \E place \in PlacesOf(f.of, f.name) : attached' = attached \cup {place}
            /\ UNCHANGED strings
       ELSE Write(f.of, WithEntries(f.of, "attribute", {f.name})) /\ UNCHANGED attached

\* What must not be there is removed; of two copies either may go.
RemovesEntry == {"PDF501", "PDF503", "PDF505", "PDF507", "PDF509", "PDF511", "PDF514", "PDF515", "PDF722",
                 "PDF512", "PDF513"}
RemovesString == {"PDF516", "PDF517", "PDF512", "PDF513"}

RemoveEntry(rule, f) ==
    LET kind == IF f.entry = 0 THEN KindFor(rule) ELSE EntryAt(f.of, f.entry).kind
    IN  /\ rule \in RemovesEntry
        /\ Write(f.of, WithoutEntries(f.of, kind, IF f.entry = 0 THEN EntriesOf(f.of, kind) ELSE EntryAndPair(f.of, f.entry)))
        /\ UNCHANGED attached

RemoveString(rule, f) ==
    /\ rule \in RemovesString
    /\ attached' = attached \ {f.place}
    /\ UNCHANGED strings

MoveToOwner(rule, f) ==
    LET names == UNION {Range(a.names) : a \in {b \in AttachedDocstrings(f.of) : b.place = f.place}}
    IN  /\ rule \in {"PDF518", "PDF520", "PDF522", "PDF524"}
        /\ Write(f.of, WithEntries(f.of, "attribute", names \ NamesOf(f.of, ValueDocumentedAttributes(f.of))))
        /\ attached' = attached \ {f.place}

MoveToAttribute(rule, f) ==
    /\ rule \in {"PDF519", "PDF521", "PDF523", "PDF525"}
    /\ Write(f.of, WithoutEntries(f.of, "attribute", EntryAndPair(f.of, f.entry)))
    /\ IF AttachedTo(f.of, f.name) # {} THEN UNCHANGED attached
       ELSE \E place \in PlacesOf(f.of, f.name) : attached' = attached \cup {place}

\* An entry is moved in front of the first one that should follow it.
Reorder(rule, f) ==
    LET entries == strings[f.of].entries
        kind == EntriesOf(f.of, entries[f.entry].kind)
        Follows(i, order) ==
            /\ i < f.entry
            /\ \E r \in DOMAIN order : /\ order[r] = entries[f.entry].name
                                      /\ entries[i].name \in Range(SubSeq(order, r + 1, Len(order)))
                                      /\ entries[i].name \notin Range(SubSeq(order, 1, r))
    IN  /\ rule \in {"PDF526", "PDF528", "PDF529"}
        /\ \E order \in {IF rule = "PDF526" THEN ParameterNames(f.of) ELSE Inventory(f.of, TRUE)}, i \in kind :
              /\ Follows(i, order) /\ \A j \in kind : j < i => ~Follows(j, order)
              /\ Write(f.of, [strings[f.of] EXCEPT !.entries = InsertAt(RemoveAt(entries, f.entry), i, entries[f.entry])])
        /\ UNCHANGED attached

\* A definition gets a docstring, or loses it.
DocumentOwner(rule, f) ==
    /\ rule \in OwnerRuleCodes
    /\ Write(f.of, BlankDocstring)
    /\ UNCHANGED attached

RemoveDocstring(rule, f) ==
    /\ rule = "PDF616"
    /\ Write(f.of, NoDocstring)
    /\ UNCHANGED attached

\* What an entry says of one thing is corrected.
TargetsOf(rule) ==
    CASE rule \in {"PDF701", "PDF702", "PDF703"} -> ParameterTargets
      [] rule \in {"PDF705", "PDF706", "PDF707"} -> ReturnTargets
      [] rule \in {"PDF709", "PDF710", "PDF711"} -> YieldTargets
      [] rule \in {"PDF713", "PDF714", "PDF715"} -> ClassAttributeTargets
      [] rule \in {"PDF717", "PDF718", "PDF719"} -> ModuleAttributeTargets

Describes == {"PDF700", "PDF704", "PDF708", "PDF712", "PDF716", "PDF720", "PDF721", "PDF723"}
Types == {"PDF701", "PDF705", "PDF709", "PDF713", "PDF717"}
Untypes == {"PDF702", "PDF706", "PDF710", "PDF714", "PDF718", "PDF713"}
Retypes == {"PDF703", "PDF707", "PDF711", "PDF715", "PDF719"}

TargetOf(rule, f) ==
    CHOOSE t \in TargetsOf(rule) : t.of = f.of /\ f.entry \in {Source(t.entry)} \cup t.entry.types

\* A type that must be there is written where a fix would, or could not.
TypeEntry(rule, f) ==
    LET target == TargetOf(rule, f)
        typed == [target EXCEPT !.annotation = IF @ = NoType THEN SomeType ELSE @]
        edit == WrittenType(typed)
    IN  /\ rule \in Types /\ EntryAt(f.of, f.entry).type = NoType
        /\ Write(f.of, IF edit.at # 0 THEN WithEdit(f.of, edit.at, edit.by)
                       ELSE WithEdit(f.of, f.entry, <<[EntryAt(f.of, f.entry) EXCEPT !.type = typed.annotation]>>))
        /\ UNCHANGED attached

\* An entry that cannot do without becomes a text.
UntypeEntry(rule, f) ==
    LET e == EntryAt(f.of, f.entry)
    IN  /\ rule \in Untypes /\ e.type # NoType
        /\ Write(f.of,
              CASE e.role = "type" -> WithEdit(f.of, f.entry, <<>>)
                [] e.role # "type" /\ EntriesAreTyped(e.kind) ->
                      WithText(WithEdit(f.of, f.entry, <<>>), SectionFor[e.kind])
                [] OTHER -> WithEdit(f.of, f.entry, <<[e EXCEPT !.type = NoType]>>))
        /\ UNCHANGED attached

CorrectEntry(rule, f) ==
    LET e == EntryAt(f.of, f.entry)
        parameter == CHOOSE p \in Range(Parameters(f.of)) : p.name = e.name
    IN  /\ rule \in Describes \cup Retypes \cup {"PDF527"}
        /\ Write(f.of, WithEdit(f.of, f.entry,
               <<CASE rule \in Describes -> [e EXCEPT !.prose = TRUE]
                   [] rule \in Retypes -> [e EXCEPT !.type = TargetOf(rule, f).annotation]
                   [] rule = "PDF527" -> [e EXCEPT !.marker = ExpectedMarker(parameter)]>>))
        /\ UNCHANGED attached

Answer(rule, f) ==
    \/ Document(rule, f)
    \/ DocumentAttribute(rule, f)
    \/ RemoveEntry(rule, f)
    \/ RemoveString(rule, f)
    \/ MoveToOwner(rule, f)
    \/ MoveToAttribute(rule, f)
    \/ Reorder(rule, f)
    \/ DocumentOwner(rule, f)
    \/ RemoveDocstring(rule, f)
    \/ TypeEntry(rule, f)
    \/ UntypeEntry(rule, f)
    \/ CorrectEntry(rule, f)

Author ==
    /\ \E rule \in selected : \E f \in Violations(rule) : Answer(rule, f)
    /\ UNCHANGED <<source, settings, selected>>

(***************************************************************************)
(* The system.                                                             *)
(***************************************************************************)

Init ==
    \E c \in Cases :
        /\ source = c.source /\ settings = c.settings
        /\ strings = c.strings /\ attached = c.attached
        /\ selected = c.selected /\ Selectable(selected)

Next == Author \/ \E rule \in FixableRules : Fix(rule)

\* Somebody who wants the file clean answers some finding as long as there
\* are any; nobody has to ask for fixes.
Spec == Init /\ [][Next]_vars /\ WF_vars(Author)

(***************************************************************************)
(* Properties.                                                             *)
(***************************************************************************)

\* Rules that may be selected together ask for nothing contradictory: an
\* author who does what each message says, in any order, mixing in fixes,
\* reaches a file without findings and it stays so.
AnswersSettle == <>[](Reported = {})

\* A definition without a docstring is reported by one of the sixteen rules
\* about missing docstrings, never by two, and by none if it is exempt or
\* inside a function.
OwnersFallToOneRule ==
    \A d \in Definitions :
        LET asked == ~Documented(d) /\ ~MissingDocstringIsExempt(d) /\ (d = 1 \/ Kind(Parent(d)) = "module" \/ MemberOfClass(d))
        IN  Cardinality({rule \in OwnerRuleCodes : OnOwner(d) \in OwnerViolations(rule)}) = IF asked THEN 1 ELSE 0

\* The index that replaces the comparison of all pairs of exception names
\* above a number of them gives the same findings.
ExceptionIndexAgrees ==
    \A d \in DocumentedFunctionFacts :
        LET documented == NamesOf(d, DocumentedExceptions(d))
            Missing(indexed) == MissingOccurrences(EffectiveOccurrences(d), documented, indexed)
        IN  /\ Missing(TRUE) = Missing(FALSE)
            /\ ExtraneousEntries(d, TRUE) = ExtraneousEntries(d, FALSE)

\* No rule reports what it did not report before a fix, of any definition and
\* name.  The fix answers findings of its own rule or, where reST fields of one
\* name are paired anew by the field it writes, comes closer to that: fewer
\* fields lack a type field.  So a run of fixes of one rule ends.
Concerns == {[rule |-> r.rule, of |-> r.about.of, name |-> r.about.name] : r \in Reported}

FieldsWithoutType ==
    LET Lacking(d, v) == EntryAt(d, v).role = "value" /\ ~\E t \in DOMAIN strings[d].entries : Paired(d, v, t)
    IN  UNION {{<<d, v>> : v \in {i \in DOMAIN strings[d].entries : Lacking(d, i)}} : d \in Definitions}

FixesOnlyRemoveFindings ==
    [][\A rule \in FixableRules :
          Fix(rule) =>
             /\ Concerns' \subseteq Concerns
             /\ \/ Cardinality(Violations(rule)') < Cardinality(Violations(rule))
                \/ /\ Cardinality(Violations(rule)') = Cardinality(Violations(rule))
                   /\ Cardinality(FieldsWithoutType') < Cardinality(FieldsWithoutType)]_vars
=============================================================================
