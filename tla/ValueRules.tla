----------------------------- MODULE ValueRules -----------------------------
(***************************************************************************)
(* PDF502 to PDF507: what a function returns, yields and raises against    *)
(* what its docstring says it does.                                        *)
(***************************************************************************)
EXTENDS DocumentedSource

\* Abstract functions and those that are one pass, ... or raise of
\* NotImplementedError promise what others do: they are not compared.
IsAbstract(d) ==
    \E name \in Definition(d).decorators :
        Final[name] \in {"abstractmethod", "abstractclassmethod", "abstractstaticmethod", "abstractproperty"}

IsStubFunction(d) ==
    LET statements == SelectSeq(Definition(d).body, LAMBDA s : s.direct)
    IN  /\ Len(statements) = 1
        /\ \/ statements[1].what \in {"pass", "ellipsis"}
           \/ /\ statements[1].what = "raise" /\ statements[1].names # <<>>
              /\ Final[statements[1].names[1]] = "NotImplementedError"

DocumentedFunctionFacts ==
    {d \in OfKind("function") : Documented(d) /\ ~IsAbstract(d) /\ ~IsStubFunction(d)}

\* Where a docstring speaks of what is returned or yielded: the section, and
\* each field that is in no section.
HasContent(entry) == entry.name # NoName \/ entry.type # NoType \/ (entry.role = "value" /\ entry.prose)

SectionOf(kind) == IF kind = "return" THEN "returns" ELSE "yields"

\* Text of such a section that is no entry: in Google docstrings, where what
\* stands before the colon of an entry is its type, a text without colon.
TextIn(section) ==
    CASE section = "returns" -> "returns text" [] section = "yields" -> "yields text" [] OTHER -> "text"

EntriesAreTyped(kind) == settings.convention = "google" /\ kind \in {"return", "yield"}

ValueDocumentationTargets(d, kind) ==
    IF SectionOf(kind) \in Docstring(d).sections
    THEN {[entry |-> 0, hasValue |-> TRUE,
           hasContent |-> EntriesOf(d, kind) # {} \/ TextIn(SectionOf(kind)) \in Docstring(d).sections]}
    ELSE {[entry |-> i, hasContent |-> HasContent(Docstring(d).entries[i]),
           hasValue |-> Docstring(d).entries[i].role = "value"] : i \in EntriesOf(d, kind)}

MissingValue(d, kind) ==
    LET targets == ValueDocumentationTargets(d, kind)
    IN  /\ ~MissingIsInert
        /\ ~\E t \in targets : t.hasValue /\ t.hasContent
        /\ ShouldCheckMissing(d, targets # {})

OnTarget(d, target) == Finding(d, NoName, target.entry, NoPlace)

PDF502MissingReturnDocumentation ==
    {OnOwner(d) : d \in {f \in DocumentedFunctionFacts :
        MeaningfulReturns(f) /\ ~AnyYields(f) /\ MissingValue(f, "return")}}

\* A documented None is tolerated where None is returned explicitly.
PDF503ExtraneousReturnDocumentation ==
    LET Tolerated(d, t) == ExplicitNoneReturns(d) /\ ~AnyYields(d) /\ t.hasContent
    IN  UNION {{OnTarget(d, t) : t \in {u \in ValueDocumentationTargets(d, "return") : ~Tolerated(d, u)}} :
                  d \in {f \in DocumentedFunctionFacts : ~(MeaningfulReturns(f) /\ ~AnyYields(f))}}

PDF504MissingYieldDocumentation ==
    {OnOwner(d) : d \in {f \in DocumentedFunctionFacts : MeaningfulYields(f) /\ MissingValue(f, "yield")}}

PDF505ExtraneousYieldDocumentation ==
    LET Tolerated(d, t) == ExplicitNoneYields(d) /\ t.hasContent
    IN  UNION {{OnTarget(d, t) : t \in {u \in ValueDocumentationTargets(d, "yield") : ~Tolerated(d, u)}} :
                  d \in {f \in DocumentedFunctionFacts : ~MeaningfulYields(f)}}

(***************************************************************************)
(* Exceptions.                                                             *)
(***************************************************************************)

EffectiveOccurrences(d) ==
    IF settings.assertions THEN ExceptionOccurrences(d)
    ELSE SelectSeq(ExceptionOccurrences(d), LAMBDA o : o.origin = "raise")

Qualified(name) == Final[name] # name

\* Two names may be the same exception: equal, or equal behind the dots and
\* not both dotted.
ExceptionNamesMatch(raised, documented) ==
    \/ raised = documented
    \/ ~(Qualified(raised) /\ Qualified(documented)) /\ Final[raised] = Final[documented]

\* Mutant: a bare name finds only bare names.
IndexMatchesBareNames(names, name) ==
    IF Qualified(name)
    THEN name \in {n \in names : Qualified(n)} \/ Final[name] \in {n \in names : ~Qualified(n)}
    ELSE name \in {n \in names : ~Qualified(n)}

\* The same question to the index of a set of names.
IndexMatches(names, name) ==
    IF Qualified(name)
    THEN name \in {n \in names : Qualified(n)} \/ Final[name] \in {n \in names : ~Qualified(n)}
    ELSE Final[name] \in {Final[n] : n \in names}

PairwiseMatches(names, name) == \E n \in names : ExceptionNamesMatch(name, n)

MaxPairwiseComparisons == 8

\* Above so many comparisons the names are indexed first.
ShouldIndex(left, right, deduplicate) ==
    left * right + (IF deduplicate THEN (left * (left - 1)) \div 2 ELSE 0) > MaxPairwiseComparisons

ExceptionMatches(indexed, names, name) ==
    IF indexed THEN IndexMatches(names, name) ELSE PairwiseMatches(names, name)

DocumentedExceptions(d) ==
    {i \in EntriesOf(d, "exception") : Docstring(d).entries[i].name # NoName}

HasExceptionDocumentation(d) == "raises" \in Docstring(d).sections \/ EntriesOf(d, "exception") # {}

\* Occurrences of exceptions not seen before and not documented.
MissingOccurrences(occurrences, documented, indexed) ==
    LET Seen[i \in 1..(Len(occurrences) + 1)] ==
            IF i = 1 THEN {}
            ELSE Seen[i - 1] \cup (IF ExceptionMatches(indexed, Seen[i - 1], occurrences[i - 1].name) THEN {}
                                   ELSE {occurrences[i - 1].name})
    IN  {i \in DOMAIN occurrences :
            /\ ~ExceptionMatches(indexed, Seen[i], occurrences[i].name)
            /\ ~ExceptionMatches(indexed, documented, occurrences[i].name)}

MissingIndexed(d) == ShouldIndex(Len(EffectiveOccurrences(d)), Cardinality(DocumentedExceptions(d)), TRUE)

PDF506MissingExceptionDocumentation ==
    LET Missing(d) == MissingOccurrences(EffectiveOccurrences(d), NamesOf(d, DocumentedExceptions(d)), MissingIndexed(d))
        Asked(d) == /\ ~MissingIsInert /\ EffectiveOccurrences(d) # <<>>
                    /\ ShouldCheckMissing(d, HasExceptionDocumentation(d))
    IN  UNION {{OnName(d, EffectiveOccurrences(d)[i].name) : i \in Missing(d)} :
                  d \in {f \in DocumentedFunctionFacts : Asked(f)}}

OccurrenceNames(d) == {o.name : o \in Range(EffectiveOccurrences(d))}

ExtraneousIndexed(d) == ShouldIndex(Len(EffectiveOccurrences(d)), Cardinality(DocumentedExceptions(d)), FALSE)

ExtraneousEntries(d, indexed) ==
    {i \in DocumentedExceptions(d) :
        ~ExceptionMatches(indexed, OccurrenceNames(d), Docstring(d).entries[i].name)}

PDF507ExtraneousExceptionDocumentation ==
    UNION {{OnEntry(d, i) : i \in ExtraneousEntries(d, ExtraneousIndexed(d))} : d \in DocumentedFunctionFacts}
=============================================================================
