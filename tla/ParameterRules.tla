--------------------------- MODULE ParameterRules ---------------------------
(***************************************************************************)
(* PDF500, PDF501, PDF526 and PDF527: the parameters of a signature        *)
(* against the parameters its docstring documents.                         *)
(***************************************************************************)
EXTENDS DocumentedSource

Parameters(d) == Definition(d).parameters

ParameterNames(d) == [i \in DOMAIN Parameters(d) |-> Parameters(d)[i].name]

IsStaticMethod(d) == \E name \in Definition(d).decorators : Final[name] = "staticmethod"

\* The self or cls a method is called with without being given it.
ImplicitReceiver(d, i) ==
    /\ i = 1 /\ Parameters(d)[1].marker = "" /\ Parameters(d)[1].name \in {"self", "cls"}
    /\ Kind(Parent(d)) = "class" /\ ~IsStaticMethod(d)

Unpacked(parameter) == parameter.unpack # ""

\* The names a docstring may give to the items of **kwargs: Unpack[T] of a
\* TypedDict of the module; anything if T is something else.
TypedDict(c) == Kind(c) = "class" /\ Parent(c) = 1 /\ Definition(c).typedDict

TypedDictKeys(c) ==
    {s.names[1] : s \in {t \in Range(Definition(c).body) : t.direct /\ t.what \in {"annotate", "declare"}}}

UnpackedKeywords(d) == {p \in Range(Parameters(d)) : Unpacked(p) /\ p.marker = "**"}

UnpackTargets(p) == {c \in Definitions : TypedDict(c) /\ Definition(c).name = p.unpack}

HasParameterDocumentation(d) ==
    "parameters" \in Docstring(d).sections \/ EntriesOf(d, "parameter") # {}

DocumentedFunctions == {d \in OfKind("function") : Documented(d)}

PDF500MissingParameterDocumentation ==
    LET Missing(d) ==
            {i \in DOMAIN Parameters(d) :
                /\ ~ImplicitReceiver(d, i) /\ ~Unpacked(Parameters(d)[i])
                /\ Parameters(d)[i].name \notin NamesOf(d, ValueEntriesOf(d, "parameter"))}
        Asked(d) == ~MissingIsInert /\ ShouldCheckMissing(d, HasParameterDocumentation(d))
    IN  UNION {{OnName(d, Parameters(d)[i].name) : i \in Missing(d)} :
                  d \in {f \in DocumentedFunctions : Asked(f)}}

PDF501ExtraneousParameterDocumentation ==
    LET Allowed(d) ==
            Range(ParameterNames(d))
              \cup UNION {UNION {TypedDictKeys(c) : c \in UnpackTargets(p)} : p \in UnpackedKeywords(d)}
        KnowsItsKeywords(d) == \A p \in UnpackedKeywords(d) : UnpackTargets(p) # {}
    IN  UNION {{OnEntry(d, i) : i \in {j \in EntriesOf(d, "parameter") : Docstring(d).entries[j].name \notin Allowed(d)}} :
                  d \in {f \in DocumentedFunctions : KnowsItsKeywords(f)}}

PDF526ParameterDocumentationOrder ==
    UNION {{OnEntry(d, i) : i \in OutOfOrder(ParameterNames(d), d, EntriesOf(d, "parameter"))} :
              d \in DocumentedFunctions}

\* The stars a parameter is documented with: those of the signature, and none
\* in reST.
ExpectedMarker(parameter) == IF settings.convention = "rest" THEN "" ELSE parameter.marker

MarkerIssues(d) ==
    {i \in EntriesOf(d, "parameter") :
        \E p \in Range(Parameters(d)) :
            /\ p.name = Docstring(d).entries[i].name
            /\ ExpectedMarker(p) # Docstring(d).entries[i].marker}

PDF527ParameterVariadicMarkerStyle ==
    UNION {{OnEntry(d, i) : i \in MarkerIssues(d)} : d \in DocumentedFunctions}

\* The fix of PDF527 writes the expected spelling over the documented one.
MarkersFixed(d) ==
    [i \in DOMAIN Docstring(d).entries |->
        IF i \in MarkerIssues(d)
        THEN [Docstring(d).entries[i] EXCEPT !.marker =
                ExpectedMarker(CHOOSE p \in Range(Parameters(d)) : p.name = Docstring(d).entries[i].name)]
        ELSE Docstring(d).entries[i]]
=============================================================================
