--------------------------- MODULE MCDocumentation ---------------------------
(***************************************************************************)
(* Small files that bring every documentation rule to report, each under   *)
(* the settings and the selections of rules that matter for it.            *)
(***************************************************************************)
EXTENDS Documentation

MCUnderscored == {"_a", "_t", "_C", "_m", "_p", "__init__", "__str__", "__slots__"}
MCDunders == {"__init__", "__str__", "__slots__"}
MCFinal ==
    [n \in {"staticmethod", "abc.abstractmethod", "property", "override", "overload", "NotImplementedError",
            "ValueError", "KeyError", "AssertionError", "lib.ValueError", "other.ValueError"} |->
       CASE n = "abc.abstractmethod" -> "abstractmethod"
         [] n \in {"lib.ValueError", "other.ValueError"} -> "ValueError"
         [] OTHER -> n]

(***************************************************************************)
(* Code.                                                                   *)
(***************************************************************************)

Does_(what) == [what |-> what, names |-> <<>>, type |-> NoType, literal |-> FALSE, members |-> <<>>,
                direct |-> TRUE, defines |-> 0]
Assigns(names) == [Does_("assign") EXCEPT !.names = names]
Annotates(name, type) == [Does_("annotate") EXCEPT !.names = <<name>>, !.type = type]
Slots(members) == [Assigns(<<"__slots__">>) EXCEPT !.literal = TRUE, !.members = members]
Raises(name) == [Does_("raise") EXCEPT !.names = <<name>>]
Defines(d) == [Does_("define") EXCEPT !.defines = d]

Item(kind, name, parent, body) ==
    [kind |-> kind, name |-> name, parent |-> parent, decorators |-> {}, bases |-> {}, typedDict |-> FALSE,
     parameters |-> <<>>, returns |-> NoType, yielded |-> NoType, body |-> body]
Module(body) == Item("module", "", 0, body)
Parameter(name, marker, type, unpack) == [name |-> name, marker |-> marker, type |-> type, unpack |-> unpack]

Path(directories, stem) == [directories |-> directories, stem |-> stem, existing |-> TRUE]
Directory(name, initializer) == [name |-> name, initializer |-> initializer]
PlainPath == Path(<<Directory("home", FALSE), Directory("p", TRUE)>>, "m")
File(definitions) == [path |-> PlainPath, definitions |-> definitions]

(***************************************************************************)
(* Documentation.                                                          *)
(***************************************************************************)

Doc(sections, entries) == [more |-> TRUE, sections |-> sections, entries |-> entries, editable |-> "all"]
Summary == BlankDocstring
Value(kind, name) == Entry(kind, "value", name, "", NoType, TRUE)
Typed_(kind, name, type) == Entry(kind, "value", name, "", type, TRUE)
TypeField(kind, name, type) == Entry(kind, "type", name, "", type, FALSE)
Undescribed(entry) == [entry EXCEPT !.prose = FALSE]

Google ==
    [convention |-> "google", missing |-> "non-summary", publicOnly |-> FALSE, assertions |-> TRUE,
     initAttributes |-> TRUE, optional |-> {"override"}, forbidden |-> {"overload"}, noTypeBases |-> {"Enum"}]
Numpy == [Google EXCEPT !.convention = "numpy"]
ReST == [Google EXCEPT !.convention = "rest"]
Pep257 == [Google EXCEPT !.convention = "pep257"]
All(s) == [s EXCEPT !.missing = "all"]
HasSection(s) == [s EXCEPT !.missing = "has-section"]

(***************************************************************************)
(* Selections.                                                             *)
(***************************************************************************)

Contents == {"PDF500", "PDF501", "PDF502", "PDF503", "PDF504", "PDF505", "PDF506", "PDF507", "PDF508", "PDF509",
             "PDF510", "PDF511", "PDF512", "PDF513", "PDF526", "PDF527", "PDF528", "PDF529", "PDF616"}
AttributeContents == {"PDF508", "PDF509", "PDF510", "PDF511", "PDF512", "PDF513", "PDF528", "PDF529"}
PublicInOwner == {"PDF518", "PDF520"}
PublicAttached == {"PDF519", "PDF521"}
PrivateInOwner == {"PDF522", "PDF524"}
PrivateAttached == {"PDF523", "PDF525"}
PrivateNowhere == {"PDF514", "PDF515", "PDF516", "PDF517"}
Descriptions == {"PDF700", "PDF704", "PDF708", "PDF712", "PDF716", "PDF720", "PDF721", "PDF722", "PDF723"}
TypesRequired == Types \cup Retypes
TypesForbidden == Untypes \ {"PDF713"}

Case(code, s, docs, places, rules) ==
    LET applicable == CASE s.convention \in {"google", "numpy"} -> rules \ {"PDF722"}
                        [] s.convention = "rest" -> rules \ {"PDF721", "PDF723"}
                        [] OTHER -> rules \cap WithoutConvention
    IN  [source |-> code, settings |-> s, strings |-> docs, attached |-> places, selected |-> applicable]

(***************************************************************************)
(* A function with parameters of every kind, and the dictionary type that  *)
(* names its keywords.                                                     *)
(***************************************************************************)

Signature ==
    File(<<Module(<<Defines(2), Defines(3)>>),
           [Item("class", "T", 1, <<Annotates("k", "int")>>) EXCEPT !.typedDict = TRUE],
           [Item("function", "f", 1, <<Does_("pass")>>) EXCEPT !.parameters =
              <<Parameter("a", "", "int", ""), Parameter("args", "*", NoType, ""), Parameter("kw", "**", NoType, "T")>>]>>)

ParameterDocs ==
    {<<Value("parameter", "args"), Undescribed(Value("parameter", "z")), Value("parameter", "k")>>,
     <<Value("parameter", "kw"), Typed_("parameter", "a", "str"), Value("parameter", "a")>>}
ParameterFields ==
    {<<TypeField("parameter", "args", "str"), TypeField("parameter", "a", "int"), Value("parameter", "args"), Value("parameter", "z")>>,
     <<Value("parameter", "a"), Value("parameter", "a"), TypeField("parameter", "a", NoType), Undescribed(Value("parameter", "args"))>>}

\* Fields of one name, some with a type and some without, so that a field that
\* is written pairs with another one than it is written behind; fields that no
\* fix writes to.
Twins ==
    {<<Typed_("parameter", "a", "int"), Value("parameter", "a")>>,
     <<Typed_("parameter", "a", "str"), Typed_("parameter", "a", "int"), Value("parameter", "a")>>,
     <<Typed_("parameter", "a", "int"), TypeField("parameter", "a", "int"), Value("parameter", "a"), Value("parameter", "a")>>,
     <<Value("parameter", "a"), [TypeField("parameter", "a", NoType) EXCEPT !.prose = TRUE], Value("parameter", "a")>>}

ParameterCases ==
    LET docs(sections, entries) == <<NoDocstring, NoDocstring, Doc(sections, entries)>>
        types == {TypesRequired, TypesForbidden}
    IN  {Case(Signature, s, docs({"parameters"}, e), {}, Contents \cup Descriptions \cup t) :
            s \in {Google, Numpy}, e \in ParameterDocs, t \in types}
        \cup {Case(Signature, ReST, docs({}, e), {}, Contents \cup Descriptions \cup t) :
            e \in ParameterFields, t \in types}
        \cup {Case(Signature, ReST, <<NoDocstring, NoDocstring, [Doc({}, e) EXCEPT !.editable = place]>>, {},
                   {"PDF500", "PDF700", "PDF722"} \cup TypesRequired) :
            e \in Twins, place \in {"all", "inside", "none"}}

(***************************************************************************)
(* Functions that return, yield, both or neither.                          *)
(***************************************************************************)

Bodies ==
    {<<Does_("return value")>>, <<Does_("return none"), Does_("yield none")>>,
     <<Does_("return value"), Does_("yield value")>>, <<Does_("yield"), Does_("return none")>>, <<Does_("pass")>>}

ValueFields ==
    {<<Undescribed(Value("return", NoName)), Value("yield", NoName)>>,
     <<TypeField("return", NoName, "str"), Typed_("yield", NoName, "str")>>,
     <<>>}

ValueCases ==
    LET code(body) ==
            File(<<Module(<<Defines(2)>>),
                   [Item("function", "f", 1, body) EXCEPT !.returns = "int", !.yielded = "int"]>>)
        Plain(entries, s) ==
            LET items == SelectSeq(entries, LAMBDA e : e.role = "value")
            IN  [i \in DOMAIN items |-> IF s = Google /\ items[i].type = NoType THEN [items[i] EXCEPT !.type = OpaqueType]
                                        ELSE items[i]]
        Sections(entries, s) ==
            CASE entries # <<>> -> {"returns", "yields"}
              [] entries = <<>> /\ s = Google -> {"returns", "yields", "yields text"}
              [] OTHER -> {"returns"}
        docs(sections, entries) == <<Summary, Doc(sections, entries)>>
        rules == Contents \cup Descriptions \cup TypesRequired
    IN  {Case(code(b), ReST, docs({}, e), {}, rules) : b \in Bodies, e \in ValueFields}
        \cup {Case(code(b), s, docs(Sections(e, s), Plain(e, s)), {}, rules) :
                 b \in Bodies, e \in ValueFields, s \in {Google, Numpy}}
        \cup {Case(code(<<Does_("return value"), Does_("yield value")>>), ReST,
                   docs({}, <<TypeField("return", NoName, "int"), Undescribed(Typed_("yield", NoName, "str"))>>), {},
                   Contents \cup Descriptions \cup TypesForbidden),
              Case(code(<<Does_("return value")>>), Numpy, docs({"returns"}, <<Typed_("return", NoName, "str")>>), {},
                   Contents \cup Descriptions \cup TypesForbidden),
              Case(code(<<Does_("yield value")>>), Google,
                   docs({"yields"}, <<Undescribed(Typed_("yield", NoName, "str")), Undescribed(Value("warning", "UserWarning"))>>), {},
                   Contents \cup Descriptions \cup TypesForbidden)}

(***************************************************************************)
(* More exceptions than are compared in pairs.                             *)
(***************************************************************************)

ExceptionCases ==
    LET code(names) ==
            File(<<Module(<<Defines(2)>>),
                   Item("function", "f", 1, [i \in DOMAIN names |-> IF names[i] = "assert" THEN Does_("assert") ELSE Raises(names[i])])>>)
        raised == {<<"lib.ValueError", "ValueError", "other.ValueError">>, <<"ValueError", "lib.ValueError", "assert", "KeyError">>}
        documented == {<<"other.ValueError", "KeyError">>, <<"ValueError", "AssertionError", "ValueError">>, <<"KeyError">>}
    IN  {Case(code(r), s, <<Summary, Doc({"raises"}, [i \in DOMAIN d |-> Undescribed(Value("exception", d[i]))])>>, {},
              Contents \cup {"PDF720"}) :
            r \in raised, d \in documented, s \in {Google, [Numpy EXCEPT !.assertions = FALSE]}}

(***************************************************************************)
(* A class with slots, class and instance attributes; a module.            *)
(***************************************************************************)

Attributed ==
    File(<<Module(<<Assigns(<<"_p">>), Defines(2), Annotates("q", "int")>>),
           Item("class", "C", 1, <<Slots(<<"s">>), Annotates("a", "int"), Defines(3)>>),
           Item("function", "__init__", 2, <<Assigns(<<"b">>), Assigns(<<"_t">>)>>)>>)

AttributeDocs ==
    {Doc({"attributes"}, <<Value("attribute", "b"), Undescribed(Value("attribute", "_t")), Typed_("attribute", "s", "str")>>),
     NoDocstring}

AttributePolicies ==
    {PublicInOwner \cup PrivateInOwner, PublicAttached \cup PrivateNowhere, PublicAttached \cup PrivateInOwner,
     PublicInOwner \cup PrivateAttached}

AttributeCases ==
    {Case(Attributed, s, <<Doc(IF s.convention = "rest" THEN {} ELSE {"attributes"}, <<Value("attribute", "_p")>>),
                            IF s.convention = "rest" /\ d # NoDocstring THEN [d EXCEPT !.sections = {}] ELSE d, NoDocstring>>,
          places, AttributeContents \cup policy) :
        s \in {Google, [ReST EXCEPT !.initAttributes = FALSE], Pep257}, d \in AttributeDocs,
        places \in {{<<3, 1>>, <<2, 2>>}, {<<1, 3>>, <<3, 2>>}}, policy \in AttributePolicies}

\* The same in a module, and descriptions and types of attributes.
ModuleCases ==
    LET code == File(<<Module(<<Assigns(<<"_p">>), Annotates("q", "int")>>)>>)
        entries == <<Typed_("attribute", "q", "str"), Undescribed(Value("attribute", "_p")), Value("attribute", "z")>>
    IN  {Case(code, s, <<Doc(IF s = ReST THEN {} ELSE {"attributes"}, entries)>>, places,
              AttributeContents \cup {"PDF716"} \cup types \cup policy) :
            s \in {Google, ReST}, places \in {{<<1, 1>>}, {<<1, 2>>}}, policy \in AttributePolicies,
            types \in {{"PDF717", "PDF719"}, {"PDF718"}}}

ClassCases ==
    LET code == File(<<Module(<<Defines(2)>>), Item("class", "C", 1, <<Annotates("a", "int"), Assigns(<<"b">>)>>)>>)
        entries == <<Value("attribute", "b"), Undescribed(Typed_("attribute", "a", "str")),
                     Value("attribute", "z"), Undescribed(Value("method", "m"))>>
    IN  {Case(code, s, <<Summary, Doc({"attributes"}, entries)>>, {},
              AttributeContents \cup {"PDF712", "PDF723"} \cup types) :
            s \in {Google, Numpy}, types \in {{"PDF713", "PDF715"}, {"PDF714"}}}

\* The attributes of an enumeration have no types of their own.
EnumCases ==
    LET code == File(<<Module(<<Defines(2)>>),
                       [Item("class", "E", 1, <<Assigns(<<"a">>), Annotates("q", "int")>>) EXCEPT !.bases = {"Enum"}]>>)
        rules == {"PDF508", "PDF509", "PDF528", "PDF713", "PDF715", "PDF722"}
    IN  {Case(code, s, <<Summary, Doc({"attributes"}, <<Value("attribute", "q"), Typed_("attribute", "a", "str")>>)>>, {}, rules) :
            s \in {Google, Numpy}}
        \cup {Case(code, ReST, <<Summary, [Doc({}, fields) EXCEPT !.editable = place]>>, {}, rules) :
                 fields \in {<<Value("attribute", "q"), TypeField("attribute", "q", "str"), TypeField("attribute", "a", "int")>>},
                 place \in {"all", "inside"}}

(***************************************************************************)
(* Definitions of every kind, in packages that are private or not.         *)
(***************************************************************************)

Nested(decorators) ==
    <<Module(<<Defines(2), Defines(6), Defines(7)>>),
      Item("class", "C", 1, <<Defines(3), Defines(4), Defines(5), Defines(10)>>),
      Item("function", "__init__", 2, <<Does_("pass")>>),
      [Item("function", "m", 2, <<Does_("pass")>>) EXCEPT !.decorators = decorators],
      Item("class", "_C", 2, <<Defines(8)>>),
      Item("function", "_m", 1, <<Defines(9)>>),
      [Item("function", "f", 1, <<Does_("pass")>>) EXCEPT !.decorators = decorators],
      Item("function", "__str__", 5, <<Does_("pass")>>),
      Item("class", "T", 6, <<>>),
      Item("class", "D", 2, <<Defines(11)>>),
      Item("function", "__str__", 10, <<Does_("pass")>>)>>

OwnerCases ==
    LET paths == {PlainPath, Path(<<Directory("_p", TRUE)>>, "__init__"), Path(<<Directory("p", TRUE)>>, "__init__"),
                  Path(<<Directory("_p", FALSE), Directory("p", FALSE)>>, "_m")}
        Docs(documented) == [d \in 1..11 |-> IF d \in documented THEN Summary ELSE NoDocstring]
        docs == {Docs({2, 3, 6, 8}), Docs({1, 4, 5, 7, 10})}
    IN  {Case([path |-> p, definitions |-> Nested(d)], s, strs, {}, OwnerRuleCodes \cup {"PDF616"}) :
            p \in paths, d \in {{}, {"override"}, {"overload"}}, s \in {Google, Pep257}, strs \in docs}

MCCases == ParameterCases \cup ValueCases \cup ExceptionCases \cup AttributeCases \cup ModuleCases
             \cup ClassCases \cup EnumCases \cup OwnerCases
=============================================================================
