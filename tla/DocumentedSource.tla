-------------------------- MODULE DocumentedSource --------------------------
(***************************************************************************)
(* What the documentation rules PDF500 to PDF723 read: the source of one   *)
(* Python file as the PDF category collects it, and its documentation.     *)
(*                                                                         *)
(* A file is a path and a sequence of definitions in visiting order, the   *)
(* module first.  The body of a definition is the sequence of those        *)
(* statements the collectors look at; a statement nested in a compound one *)
(* follows it, with direct = FALSE.  Names are strings whose spelling only *)
(* the constants below look into.                                          *)
(***************************************************************************)
EXTENDS Integers, SequencesExt, FiniteSetsExt

CONSTANTS
    Underscored,  \* names that start with an underscore
    Dunders,      \* names of more than two pairs of underscores, __x__
    Final         \* what follows the last dot of a dotted name, as a function

VARIABLES
    source,    \* the code: path, definitions
    settings,  \* the effective settings of the file
    strings,   \* the docstring of each definition, NoDocstring without
    attached   \* places whose statement a string follows

NoName == ""
NoType == ""

\* A docstring: whether it says more than its summary, its sections, its
\* entries, and where a fix may write: "all" over it, "inside" if the closing
\* quotes are on the last line of its last entry, or "none" if its value is not
\* mapped to its source (escapes, concatenated literals).
NoDocstring == [more |-> FALSE, sections |-> {"none"}, entries |-> <<>>, editable |-> "none"]

\* One field, section entry or item of a docstring with one name.  A field
\* that only gives a type is a reST :type:, :rtype:, :ytype: or :vartype:, and
\* has prose if something below its line is no part of the type.
Entry(kind, role, name, marker, type, prose) ==
    [kind |-> kind, role |-> role, name |-> name, marker |-> marker, type |-> type, prose |-> prose]

UnparsedConventions == {"none", "pep257"}
ParsedConventions == {"google", "numpy", "rest"}

(***************************************************************************)
(* The path.                                                               *)
(***************************************************************************)

\* The directories a file's dotted name begins with: those up to the first
\* ancestor without an __init__ file, and all of them if there is no file.
PackageParts ==
    LET path == source.path
        Inside(i) == \A j \in i..Len(path.directories) : path.directories[j].initializer
    IN  {path.directories[i].name : i \in {j \in DOMAIN path.directories : path.existing => Inside(j)}}

PackageInitializer == source.path.stem = "__init__"

PublicPath ==
    LET parts == PackageParts \cup (IF PackageInitializer THEN {} ELSE {source.path.stem})
    IN  parts \cap Underscored = {}

(***************************************************************************)
(* Definitions.                                                            *)
(***************************************************************************)

Definitions == DOMAIN source.definitions
Definition(d) == source.definitions[d]
Kind(d) == Definition(d).kind
OfKind(kind) == {d \in Definitions : Kind(d) = kind}
Parent(d) == Definition(d).parent

\* A definition and those around it, without the module.
Enclosing(d) ==
    LET outwards[e \in Definitions] == IF e = 1 THEN {} ELSE {e} \cup outwards[Parent(e)]
    IN  outwards[d]

PrivateName(name) == name \in Underscored \ {"__init__", "__new__", "__call__"}

PublicDefinition(d) == \A e \in Enclosing(d) : ~PrivateName(Definition(e).name)

Docstring(d) == strings[d]
Documented(d) == strings[d] # NoDocstring

HasMoreThanSummary(d) == Docstring(d).more \/ Docstring(d).sections # {} \/ Docstring(d).entries # <<>>

\* A finding: the definition it is about, the name it names, the entry of the
\* docstring or the place of the attached docstring it points at.
Finding(d, name, entry, place) == [of |-> d, name |-> name, entry |-> entry, place |-> place]
NoPlace == <<0, 0>>
OnOwner(d) == Finding(d, NoName, 0, NoPlace)
OnName(d, name) == Finding(d, name, 0, NoPlace)
OnEntry(d, i) == Finding(d, Docstring(d).entries[i].name, i, NoPlace)

EntriesOf(d, kind) == {i \in DOMAIN Docstring(d).entries : Docstring(d).entries[i].kind = kind}
ValueEntriesOf(d, kind) == {i \in EntriesOf(d, kind) : Docstring(d).entries[i].role = "value"}
NamesOf(d, entries) == {Docstring(d).entries[i].name : i \in entries}

\* Whether the settings ask for what a docstring leaves out.
ShouldCheckMissing(d, relevant) ==
    \/ relevant
    \/ /\ settings.missing # "has-section"
       /\ settings.publicOnly => PublicDefinition(d)
       /\ settings.missing = "all" \/ HasMoreThanSummary(d)

MissingIsInert == settings.convention \in UnparsedConventions

\* Documented items in an order that differs from that of the code: each
\* known one, at its first mention, that stands after one of a higher rank.
OutOfOrder(ranked, d, items) ==
    LET Name(i) == Docstring(d).entries[i].name
        Rank(i) == Min({r \in DOMAIN ranked : ranked[r] = Name(i)})
        known == {i \in items : Name(i) \in Range(ranked) /\ \A j \in items : j < i => Name(j) # Name(i)}
    IN  {i \in known : \E j \in known : j < i /\ Rank(j) > Rank(i)}

(***************************************************************************)
(* What a function body says.                                              *)
(***************************************************************************)

Does(d, what) == \E i \in DOMAIN Definition(d).body : Definition(d).body[i].what = what

MeaningfulReturns(d) == Does(d, "return value")
ExplicitNoneReturns(d) == Does(d, "return none")
AnyYields(d) == \E what \in {"yield value", "yield none", "yield"} : Does(d, what)
MeaningfulYields(d) == Does(d, "yield value")
ExplicitNoneYields(d) == Does(d, "yield none")

\* Raised and asserted exceptions in order; a raise of a variable has no name.
ExceptionOccurrences(d) ==
    LET Named(s) == s.what = "assert" \/ (s.what = "raise" /\ s.names # <<>>)
        Occurrence(s) == IF s.what = "assert" THEN [name |-> "AssertionError", origin |-> "assert"]
                         ELSE [name |-> s.names[1], origin |-> "raise"]
    IN  LET raising == SelectSeq(Definition(d).body, Named)
        IN  [i \in DOMAIN raising |-> Occurrence(raising[i])]

(***************************************************************************)
(* Attributes.                                                             *)
(***************************************************************************)

Binds(statement) == statement.what \in {"assign", "annotate", "declare"}

\* The function that initialises the instances of a class assigns to self.
Initializes(d, class) == Kind(d) = "function" /\ Definition(d).name = "__init__" /\ Parent(d) = class

\* What binding __slots__ in a class does to the slots known before: a bare
\* annotation nothing, a literal declares its members, all else forgets them.
SlotBinding(statement) ==
    CASE statement.what = "declare" -> "preserve"
      [] Binds(statement) /\ statement.what # "declare" /\ statement.direct /\ statement.literal -> "candidate"
      [] OTHER -> "reset"

LiteralSlotMembers(statement) == SelectSeq(statement.members, LAMBDA m : m \notin {"__dict__", "__weakref__"})

\* The literal that the slots of a class are: that of the last binding which
\* is more than a bare annotation.
DeclaresSlots(class, i) ==
    LET body == Definition(class).body
        BindsSlots(j) == "__slots__" \in Range(body[j].names)
    IN  /\ BindsSlots(i) /\ SlotBinding(body[i]) = "candidate"
        /\ LiteralSlotMembers(body[i]) # <<>>
        /\ \A j \in (i + 1)..Len(body) : BindsSlots(j) => SlotBinding(body[j]) = "preserve"

Attribute(names, place, instance, origin, type) ==
    [names |-> names, place |-> place, instance |-> instance, origin |-> origin, type |-> type]

\* The attributes of one statement of definition d, which belong to owner.
StatementAttributes(d, i, owner) ==
    LET s == Definition(d).body[i]
        own == Attribute(s.names, <<d, i>>, d # owner,
                         IF d = owner THEN "assignment" ELSE "initializer",
                         IF s.what = "assign" THEN NoType ELSE s.type)
        slots == Attribute(LiteralSlotMembers(s), <<d, i>>, TRUE, "slots", NoType)
    IN  IF ~Binds(s) THEN <<>>
        ELSE IF Kind(d) = "class" /\ DeclaresSlots(d, i) THEN <<own, slots>> ELSE <<own>>

\* The attributes of a module or class in source order: its own statements
\* and, at the place of __init__, those of __init__.
AttributesFor(owner) ==
    LET Body(d) == FlattenSeq([i \in DOMAIN Definition(d).body |-> StatementAttributes(d, i, owner)])
        At(i) == LET s == Definition(owner).body[i]
                 IN  IF s.what = "define"
                     THEN IF Initializes(s.defines, owner) THEN Body(s.defines) ELSE <<>>
                     ELSE StatementAttributes(owner, i, owner)
    IN  IF Kind(owner) = "function" THEN <<>>
        ELSE FlattenSeq([i \in DOMAIN Definition(owner).body |-> At(i)])

\* A string is the docstring of the attributes of the statement before it.
AttachedDocstrings(owner) ==
    {a \in Range(AttributesFor(owner)) : a.origin # "slots" /\ a.place \in attached}

AttachedTo(owner, name) == {a \in AttachedDocstrings(owner) : name \in Range(a.names)}
=============================================================================
