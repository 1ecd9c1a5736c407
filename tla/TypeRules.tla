------------------------------ MODULE TypeRules ------------------------------
(***************************************************************************)
(* PDF700 to PDF723: descriptions and types of documented parameters,      *)
(* return and yield values, attributes, exceptions, warnings and methods.  *)
(***************************************************************************)
EXTENDS ParameterRules, ValueRules, AttributeRules

OpaqueType == "prose"  \* a documented type that is no type expression

Rest == settings.convention = "rest"

EntryAt(d, i) == Docstring(d).entries[i]

(***************************************************************************)
(* In reST a value field and a type field of one key, paired in order of   *)
(* appearance, are one logical entry; elsewhere every entry is one.        *)
(***************************************************************************)

Ordinal(d, i) ==
    Cardinality({j \in 1..i : /\ EntryAt(d, j).kind = EntryAt(d, i).kind
                              /\ EntryAt(d, j).role = EntryAt(d, i).role
                              /\ EntryAt(d, j).name = EntryAt(d, i).name})

Paired(d, v, t) ==
    /\ EntryAt(d, v).role = "value" /\ EntryAt(d, t).role = "type"
    /\ EntryAt(d, v).kind = EntryAt(d, t).kind /\ EntryAt(d, v).name = EntryAt(d, t).name
    /\ Ordinal(d, v) = Ordinal(d, t)

OrphanTypes(d) ==
    {t \in DOMAIN Docstring(d).entries :
        EntryAt(d, t).role = "type" /\ ~\E v \in DOMAIN Docstring(d).entries : Paired(d, v, t)}

Logical(value, types, type) == [value |-> value, types |-> types, type |-> type]

LogicalEntries(d, kind) ==
    LET Typed(entries) == {i \in entries : EntryAt(d, i).type # NoType}
        TypeOf(v) == {t \in DOMAIN Docstring(d).entries : Paired(d, v, t)}
        WithType(v) == Logical(v, Typed({v} \cup TypeOf(v)), Max(TypeOf(v) \cup {0}))
        Orphan(t) == Logical(0, Typed({t}), t)
    IN  {WithType(v) : v \in ValueEntriesOf(d, kind)}
          \cup {Orphan(t) : t \in OrphanTypes(d) \cap EntriesOf(d, kind)}

Source(logical) == IF logical.value # 0 THEN logical.value ELSE logical.type

(***************************************************************************)
(* What each kind of entry is compared with.                               *)
(***************************************************************************)

Target(d, logical, annotation) == [of |-> d, entry |-> logical, annotation |-> annotation]

NameOf(d, logical) == EntryAt(d, Source(logical)).name

ParameterTargets ==
    LET Named(d, name) == {i \in DOMAIN Parameters(d) : ~ImplicitReceiver(d, i) /\ Parameters(d)[i].name = name}
    IN  UNION {UNION {{Target(d, l, Parameters(d)[i].type) : i \in Named(d, NameOf(d, l))} :
                         l \in LogicalEntries(d, "parameter")} :
                  d \in DocumentedFunctions}

ReturnTargets ==
    UNION {{Target(d, l, Definition(d).returns) : l \in LogicalEntries(d, "return")} :
              d \in {f \in DocumentedFunctionFacts : ~AnyYields(f)}}

\* The type a generator yields is the first one of its annotation.
YieldTargets ==
    UNION {{Target(d, l, Definition(d).yielded) : l \in LogicalEntries(d, "yield")} :
              d \in {f \in DocumentedFunctionFacts : AnyYields(f)}}

\* The annotation of an attribute is that of its first annotated assignment.
AttributeAnnotation(owner, name, includeInstance) ==
    LET annotated == SelectSeq(AttributesFor(owner),
                         LAMBDA a : (includeInstance \/ ~a.instance) /\ a.type # NoType /\ name \in Range(a.names))
    IN  IF annotated = <<>> THEN NoType ELSE annotated[1].type

AttributeTargets(kind, includeInstance) ==
    LET Of(owner, l) == Target(owner, l, AttributeAnnotation(owner, NameOf(owner, l), includeInstance))
        Known(owner, names) == {l \in LogicalEntries(owner, "attribute") : NameOf(owner, l) \in names}
    IN  UNION {{Of(p[1], l) : l \in Known(p[1], p[2])} :
                  p \in {<<o, InventoryNames(o, includeInstance)>> : o \in DocumentedOwners(kind)}}

ClassAttributeTargets == AttributeTargets("class", TRUE)
ModuleAttributeTargets == AttributeTargets("module", FALSE)

(***************************************************************************)
(* The questions asked of a target.                                        *)
(***************************************************************************)

OnSource(t) == OnEntry(t.of, Source(t.entry))

MissingDescription(targets) ==
    {OnSource(t) : t \in {u \in targets : u.entry.value # 0 /\ ~EntryAt(u.of, u.entry.value).prose}}

Untyped(targets) == {t \in targets : t.entry.types = {}}
RequiredType(targets) == {OnSource(t) : t \in Untyped(targets)}

ForbiddenType(targets) == UNION {{OnEntry(t.of, i) : i \in t.entry.types} : t \in targets}

TypeMismatch(targets) ==
    LET Differs(t, i) == EntryAt(t.of, i).type \notin {t.annotation, OpaqueType}
    IN  UNION {{OnEntry(t.of, i) : i \in {j \in t.entry.types : Differs(t, j)}} :
                  t \in {u \in targets : u.annotation # NoType}}

\* Attributes of enum-like classes have no type of their own: PDF713 then
\* asks for the opposite, but not in NumPy docstrings.
EnumLike(owner) == Definition(owner).bases \cap settings.noTypeBases # {}

EnumTargets == {t \in ClassAttributeTargets : settings.convention # "numpy" /\ EnumLike(t.of)}

PDF700ParameterMissingDescription == MissingDescription(ParameterTargets)
PDF701ParameterTypeRequired == RequiredType(ParameterTargets)
PDF702ParameterTypeForbidden == ForbiddenType(ParameterTargets)
PDF703ParameterTypeMismatch == TypeMismatch(ParameterTargets)
PDF704ReturnMissingDescription == MissingDescription(ReturnTargets)
PDF705ReturnTypeRequired == RequiredType(ReturnTargets)
PDF706ReturnTypeForbidden == ForbiddenType(ReturnTargets)
PDF707ReturnTypeMismatch == TypeMismatch(ReturnTargets)
PDF708YieldMissingDescription == MissingDescription(YieldTargets)
PDF709YieldTypeRequired == RequiredType(YieldTargets)
PDF710YieldTypeForbidden == ForbiddenType(YieldTargets)
PDF711YieldTypeMismatch == TypeMismatch(YieldTargets)
PDF712ClassAttributeMissingDescription == MissingDescription(ClassAttributeTargets)
PDF713ClassAttributeTypeRequired ==
    RequiredType(ClassAttributeTargets \ EnumTargets) \cup ForbiddenType(EnumTargets)
PDF714ClassAttributeTypeForbidden == ForbiddenType(ClassAttributeTargets)
PDF715ClassAttributeTypeMismatch == TypeMismatch(ClassAttributeTargets)
PDF716ModuleAttributeMissingDescription == MissingDescription(ModuleAttributeTargets)
PDF717ModuleAttributeTypeRequired == RequiredType(ModuleAttributeTargets)
PDF718ModuleAttributeTypeForbidden == ForbiddenType(ModuleAttributeTargets)
PDF719ModuleAttributeTypeMismatch == TypeMismatch(ModuleAttributeTargets)

MissingRawDescription(kind, owners) ==
    UNION {{OnEntry(d, i) : i \in {j \in EntriesOf(d, kind) : EntryAt(d, j).name # NoName /\ ~EntryAt(d, j).prose}} :
              d \in {o \in owners : Documented(o)}}

PDF720ExceptionMissingDescription == MissingRawDescription("exception", Definitions)
PDF721WarningMissingDescription == MissingRawDescription("warning", Definitions)
PDF722OrphanRestTypeField ==
    UNION {{OnEntry(d, t) : t \in OrphanTypes(d)} : d \in {e \in Definitions : Documented(e)}}
PDF723MethodMissingDescription == MissingRawDescription("method", OfKind("class"))

TypedViolations(rule) ==
    CASE rule = "PDF700" -> PDF700ParameterMissingDescription
      [] rule = "PDF701" -> PDF701ParameterTypeRequired
      [] rule = "PDF702" -> PDF702ParameterTypeForbidden
      [] rule = "PDF703" -> PDF703ParameterTypeMismatch
      [] rule = "PDF704" -> PDF704ReturnMissingDescription
      [] rule = "PDF705" -> PDF705ReturnTypeRequired
      [] rule = "PDF706" -> PDF706ReturnTypeForbidden
      [] rule = "PDF707" -> PDF707ReturnTypeMismatch
      [] rule = "PDF708" -> PDF708YieldMissingDescription
      [] rule = "PDF709" -> PDF709YieldTypeRequired
      [] rule = "PDF710" -> PDF710YieldTypeForbidden
      [] rule = "PDF711" -> PDF711YieldTypeMismatch
      [] rule = "PDF712" -> PDF712ClassAttributeMissingDescription
      [] rule = "PDF713" -> PDF713ClassAttributeTypeRequired
      [] rule = "PDF714" -> PDF714ClassAttributeTypeForbidden
      [] rule = "PDF715" -> PDF715ClassAttributeTypeMismatch
      [] rule = "PDF716" -> PDF716ModuleAttributeMissingDescription
      [] rule = "PDF717" -> PDF717ModuleAttributeTypeRequired
      [] rule = "PDF718" -> PDF718ModuleAttributeTypeForbidden
      [] rule = "PDF719" -> PDF719ModuleAttributeTypeMismatch
      [] rule = "PDF720" -> PDF720ExceptionMissingDescription
      [] rule = "PDF721" -> PDF721WarningMissingDescription
      [] rule = "PDF722" -> PDF722OrphanRestTypeField
      [] rule = "PDF723" -> PDF723MethodMissingDescription

(***************************************************************************)
(* Fixes.  A missing type is taken from the annotation: into an empty type *)
(* field, into the parentheses of a Google entry, as a type field after    *)
(* the value field in reST.  A Google entry of what is returned or yielded *)
(* is never without type, so that PDF705 and PDF709 fix none.  The type of *)
(* an attribute of an enum-like class is removed, with its field in reST.  *)
(***************************************************************************)

Edit(at, by) == [at |-> at, by |-> by]
NoEdit == Edit(0, <<>>)

FieldBehind(t, e) == Edit(Source(t.entry), <<e, Entry(e.kind, "type", e.name, "", t.annotation, FALSE)>>)

\* Mutant: an empty type field is overlooked.
WrittenAsIfNoField(t) ==
    LET e == EntryAt(t.of, Source(t.entry))
    IN  CASE settings.convention = "google" -> Edit(Source(t.entry), <<[e EXCEPT !.type = t.annotation]>>)
          [] Rest -> FieldBehind(t, e)
          [] OTHER -> NoEdit

WrittenType(t) ==
    LET e == EntryAt(t.of, Source(t.entry))
        Filled(i) == Edit(i, <<[EntryAt(t.of, i) EXCEPT !.type = t.annotation]>>)
    IN  CASE t.entry.type # 0 -> Filled(t.entry.type)
          [] t.entry.type = 0 /\ settings.convention = "google" -> Filled(Source(t.entry))
          [] t.entry.type = 0 /\ Rest -> FieldBehind(t, e)
          [] OTHER -> NoEdit

\* A field with something below its line is not filled, and there is no line
\* to put a field on behind an entry that the closing quotes follow.
InsertionDeclined(t) ==
    \/ t.entry.type # 0 /\ EntryAt(t.of, t.entry.type).prose
    \/ /\ t.entry.type = 0 /\ Rest
       /\ Docstring(t.of).editable = "inside" /\ t.entry.value = Len(Docstring(t.of).entries)

InsertedType(t) == IF InsertionDeclined(t) THEN NoEdit ELSE WrittenType(t)

RemovedType(d, i) ==
    Edit(i, IF EntryAt(d, i).role = "type" THEN <<>>
            ELSE IF settings.convention = "google" THEN <<[EntryAt(d, i) EXCEPT !.type = NoType]>>
            ELSE <<EntryAt(d, i)>>)

\* What a fix writes in place of the entries of d that it changes.
TypeEdits(rule, d) ==
    LET Required(targets) == {InsertedType(t) : t \in {u \in Untyped(targets) : u.of = d /\ u.annotation # NoType}}
        Removed == UNION {{RemovedType(d, i) : i \in t.entry.types} : t \in {u \in EnumTargets : u.of = d}}
    IN  CASE rule = "PDF701" -> Required(ParameterTargets)
          [] rule = "PDF705" -> Required(ReturnTargets)
          [] rule = "PDF709" -> Required(YieldTargets)
          [] rule = "PDF713" -> Required(ClassAttributeTargets \ EnumTargets) \cup Removed
          [] rule = "PDF717" -> Required(ModuleAttributeTargets)
          [] OTHER -> {}

\* What is left of d.  Where its last field goes, the closing quotes come to
\* stand on a line of their own.
TypesFixed(rule, d) ==
    LET EditsAt(i) == {e \in TypeEdits(rule, d) : e.at = i}
        last == Len(Docstring(d).entries)
    IN  [Docstring(d) EXCEPT
            !.entries = FlattenSeq([i \in DOMAIN @ |->
                            IF EditsAt(i) = {} THEN <<@[i]>> ELSE (CHOOSE e \in EditsAt(i) : TRUE).by]),
            !.editable = IF @ = "inside" /\ Edit(last, <<>>) \in TypeEdits(rule, d) THEN "all" ELSE @]
=============================================================================
