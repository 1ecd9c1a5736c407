--------------------------- MODULE AttributeRules ---------------------------
(***************************************************************************)
(* PDF508 to PDF525, PDF528 and PDF529: the attributes of classes and      *)
(* modules, documented in the docstring of their owner or by a string      *)
(* attached to their assignment.                                           *)
(***************************************************************************)
EXTENDS DocumentedSource

\* The attributes the code gives an owner, in the order of their targets; a
\* repeated target adds nothing.
Inventory(owner, includeInstance) ==
    FoldLeft(LAMBDA names, a : IF includeInstance \/ ~a.instance THEN names \o a.names ELSE names,
             <<>>, AttributesFor(owner))

InventoryNames(owner, includeInstance) == Range(Inventory(owner, includeInstance))

\* Names a string can be attached to: all but members of a slot literal.
Attachable(owner, name, includeInstance) ==
    \E a \in Range(AttributesFor(owner)) :
        (includeInstance \/ ~a.instance) /\ a.origin # "slots" /\ name \in Range(a.names)

DocumentedAttributes(owner) == {i \in EntriesOf(owner, "attribute") : Docstring(owner).entries[i].name # NoName}
ValueDocumentedAttributes(owner) == DocumentedAttributes(owner) \cap ValueEntriesOf(owner, "attribute")

AttachedNames(owner) == UNION {Range(a.names) : a \in AttachedDocstrings(owner)}

DocumentedAttributeNames(owner) == AttachedNames(owner) \cup NamesOf(owner, ValueDocumentedAttributes(owner))

HasAttributeDocumentation(owner) ==
    \/ AttachedNames(owner) # {}
    \/ Documented(owner) /\ (DocumentedAttributes(owner) # {} \/ "attributes" \in Docstring(owner).sections)

PublicAttributeOwner(owner) == IF Kind(owner) = "module" THEN PublicPath ELSE PublicDefinition(owner)

PrivateAttribute(name) == name \in Underscored

ShouldCheckMissingAttributes(owner) ==
    /\ settings.publicOnly => PublicAttributeOwner(owner)
    /\ \/ HasAttributeDocumentation(owner)
       \/ /\ Documented(owner) /\ settings.missing # "has-section"
          /\ settings.missing = "all" \/ HasMoreThanSummary(owner)

DocumentedOwners(kind) == {owner \in OfKind(kind) : Documented(owner)}

MissingAttributes(kind, includeInstance) ==
    LET Missing(owner) ==
            {name \in InventoryNames(owner, includeInstance) : ~PrivateAttribute(name)} \ DocumentedAttributeNames(owner)
    IN  IF MissingIsInert THEN {}
        ELSE UNION {{OnName(owner, name) : name \in Missing(owner)} :
                       owner \in {o \in OfKind(kind) : ShouldCheckMissingAttributes(o)}}

ExtraneousAttributes(kind, includeInstance) ==
    UNION {{OnEntry(p[1], i) : i \in {j \in DocumentedAttributes(p[1]) : Docstring(p[1]).entries[j].name \notin p[2]}} :
              p \in {<<o, InventoryNames(o, includeInstance)>> : o \in DocumentedOwners(kind)}}

\* An attribute that both its owner and the string after it document.
DuplicateAttributes(kind, includeInstance) ==
    UNION {UNION {{Finding(owner, Docstring(owner).entries[i].name, i, a.place) :
                      a \in {b \in AttachedTo(owner, Docstring(owner).entries[i].name) : includeInstance \/ ~b.instance}} :
                     i \in DocumentedAttributes(owner)} :
              owner \in DocumentedOwners(kind)}

\* What owner docstrings of a kind say of private or of public attributes.
OwnerEntries(kind, public) ==
    UNION {{OnEntry(owner, i) : i \in {j \in DocumentedAttributes(owner) :
               PrivateAttribute(Docstring(owner).entries[j].name) # public}} :
              owner \in DocumentedOwners(kind)}

PrivateOwnerAttributes(kind) == OwnerEntries(kind, FALSE)

\* Attached docstrings of public or of private attributes, one for each name.
AttachedOf(kind, public, includeInstance) ==
    UNION {UNION {{Finding(owner, name, 0, a.place) :
                      name \in {n \in Range(a.names) : PrivateAttribute(n) # public}} :
                     a \in {b \in AttachedDocstrings(owner) : includeInstance \/ ~b.instance}} :
              owner \in OfKind(kind)}

PrivateAttachedAttributes(kind, includeInstance) == AttachedOf(kind, FALSE, includeInstance)

MustBeOwner(kind, public, includeInstance) == AttachedOf(kind, public, includeInstance)

MustBeAttached(kind, public, includeInstance) ==
    {f \in OwnerEntries(kind, public) : Attachable(f.of, f.name, includeInstance)}

AttributesOutOfOrder(kind) ==
    UNION {{OnEntry(p[1], i) : i \in OutOfOrder(p[2], p[1], ValueDocumentedAttributes(p[1]))} :
              p \in {<<o, Inventory(o, TRUE)>> : o \in DocumentedOwners(kind)}}

(***************************************************************************)
(* The rules.                                                              *)
(***************************************************************************)

PDF508MissingPublicClassAttributeDocumentation == MissingAttributes("class", settings.initAttributes)
PDF509ExtraneousClassAttributeDocumentation == ExtraneousAttributes("class", TRUE)
PDF510MissingPublicModuleAttributeDocumentation == MissingAttributes("module", FALSE)
PDF511ExtraneousModuleAttributeDocumentation == ExtraneousAttributes("module", FALSE)
PDF512DuplicateClassAttributeDocumentation == DuplicateAttributes("class", TRUE)
PDF513DuplicateModuleAttributeDocumentation == DuplicateAttributes("module", FALSE)
PDF514PrivateClassAttributeOwnerDocstringForbidden == PrivateOwnerAttributes("class")
PDF515PrivateModuleAttributeOwnerDocstringForbidden == PrivateOwnerAttributes("module")
PDF516PrivateClassAttributeAttachedDocstringForbidden == PrivateAttachedAttributes("class", TRUE)
PDF517PrivateModuleAttributeAttachedDocstringForbidden == PrivateAttachedAttributes("module", FALSE)
PDF518PublicClassAttributeDocstringMustBeOwner == MustBeOwner("class", TRUE, TRUE)
PDF519PublicClassAttributeDocstringMustBeAttached == MustBeAttached("class", TRUE, TRUE)
PDF520PublicModuleAttributeDocstringMustBeOwner == MustBeOwner("module", TRUE, FALSE)
PDF521PublicModuleAttributeDocstringMustBeAttached == MustBeAttached("module", TRUE, FALSE)
PDF522PrivateClassAttributeDocstringMustBeOwner == MustBeOwner("class", FALSE, TRUE)
PDF523PrivateClassAttributeDocstringMustBeAttached == MustBeAttached("class", FALSE, TRUE)
PDF524PrivateModuleAttributeDocstringMustBeOwner == MustBeOwner("module", FALSE, FALSE)
PDF525PrivateModuleAttributeDocstringMustBeAttached == MustBeAttached("module", FALSE, FALSE)
PDF528ClassAttributeDocumentationOrder == AttributesOutOfOrder("class")
PDF529ModuleAttributeDocumentationOrder == AttributesOutOfOrder("module")
=============================================================================
