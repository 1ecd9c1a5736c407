----------------------------- MODULE OwnerRules -----------------------------
(***************************************************************************)
(* PDF600 to PDF616: which packages, modules, classes and functions must   *)
(* have a docstring, and which must not.                                   *)
(***************************************************************************)
EXTENDS DocumentedSource

Entities == {"package", "module", "class", "nested-class", "function", "method", "dunder-method", "init"}

\* Decorators of a function among the names of a setting.
MatchedDecorators(d, names) == IF Kind(d) = "function" THEN Definition(d).decorators \cap names ELSE {}

ForbiddenDocstring(d) == MatchedDecorators(d, settings.forbidden) # {}
\* Mutant: a forbidden docstring may be asked for.
MissingDocstringIsExemptIfOptional(d) == MatchedDecorators(d, settings.optional) # {}
MissingDocstringIsExempt(d) == MatchedDecorators(d, settings.optional) # {} \/ ForbiddenDocstring(d)

\* Everything around a member of a class, up to the module, is a class.
ClassApiOwnerChain(d) == Kind(d) = "class" /\ \A e \in Enclosing(d) : Kind(e) = "class"

MemberOfClass(d) == d # 1 /\ ClassApiOwnerChain(Parent(d))

IsDunder(d) == Definition(d).name \in Dunders

\* Mutant: dunder methods are methods too.
MatchesEntityByName(d, entity) ==
    CASE entity = "package" -> Kind(d) = "module" /\ PackageInitializer
      [] entity = "module" -> Kind(d) = "module" /\ ~PackageInitializer
      [] entity = "class" -> Kind(d) = "class" /\ Parent(d) = 1
      [] entity = "nested-class" -> Kind(d) = "class" /\ MemberOfClass(d)
      [] entity = "function" -> Kind(d) = "function" /\ Parent(d) = 1
      [] entity = "method" -> Kind(d) = "function" /\ MemberOfClass(d) /\ Definition(d).name # "__init__"
      [] entity = "dunder-method" -> Kind(d) = "function" /\ MemberOfClass(d) /\ IsDunder(d) /\ Definition(d).name # "__init__"
      [] entity = "init" -> Kind(d) = "function" /\ MemberOfClass(d) /\ Definition(d).name = "__init__"

MatchesEntity(d, entity) ==
    CASE entity = "package" -> Kind(d) = "module" /\ PackageInitializer
      [] entity = "module" -> Kind(d) = "module" /\ ~PackageInitializer
      [] entity = "class" -> Kind(d) = "class" /\ Parent(d) = 1
      [] entity = "nested-class" -> Kind(d) = "class" /\ MemberOfClass(d)
      [] entity = "function" -> Kind(d) = "function" /\ Parent(d) = 1
      [] entity = "method" -> Kind(d) = "function" /\ MemberOfClass(d) /\ ~IsDunder(d) /\ Definition(d).name # "__init__"
      [] entity = "dunder-method" -> Kind(d) = "function" /\ MemberOfClass(d) /\ IsDunder(d) /\ Definition(d).name # "__init__"
      [] entity = "init" -> Kind(d) = "function" /\ MemberOfClass(d) /\ Definition(d).name = "__init__"

\* Dunder methods are as public as the class they belong to.
PublicOwner(d, entity) ==
    PublicPath /\ (Kind(d) = "module" \/ PublicDefinition(IF entity = "dunder-method" THEN Parent(d) ELSE d))

MissingOwnerDocstring(entity, public) ==
    {OnOwner(d) : d \in {e \in Definitions :
        /\ ~Documented(e)
        /\ MatchesEntity(e, entity) /\ ~MissingDocstringIsExempt(e)
        /\ PublicOwner(e, entity) = public}}

PDF600MissingPublicPackageDocumentation == MissingOwnerDocstring("package", TRUE)
PDF601MissingPrivatePackageDocumentation == MissingOwnerDocstring("package", FALSE)
PDF602MissingPublicModuleDocumentation == MissingOwnerDocstring("module", TRUE)
PDF603MissingPrivateModuleDocumentation == MissingOwnerDocstring("module", FALSE)
PDF604MissingPublicClassDocumentation == MissingOwnerDocstring("class", TRUE)
PDF605MissingPrivateClassDocumentation == MissingOwnerDocstring("class", FALSE)
PDF606MissingPublicNestedClassDocumentation == MissingOwnerDocstring("nested-class", TRUE)
PDF607MissingPrivateNestedClassDocumentation == MissingOwnerDocstring("nested-class", FALSE)
PDF608MissingPublicFunctionDocumentation == MissingOwnerDocstring("function", TRUE)
PDF609MissingPrivateFunctionDocumentation == MissingOwnerDocstring("function", FALSE)
PDF610MissingPublicMethodDocumentation == MissingOwnerDocstring("method", TRUE)
PDF611MissingPrivateMethodDocumentation == MissingOwnerDocstring("method", FALSE)
PDF612MissingPublicDunderMethodDocumentation == MissingOwnerDocstring("dunder-method", TRUE)
PDF613MissingPrivateDunderMethodDocumentation == MissingOwnerDocstring("dunder-method", FALSE)
PDF614MissingPublicInitDocumentation == MissingOwnerDocstring("init", TRUE)
PDF615MissingPrivateInitDocumentation == MissingOwnerDocstring("init", FALSE)

PDF616ForbiddenFunctionDocstring ==
    {OnOwner(d) : d \in {e \in Definitions : ForbiddenDocstring(e) /\ Documented(e)}}

OwnerRuleCodes ==
    {"PDF600", "PDF601", "PDF602", "PDF603", "PDF604", "PDF605", "PDF606", "PDF607",
     "PDF608", "PDF609", "PDF610", "PDF611", "PDF612", "PDF613", "PDF614", "PDF615"}

OwnerViolations(rule) ==
    CASE rule = "PDF600" -> PDF600MissingPublicPackageDocumentation
      [] rule = "PDF601" -> PDF601MissingPrivatePackageDocumentation
      [] rule = "PDF602" -> PDF602MissingPublicModuleDocumentation
      [] rule = "PDF603" -> PDF603MissingPrivateModuleDocumentation
      [] rule = "PDF604" -> PDF604MissingPublicClassDocumentation
      [] rule = "PDF605" -> PDF605MissingPrivateClassDocumentation
      [] rule = "PDF606" -> PDF606MissingPublicNestedClassDocumentation
      [] rule = "PDF607" -> PDF607MissingPrivateNestedClassDocumentation
      [] rule = "PDF608" -> PDF608MissingPublicFunctionDocumentation
      [] rule = "PDF609" -> PDF609MissingPrivateFunctionDocumentation
      [] rule = "PDF610" -> PDF610MissingPublicMethodDocumentation
      [] rule = "PDF611" -> PDF611MissingPrivateMethodDocumentation
      [] rule = "PDF612" -> PDF612MissingPublicDunderMethodDocumentation
      [] rule = "PDF613" -> PDF613MissingPrivateDunderMethodDocumentation
      [] rule = "PDF614" -> PDF614MissingPublicInitDocumentation
      [] rule = "PDF615" -> PDF615MissingPrivateInitDocumentation
      [] rule = "PDF616" -> PDF616ForbiddenFunctionDocstring
=============================================================================
