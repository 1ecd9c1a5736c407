--------------------------- MODULE DocstringProofs ---------------------------
(***************************************************************************)
(* The docstring rules.                                                    *)
(*                                                                         *)
(* Documentation.  IndexAgrees: the two ways to look up the name of an     *)
(* exception give the same findings for every function, number of names,   *)
(* and spelling.  OwnersHaveOneRule: whatever the file, the settings and   *)
(* the directories, a definition without a docstring falls to one rule     *)
(* about them.                                                             *)
(*                                                                         *)
(* DocstringLayout.  TextIsKept: however often and in whatever order the   *)
(* layout rules fix a docstring, its text lines stay the same in the same  *)
(* order, and those of its sections too.  OneBlankLineAfterSections: when  *)
(* no rule has anything left to fix, the last section ends with one blank  *)
(* line.                                                                   *)
(***************************************************************************)
EXTENDS Documentation, DocstringLayout, FiniteSetTheorems, FunctionTheorems,
        NaturalsInduction, WellFoundedInduction, SequenceTheorems, TLAPS

\* One look into the index answers like the comparison with every name.
LEMMA IndexMatchesPairwise ==
  ASSUME NEW names, NEW name
  PROVE  IndexMatches(names, name) <=> PairwiseMatches(names, name)
<1>1. CASE Qualified(name)
  BY <1>1, Zenon DEF IndexMatches, PairwiseMatches, ExceptionNamesMatch, Qualified
<1>2. CASE ~Qualified(name)
  BY <1>2, Zenon DEF IndexMatches, PairwiseMatches, ExceptionNamesMatch, Qualified
<1>3. QED
  BY <1>1, <1>2

LEMMA EitherWayMatches ==
  ASSUME NEW names, NEW name
  PROVE  ExceptionMatches(TRUE, names, name) <=> ExceptionMatches(FALSE, names, name)
BY IndexMatchesPairwise DEF ExceptionMatches

\* What was seen before an occurrence is therefore the same, and with it what
\* is missing.
LEMMA EitherWayMissing ==
  ASSUME NEW occurrences, NEW documented
  PROVE  MissingOccurrences(occurrences, documented, TRUE)
           = MissingOccurrences(occurrences, documented, FALSE)
<1> DEFINE Names(f, i, indexed) ==
             IF i = 1 THEN {}
             ELSE f[i - 1] \cup (IF ExceptionMatches(indexed, f[i - 1], occurrences[i - 1].name) THEN {}
                                 ELSE {occurrences[i - 1].name})
           Seen(indexed) ==
             CHOOSE f : f = [i \in 1..(Len(occurrences) + 1) |-> Names(f, i, indexed)]
           Missing(indexed) ==
             {i \in DOMAIN occurrences :
                /\ ~ExceptionMatches(indexed, Seen(indexed)[i], occurrences[i].name)
                /\ ~ExceptionMatches(indexed, documented, occurrences[i].name)}
<1>1. \A f : [i \in 1..(Len(occurrences) + 1) |-> Names(f, i, TRUE)]
               = [i \in 1..(Len(occurrences) + 1) |-> Names(f, i, FALSE)]
  BY EitherWayMatches
<1>2. Seen(TRUE) = Seen(FALSE)
  <2> HIDE DEF Names
  <2>1. QED
    BY <1>1, Zenon
<1>3. Missing(TRUE) = Missing(FALSE)
  <2> HIDE DEF Seen
  <2>1. QED
    BY <1>2, EitherWayMatches
<1>4. \A indexed \in BOOLEAN : MissingOccurrences(occurrences, documented, indexed) = Missing(indexed)
  BY Zenon DEF MissingOccurrences
<1>5. QED
  BY <1>3, <1>4

\* The index that replaces the comparison of all pairs of exception names
\* above a number of them gives the same findings, however many there are.
THEOREM IndexAgrees == Spec => []ExceptionIndexAgrees
<1>1. ExceptionIndexAgrees
  BY EitherWayMissing, EitherWayMatches DEF ExceptionIndexAgrees, ExtraneousEntries
<1>2. QED
  BY <1>1, PTL

-----------------------------------------------------------------------------
(* Missing docstrings                                                      *)

\* The code of a file stays, and is what a file may hold.
SourceInv ==
    \A d \in Definitions :
      /\ Kind(d) \in {"module", "class", "function"}
      /\ Kind(d) = "module" <=> d = 1
      /\ d # 1 => Parent(d) \in Definitions

\* What the rules about missing docstrings are about: a kind of definition, and
\* whether it is public.
EntityAbout(code) ==
    CASE code \in {"PDF600", "PDF601"} -> "package"
      [] code \in {"PDF602", "PDF603"} -> "module"
      [] code \in {"PDF604", "PDF605"} -> "class"
      [] code \in {"PDF606", "PDF607"} -> "nested-class"
      [] code \in {"PDF608", "PDF609"} -> "function"
      [] code \in {"PDF610", "PDF611"} -> "method"
      [] code \in {"PDF612", "PDF613"} -> "dunder-method"
      [] code \in {"PDF614", "PDF615"} -> "init"

PublicRules == {"PDF600", "PDF602", "PDF604", "PDF606", "PDF608", "PDF610", "PDF612", "PDF614"}
PublicAbout(code) == IF code \in PublicRules THEN TRUE ELSE FALSE

Reports(d, entity, public) ==
    /\ ~Documented(d) /\ MatchesEntity(d, entity) /\ ~MissingDocstringIsExempt(d)
    /\ PublicOwner(d, entity) = public

LEMMA AboutIs ==
  /\ EntityAbout("PDF600") = "package" /\ EntityAbout("PDF601") = "package"
  /\ EntityAbout("PDF602") = "module" /\ EntityAbout("PDF603") = "module"
  /\ EntityAbout("PDF604") = "class" /\ EntityAbout("PDF605") = "class"
  /\ EntityAbout("PDF606") = "nested-class" /\ EntityAbout("PDF607") = "nested-class"
  /\ EntityAbout("PDF608") = "function" /\ EntityAbout("PDF609") = "function"
  /\ EntityAbout("PDF610") = "method" /\ EntityAbout("PDF611") = "method"
  /\ EntityAbout("PDF612") = "dunder-method" /\ EntityAbout("PDF613") = "dunder-method"
  /\ EntityAbout("PDF614") = "init" /\ EntityAbout("PDF615") = "init"
BY DEF EntityAbout

LEMMA PublicIs ==
  /\ PublicAbout("PDF600") = TRUE /\ PublicAbout("PDF601") = FALSE
  /\ PublicAbout("PDF602") = TRUE /\ PublicAbout("PDF603") = FALSE
  /\ PublicAbout("PDF604") = TRUE /\ PublicAbout("PDF605") = FALSE
  /\ PublicAbout("PDF606") = TRUE /\ PublicAbout("PDF607") = FALSE
  /\ PublicAbout("PDF608") = TRUE /\ PublicAbout("PDF609") = FALSE
  /\ PublicAbout("PDF610") = TRUE /\ PublicAbout("PDF611") = FALSE
  /\ PublicAbout("PDF612") = TRUE /\ PublicAbout("PDF613") = FALSE
  /\ PublicAbout("PDF614") = TRUE /\ PublicAbout("PDF615") = FALSE
BY DEF PublicAbout, PublicRules

LEMMA ReportedOwner ==
  ASSUME NEW d \in Definitions, NEW entity, NEW public
  PROVE  OnOwner(d) \in MissingOwnerDocstring(entity, public) <=> Reports(d, entity, public)
<1>1. \A e : OnOwner(e) = OnOwner(d) => e = d
  BY DEF OnOwner, Finding
<1>2. QED
  BY <1>1 DEF MissingOwnerDocstring, Reports

LEMMA ReportedBy ==
  ASSUME NEW d \in Definitions, NEW code \in OwnerRuleCodes
  PROVE  OnOwner(d) \in OwnerViolations(code) <=> Reports(d, EntityAbout(code), PublicAbout(code))
<1>1. OwnerViolations(code) = MissingOwnerDocstring(EntityAbout(code), PublicAbout(code))
  <2>1. CASE code = "PDF600"
    BY <2>1 DEF OwnerViolations, EntityAbout, PublicAbout, PublicRules, PDF600MissingPublicPackageDocumentation
  <2>2. CASE code = "PDF601"
    BY <2>2 DEF OwnerViolations, EntityAbout, PublicAbout, PublicRules, PDF601MissingPrivatePackageDocumentation
  <2>3. CASE code = "PDF602"
    BY <2>3 DEF OwnerViolations, EntityAbout, PublicAbout, PublicRules, PDF602MissingPublicModuleDocumentation
  <2>4. CASE code = "PDF603"
    BY <2>4 DEF OwnerViolations, EntityAbout, PublicAbout, PublicRules, PDF603MissingPrivateModuleDocumentation
  <2>5. CASE code = "PDF604"
    BY <2>5 DEF OwnerViolations, EntityAbout, PublicAbout, PublicRules, PDF604MissingPublicClassDocumentation
  <2>6. CASE code = "PDF605"
    BY <2>6 DEF OwnerViolations, EntityAbout, PublicAbout, PublicRules, PDF605MissingPrivateClassDocumentation
  <2>7. CASE code = "PDF606"
    BY <2>7 DEF OwnerViolations, EntityAbout, PublicAbout, PublicRules, PDF606MissingPublicNestedClassDocumentation
  <2>8. CASE code = "PDF607"
    BY <2>8 DEF OwnerViolations, EntityAbout, PublicAbout, PublicRules, PDF607MissingPrivateNestedClassDocumentation
  <2>9. CASE code = "PDF608"
    BY <2>9 DEF OwnerViolations, EntityAbout, PublicAbout, PublicRules, PDF608MissingPublicFunctionDocumentation
  <2>10. CASE code = "PDF609"
    BY <2>10 DEF OwnerViolations, EntityAbout, PublicAbout, PublicRules, PDF609MissingPrivateFunctionDocumentation
  <2>11. CASE code = "PDF610"
    BY <2>11 DEF OwnerViolations, EntityAbout, PublicAbout, PublicRules, PDF610MissingPublicMethodDocumentation
  <2>12. CASE code = "PDF611"
    BY <2>12 DEF OwnerViolations, EntityAbout, PublicAbout, PublicRules, PDF611MissingPrivateMethodDocumentation
  <2>13. CASE code = "PDF612"
    BY <2>13 DEF OwnerViolations, EntityAbout, PublicAbout, PublicRules, PDF612MissingPublicDunderMethodDocumentation
  <2>14. CASE code = "PDF613"
    BY <2>14 DEF OwnerViolations, EntityAbout, PublicAbout, PublicRules, PDF613MissingPrivateDunderMethodDocumentation
  <2>15. CASE code = "PDF614"
    BY <2>15 DEF OwnerViolations, EntityAbout, PublicAbout, PublicRules, PDF614MissingPublicInitDocumentation
  <2>16. CASE code = "PDF615"
    BY <2>16 DEF OwnerViolations, EntityAbout, PublicAbout, PublicRules, PDF615MissingPrivateInitDocumentation
  <2>17. QED
    BY <2>1, <2>2, <2>3, <2>4, <2>5, <2>6, <2>7, <2>8, <2>9, <2>10, <2>11, <2>12, <2>13, <2>14,
       <2>15, <2>16 DEF OwnerRuleCodes
<1>2. QED
  BY <1>1, ReportedOwner

\* One rule is about a kind of definition that is public, or not.
LEMMA OneRuleAbout ==
  ASSUME NEW entity \in Entities, NEW public \in BOOLEAN
  PROVE  \E code \in OwnerRuleCodes : \A r \in OwnerRuleCodes :
           EntityAbout(r) = entity /\ PublicAbout(r) = public <=> r = code
<1>0. ASSUME NEW a \in OwnerRuleCodes, NEW b \in OwnerRuleCodes,
             PublicAbout(a) = TRUE, PublicAbout(b) = FALSE,
             \A r \in OwnerRuleCodes : EntityAbout(r) = entity <=> r \in {a, b}
      PROVE  \E code \in OwnerRuleCodes : \A r \in OwnerRuleCodes :
               EntityAbout(r) = entity /\ PublicAbout(r) = public <=> r = code
  <2>1. CASE public = TRUE
    <3>1. \A r \in OwnerRuleCodes : EntityAbout(r) = entity /\ PublicAbout(r) = public <=> r = a
      BY <1>0, <2>1
    <3>2. QED
      BY <3>1
  <2>2. CASE public = FALSE
    <3>1. \A r \in OwnerRuleCodes : EntityAbout(r) = entity /\ PublicAbout(r) = public <=> r = b
      BY <1>0, <2>2
    <3>2. QED
      BY <3>1
  <2>3. QED
    BY <2>1, <2>2
<1>1. CASE entity = "package"
  <2>1. \A r \in OwnerRuleCodes : EntityAbout(r) = entity <=> r \in {"PDF600", "PDF601"}
    BY <1>1, AboutIs DEF OwnerRuleCodes
  <2>2. "PDF600" \in OwnerRuleCodes /\ "PDF601" \in OwnerRuleCodes
    BY DEF OwnerRuleCodes
  <2>3. QED
    BY <1>0, <2>1, <2>2, PublicIs
<1>2. CASE entity = "module"
  <2>1. \A r \in OwnerRuleCodes : EntityAbout(r) = entity <=> r \in {"PDF602", "PDF603"}
    BY <1>2, AboutIs DEF OwnerRuleCodes
  <2>2. "PDF602" \in OwnerRuleCodes /\ "PDF603" \in OwnerRuleCodes
    BY DEF OwnerRuleCodes
  <2>3. QED
    BY <1>0, <2>1, <2>2, PublicIs
<1>3. CASE entity = "class"
  <2>1. \A r \in OwnerRuleCodes : EntityAbout(r) = entity <=> r \in {"PDF604", "PDF605"}
    BY <1>3, AboutIs DEF OwnerRuleCodes
  <2>2. "PDF604" \in OwnerRuleCodes /\ "PDF605" \in OwnerRuleCodes
    BY DEF OwnerRuleCodes
  <2>3. QED
    BY <1>0, <2>1, <2>2, PublicIs
<1>4. CASE entity = "nested-class"
  <2>1. \A r \in OwnerRuleCodes : EntityAbout(r) = entity <=> r \in {"PDF606", "PDF607"}
    BY <1>4, AboutIs DEF OwnerRuleCodes
  <2>2. "PDF606" \in OwnerRuleCodes /\ "PDF607" \in OwnerRuleCodes
    BY DEF OwnerRuleCodes
  <2>3. QED
    BY <1>0, <2>1, <2>2, PublicIs
<1>5. CASE entity = "function"
  <2>1. \A r \in OwnerRuleCodes : EntityAbout(r) = entity <=> r \in {"PDF608", "PDF609"}
    BY <1>5, AboutIs DEF OwnerRuleCodes
  <2>2. "PDF608" \in OwnerRuleCodes /\ "PDF609" \in OwnerRuleCodes
    BY DEF OwnerRuleCodes
  <2>3. QED
    BY <1>0, <2>1, <2>2, PublicIs
<1>6. CASE entity = "method"
  <2>1. \A r \in OwnerRuleCodes : EntityAbout(r) = entity <=> r \in {"PDF610", "PDF611"}
    BY <1>6, AboutIs DEF OwnerRuleCodes
  <2>2. "PDF610" \in OwnerRuleCodes /\ "PDF611" \in OwnerRuleCodes
    BY DEF OwnerRuleCodes
  <2>3. QED
    BY <1>0, <2>1, <2>2, PublicIs
<1>7. CASE entity = "dunder-method"
  <2>1. \A r \in OwnerRuleCodes : EntityAbout(r) = entity <=> r \in {"PDF612", "PDF613"}
    BY <1>7, AboutIs DEF OwnerRuleCodes
  <2>2. "PDF612" \in OwnerRuleCodes /\ "PDF613" \in OwnerRuleCodes
    BY DEF OwnerRuleCodes
  <2>3. QED
    BY <1>0, <2>1, <2>2, PublicIs
<1>8. CASE entity = "init"
  <2>1. \A r \in OwnerRuleCodes : EntityAbout(r) = entity <=> r \in {"PDF614", "PDF615"}
    BY <1>8, AboutIs DEF OwnerRuleCodes
  <2>2. "PDF614" \in OwnerRuleCodes /\ "PDF615" \in OwnerRuleCodes
    BY DEF OwnerRuleCodes
  <2>3. QED
    BY <1>0, <2>1, <2>2, PublicIs
<1>9. QED
  BY <1>1, <1>2, <1>3, <1>4, <1>5, <1>6, <1>7, <1>8 DEF Entities

\* A definition is of one kind, if it is the module, a definition of its top
\* level or a member of a class, and else of none.
LEMMA OneEntity ==
  ASSUME SourceInv, NEW d \in Definitions,
         d = 1 \/ Kind(Parent(d)) = "module" \/ MemberOfClass(d)
  PROVE  \E entity \in Entities : \A e \in Entities : MatchesEntity(d, e) <=> e = entity
<1>1. MemberOfClass(d) => d # 1 /\ Kind(Parent(d)) = "class"
  BY DEF MemberOfClass, ClassApiOwnerChain
<1>2. d # 1 => (Kind(Parent(d)) = "module" <=> Parent(d) = 1)
  BY DEF SourceInv
<1>3. CASE d = 1
  <2>1. Kind(d) = "module" /\ ~MemberOfClass(d)
    BY <1>3, <1>1 DEF SourceInv
  <2>2. CASE PackageInitializer
    <3>1. \A e \in Entities : MatchesEntity(d, e) <=> e = "package"
      BY <2>1, <2>2 DEF Entities, MatchesEntity
    <3>2. QED
      BY <3>1 DEF Entities
  <2>3. CASE ~PackageInitializer
    <3>1. \A e \in Entities : MatchesEntity(d, e) <=> e = "module"
      BY <2>1, <2>3 DEF Entities, MatchesEntity
    <3>2. QED
      BY <3>1 DEF Entities
  <2>4. QED
    BY <2>2, <2>3
<1>4. CASE d # 1 /\ Kind(d) = "class" /\ Parent(d) = 1
  <2>1. ~MemberOfClass(d)
    BY <1>1, <1>2, <1>4
  <2>2. \A e \in Entities : MatchesEntity(d, e) <=> e = "class"
    BY <1>4, <2>1 DEF Entities, MatchesEntity
  <2>3. QED
    BY <2>2 DEF Entities
<1>5. CASE d # 1 /\ Kind(d) = "class" /\ Parent(d) # 1
  <2>1. MemberOfClass(d)
    BY <1>2, <1>5
  <2>2. \A e \in Entities : MatchesEntity(d, e) <=> e = "nested-class"
    BY <1>5, <2>1 DEF Entities, MatchesEntity
  <2>3. QED
    BY <2>2 DEF Entities
<1>6. CASE d # 1 /\ Kind(d) = "function" /\ Parent(d) = 1
  <2>1. ~MemberOfClass(d)
    BY <1>1, <1>2, <1>6
  <2>2. \A e \in Entities : MatchesEntity(d, e) <=> e = "function"
    BY <1>6, <2>1 DEF Entities, MatchesEntity
  <2>3. QED
    BY <2>2 DEF Entities
<1>7. CASE d # 1 /\ Kind(d) = "function" /\ Parent(d) # 1
  <2>1. MemberOfClass(d)
    BY <1>2, <1>7
  <2>. DEFINE entity == IF Definition(d).name = "__init__" THEN "init"
                        ELSE IF IsDunder(d) THEN "dunder-method" ELSE "method"
  <2>2. \A e \in Entities : MatchesEntity(d, e) <=> e = entity
    BY <1>7, <2>1 DEF Entities, MatchesEntity
  <2>3. entity \in Entities
    BY DEF Entities
  <2>4. QED
    BY <2>2, <2>3
<1>8. QED
  BY <1>3, <1>4, <1>5, <1>6, <1>7 DEF SourceInv

LEMMA NoEntity ==
  ASSUME SourceInv, NEW d \in Definitions,
         ~(d = 1 \/ Kind(Parent(d)) = "module" \/ MemberOfClass(d))
  PROVE  \A e \in Entities : ~MatchesEntity(d, e)
<1>1. Kind(d) # "module" /\ Parent(d) # 1 /\ ~MemberOfClass(d)
  BY DEF SourceInv
<1>2. QED
  BY <1>1 DEF Entities, MatchesEntity

\* A definition without a docstring is reported by one of the sixteen rules
\* about missing docstrings, never by two, and by none if it is exempt or
\* inside a function, whatever the file is named and the settings say
\* (PDF.py, the rules PDF600 to PDF615).
THEOREM OwnersHaveOneRule == Spec => []OwnersFallToOneRule
<1>1. Init => SourceInv
  BY CasesAssumption DEF Init, SourceInv, Definitions, Definition, Kind, Parent
<1>2. SourceInv /\ [Next]_vars => SourceInv'
  <2>1. [Next]_vars => source' = source
    BY DEF Next, Author, Fix, vars
  <2>2. QED
    BY <2>1 DEF SourceInv, Definitions, Definition, Kind, Parent
<1>3. SourceInv => OwnersFallToOneRule
  <2>1. SUFFICES ASSUME SourceInv, NEW d \in Definitions
                 PROVE  LET asked == ~Documented(d) /\ ~MissingDocstringIsExempt(d)
                                       /\ (d = 1 \/ Kind(Parent(d)) = "module" \/ MemberOfClass(d))
                        IN  Cardinality({code \in OwnerRuleCodes : OnOwner(d) \in OwnerViolations(code)})
                              = IF asked THEN 1 ELSE 0
    BY DEF OwnersFallToOneRule
  <2>. DEFINE placed == d = 1 \/ Kind(Parent(d)) = "module" \/ MemberOfClass(d)
              reporting == {code \in OwnerRuleCodes : OnOwner(d) \in OwnerViolations(code)}
  <2>2. reporting = {code \in OwnerRuleCodes : Reports(d, EntityAbout(code), PublicAbout(code))}
    BY ReportedBy
  <2>3. \A code \in OwnerRuleCodes : EntityAbout(code) \in Entities
    BY AboutIs DEF OwnerRuleCodes, Entities
  <2>4. CASE ~Documented(d) /\ ~MissingDocstringIsExempt(d) /\ placed
    <3>1. PICK entity \in Entities : \A e \in Entities : MatchesEntity(d, e) <=> e = entity
      BY <2>1, <2>4, OneEntity
    <3>2. PublicOwner(d, entity) \in BOOLEAN
      BY DEF PublicOwner
    <3>3. PICK code \in OwnerRuleCodes :
            \A r \in OwnerRuleCodes :
              EntityAbout(r) = entity /\ PublicAbout(r) = PublicOwner(d, entity) <=> r = code
      BY <3>2, OneRuleAbout
    <3>4. \A r \in OwnerRuleCodes : Reports(d, EntityAbout(r), PublicAbout(r)) <=> r = code
      BY <2>3, <2>4, <3>1, <3>3 DEF Reports
    <3>5. reporting = {code}
      BY <2>2, <3>4
    <3>6. QED
      BY <2>4, <3>5, FS_Singleton
  <2>5. CASE ~(~Documented(d) /\ ~MissingDocstringIsExempt(d) /\ placed)
    <3>1. \A code \in OwnerRuleCodes : ~Reports(d, EntityAbout(code), PublicAbout(code))
      BY <2>1, <2>3, <2>5, NoEntity DEF Reports
    <3>2. reporting = {}
      BY <2>2, <3>1
    <3>3. QED
      BY <2>5, <3>2, FS_EmptySet
  <2>6. QED
    BY <2>4, <2>5
<1>4. QED
  BY <1>1, <1>2, <1>3, PTL DEF Spec

-----------------------------------------------------------------------------

\* A set of numbers has a least member: what fails for some number fails for
\* a least one.
LEMMA LeastNat ==
  ASSUME NEW T \in SUBSET Nat, T # {}
  PROVE  \E m \in T : \A k \in T : m <= k
<1>. DEFINE R == OpToRel(<, Nat)
<1>1. IsWellFoundedOn(R, Nat)
  BY NatLessThanWellFounded
<1>2. \A i, j \in Nat : <<i, j>> \in R <=> i < j
  BY DEF OpToRel
<1>. HIDE DEF R
<1>3. PICK x \in T : \A y \in T : ~ (<<y, x>> \in R)
  BY <1>1, WFMin
<1>4. \A k \in T : ~(k < x)
  BY <1>2, <1>3
<1>5. QED
  BY <1>4

\* The places of a set of positions count it from 1, in order.
LEMMA PlacesCount ==
  ASSUME NEW P \in SUBSET Nat, IsFiniteSet(P)
  PROVE  /\ Cardinality(P) \in Nat
         /\ \A i \in P : Place(P, i) \in 1..Cardinality(P)
         /\ \A i, j \in P : i < j <=> Place(P, i) < Place(P, j)
         /\ \A k \in 1..Cardinality(P) : \E i \in P : Place(P, i) = k
<1>. DEFINE upTo(i) == {j \in P : j <= i}
            n == Cardinality(P)
<1>1. n \in Nat
  BY FS_CardinalityType
<1>2. ASSUME NEW A, NEW B, IsFiniteSet(B), A \subseteq B
      PROVE  /\ IsFiniteSet(A) /\ Cardinality(A) \in Nat /\ Cardinality(B) \in Nat
             /\ Cardinality(A) <= Cardinality(B)
             /\ A # B => Cardinality(A) < Cardinality(B)
  <2>1. /\ IsFiniteSet(A) /\ Cardinality(A) <= Cardinality(B)
        /\ Cardinality(B) = Cardinality(A) => B = A
    BY <1>2, FS_Subset
  <2>2. Cardinality(A) \in Nat /\ Cardinality(B) \in Nat
    BY <1>2, <2>1, FS_CardinalityType
  <2>3. QED
    BY <2>1, <2>2
<1>3. \A i \in P : Place(P, i) = Cardinality(upTo(i)) /\ upTo(i) \subseteq P /\ i \in upTo(i)
  BY DEF Place
<1>0. \A i \in P : i \in Nat
  OBVIOUS
<1>4. \A i, j \in P : i < j => upTo(i) \subseteq upTo(j) /\ j \notin upTo(i)
  <2>1. SUFFICES ASSUME NEW i \in P, NEW j \in P, i < j
                 PROVE  /\ \A k \in P : k <= i => k <= j
                        /\ ~(j <= i)
    OBVIOUS
  <2>2. QED
    BY <1>0, <2>1
<1>. HIDE DEF upTo
<1>5. ASSUME NEW i \in P PROVE Place(P, i) \in 1..n
  <2>1. /\ Place(P, i) = Cardinality(upTo(i)) /\ upTo(i) \subseteq P /\ i \in upTo(i)
    BY <1>3
  <2>2. Cardinality(upTo(i)) \in Nat /\ Cardinality(upTo(i)) <= n /\ IsFiniteSet(upTo(i))
    BY <1>2, <2>1
  <2>3. Cardinality(upTo(i)) # 0
    BY <2>1, <2>2, FS_EmptySet
  <2>4. QED
    BY <1>1, <2>1, <2>2, <2>3
<1>6. ASSUME NEW i \in P, NEW j \in P, i < j PROVE Place(P, i) < Place(P, j)
  <2>1. IsFiniteSet(upTo(j)) /\ upTo(i) \subseteq upTo(j) /\ upTo(i) # upTo(j)
    BY <1>2, <1>3, <1>4, <1>6
  <2>2. QED
    BY <1>2, <1>3, <2>1
<1>7. ASSUME NEW i \in P, NEW j \in P PROVE i < j <=> Place(P, i) < Place(P, j)
  <2>1. Place(P, i) \in Int /\ Place(P, j) \in Int /\ i \in Int /\ j \in Int
    BY <1>0, <1>1, <1>5
  <2>2. (i < j => Place(P, i) < Place(P, j)) /\ (j < i => Place(P, j) < Place(P, i))
    BY <1>6
  <2>3. i < j \/ i = j \/ j < i
    BY <2>1
  <2>4. QED
    BY <2>1, <2>2, <2>3
<1>8. \A k \in 1..n : \E i \in P : Place(P, i) = k
  <2>. DEFINE f == [i \in P |-> Place(P, i)]
  <2>1. f \in [P -> 1..n]
    BY <1>5
  <2>2. \A i, j \in P : f[i] = f[j] => i = j
    <3>1. SUFFICES ASSUME NEW i \in P, NEW j \in P, f[i] = f[j] PROVE i = j
      OBVIOUS
    <3>2. Place(P, i) = Place(P, j) /\ Place(P, i) \in Int
      BY <1>1, <1>5, <3>1
    <3>3. ~(i < j) /\ ~(j < i)
      BY <1>7, <3>2
    <3>4. QED
      BY <3>3
  <2>3. IsFiniteSet(1..n) /\ Cardinality(1..n) = n
    BY <1>1, FS_Interval
  <2>. HIDE DEF f
  <2>4. f \in Injection(P, 1..n)
    BY <2>1, <2>2 DEF Injection, IsInjective
  <2>5. f \in Surjection(P, 1..n)
    BY <2>3, <2>4, FS_Injection
  <2>6. \A k \in 1..n : \E i \in P : f[i] = k
    BY <2>5 DEF Surjection
  <2>7. QED
    BY <2>6 DEF f
<1>9. QED
  BY <1>1, <1>5, <1>7, <1>8

\* The k-th position is the one whose place is k.
LEMMA NthIs ==
  ASSUME NEW P \in SUBSET Nat, IsFiniteSet(P), NEW k \in 1..Cardinality(P)
  PROVE  Nth(P, k) \in P /\ Place(P, Nth(P, k)) = k
BY PlacesCount, Zenon DEF Nth

\* An increasing map of one set of positions onto another keeps places.
LEMMA SamePlaces ==
  ASSUME NEW P \in SUBSET Nat, IsFiniteSet(P), NEW Q \in SUBSET Nat, IsFiniteSet(Q),
         NEW f \in [P -> Q],
         \A i, j \in P : i < j => f[i] < f[j],
         \A q \in Q : \E i \in P : f[i] = q
  PROVE  /\ Cardinality(P) = Cardinality(Q)
         /\ \A i \in P : Place(Q, f[i]) = Place(P, i)
         /\ \A k \in 1..Cardinality(P) : Nth(Q, k) = f[Nth(P, k)]
<1>0. (\A i \in P : i \in Nat /\ f[i] \in Nat) /\ (\A q \in Q : q \in Nat)
  OBVIOUS
<1>1. ASSUME NEW i \in P, NEW j \in P PROVE f[i] < f[j] <=> i < j
  <2>1. i \in Int /\ j \in Int /\ f[i] \in Int /\ f[j] \in Int
    BY <1>0
  <2>2. i < j \/ i = j \/ j < i
    BY <2>1
  <2>3. (i < j => f[i] < f[j]) /\ (j < i => f[j] < f[i])
    OBVIOUS
  <2>4. QED
    BY <2>1, <2>2, <2>3
<1>2. ASSUME NEW i \in P, NEW j \in P, f[i] = f[j] PROVE i = j
  <2>1. ~(i < j) /\ ~(j < i) /\ i \in Int /\ j \in Int
    BY <1>0, <1>1, <1>2
  <2>2. QED
    BY <2>1
<1>3. ASSUME NEW A \in SUBSET P, NEW B \in SUBSET Q, \A a \in A : f[a] \in B,
             \A b \in B : \E a \in A : f[a] = b
      PROVE  Cardinality(A) = Cardinality(B)
  <2>. DEFINE g == [a \in A |-> f[a]]
  <2>1. g \in [A -> B] /\ \A a, b \in A : g[a] = g[b] => a = b
    BY <1>2, <1>3
  <2>2. \A b \in B : \E a \in A : g[a] = b
    BY <1>3
  <2>3. g \in Bijection(A, B)
    <3>. HIDE DEF g
    <3>1. QED
      BY <2>1, <2>2 DEF Bijection, Injection, Surjection, IsInjective
  <2>4. IsFiniteSet(A)
    BY FS_Subset
  <2>. HIDE DEF g
  <2>5. ExistsBijection(A, B)
    BY <2>3 DEF ExistsBijection
  <2>6. QED
    BY <2>3, <2>4, <2>5, FS_Bijection
<1>4. Cardinality(P) = Cardinality(Q)
  BY <1>3
<1>5. ASSUME NEW i \in P PROVE Place(Q, f[i]) = Place(P, i)
  <2>. DEFINE A == {j \in P : j <= i}
              B == {j \in Q : j <= f[i]}
  <2>1. \A a \in A : f[a] \in B
    <3>1. SUFFICES ASSUME NEW a \in A PROVE f[a] <= f[i]
      OBVIOUS
    <3>2. ~(i < a)
      BY <1>0
    <3>3. ~(f[i] < f[a]) /\ f[i] \in Int /\ f[a] \in Int
      BY <1>0, <1>1, <3>2
    <3>4. QED
      BY <3>3
  <2>2. \A b \in B : \E a \in A : f[a] = b
    <3>1. SUFFICES ASSUME NEW b \in B PROVE \E a \in A : f[a] = b
      OBVIOUS
    <3>2. PICK a \in P : f[a] = b
      OBVIOUS
    <3>3. ~(f[i] < f[a])
      BY <1>0, <3>2
    <3>4. ~(i < a)
      BY <1>1, <3>3
    <3>5. a <= i
      BY <1>0, <3>4
    <3>6. QED
      BY <3>2, <3>5
  <2>3. A \in SUBSET P /\ B \in SUBSET Q
    OBVIOUS
  <2>4. Cardinality(A) = Cardinality(B)
    <3>. HIDE DEF A, B
    <3>1. QED
      BY <1>3, <2>1, <2>2, <2>3
  <2>5. QED
    BY <2>4 DEF Place
<1>6. ASSUME NEW k \in 1..Cardinality(P) PROVE Nth(Q, k) = f[Nth(P, k)]
  <2>1. Nth(P, k) \in P /\ Place(P, Nth(P, k)) = k
    BY NthIs
  <2>2. Nth(Q, k) \in Q /\ Place(Q, Nth(Q, k)) = k
    BY <1>4, NthIs
  <2>3. PICK i \in P : f[i] = Nth(Q, k)
    BY <2>2
  <2>4. Place(P, i) = k
    BY <1>5, <2>2, <2>3
  <2>5. PICK j \in P : j = Nth(P, k) /\ Place(P, j) = k
    BY <2>1
  <2>6. i = j
    <3>1. \A a, b \in P : a < b <=> Place(P, a) < Place(P, b)
      BY PlacesCount
    <3>2. i \in Int /\ j \in Int /\ Place(P, i) \in Int /\ Place(P, j) \in Int
      BY <1>0, <2>4, <2>5
    <3>3. ~(i < j) /\ ~(j < i)
      BY <2>4, <2>5, <3>1, <3>2
    <3>4. QED
      BY <3>2, <3>3
  <2>7. QED
    BY <2>3, <2>5, <2>6
<1>7. QED
  BY <1>4, <1>5, <1>6
LEMMA ElementsAre ==
  ASSUME NEW A, NEW s \in Seq(A), NEW P \in SUBSET DOMAIN s
  PROVE  /\ P \in SUBSET Nat /\ IsFiniteSet(P)
         /\ Elements(s, P) \in Seq(A) /\ Len(Elements(s, P)) = Cardinality(P)
         /\ \A i \in P : Place(P, i) \in DOMAIN Elements(s, P) /\ Elements(s, P)[Place(P, i)] = s[i]
         /\ \A k \in DOMAIN Elements(s, P) : \E i \in P : Place(P, i) = k
<1>1. P \in SUBSET Nat /\ IsFiniteSet(P)
  <2>1. Len(s) \in Nat /\ DOMAIN s = 1..Len(s)
    OBVIOUS
  <2>2. IsFiniteSet(DOMAIN s)
    BY <2>1, FS_Interval
  <2>3. QED
    BY <2>1, <2>2, FS_Subset
<1>2. \A k \in 1..Cardinality(P) : Nth(P, k) \in P /\ s[Nth(P, k)] \in A
  BY <1>1, NthIs
<1>3. Elements(s, P) \in [1..Cardinality(P) -> A] /\ Cardinality(P) \in Nat
  BY <1>1, <1>2, FS_CardinalityType DEF Elements
<1>4. Elements(s, P) \in Seq(A) /\ Len(Elements(s, P)) = Cardinality(P)
  <2>. DEFINE e == Elements(s, P)
              n == Cardinality(P)
  <2>. HIDE DEF e, n
  <2>1. e \in [1..n -> A] /\ n \in Nat => e \in Seq(A) /\ Len(e) = n
    OBVIOUS
  <2>2. QED
    BY <1>3, <2>1 DEF e, n
<1>5. ASSUME NEW i \in P PROVE Place(P, i) \in 1..Cardinality(P) /\ Elements(s, P)[Place(P, i)] = s[i]
  <2>1. PICK k \in 1..Cardinality(P) : k = Place(P, i)
    BY <1>1, PlacesCount
  <2>2. PICK j \in P : j = Nth(P, k) /\ Place(P, j) = k
    BY <1>1, NthIs
  <2>3. i = j
    <3>1. \A a, b \in P : a < b <=> Place(P, a) < Place(P, b)
      BY <1>1, PlacesCount
    <3>2. i \in Int /\ j \in Int /\ Place(P, i) \in Int /\ Place(P, j) \in Int
      BY <1>1, <2>1, <2>2
    <3>3. ~(i < j) /\ ~(j < i)
      BY <2>1, <2>2, <3>1, <3>2
    <3>4. QED
      BY <3>2, <3>3
  <2>4. Elements(s, P)[k] = s[Nth(P, k)]
    BY DEF Elements
  <2>5. QED
    BY <2>1, <2>2, <2>3, <2>4
<1>6. \A k \in 1..Cardinality(P) : \E i \in P : Place(P, i) = k
  BY <1>1, PlacesCount
<1>7. DOMAIN Elements(s, P) = 1..Cardinality(P)
  BY <1>3
<1>8. QED
  BY <1>1, <1>4, <1>5, <1>6, <1>7

-----------------------------------------------------------------------------
(* Sequences of sequences                                                  *)

\* One step of FlattenSeq.
FlattenStep(s, f, i) == IF i = 1 THEN s[i] ELSE f[i - 1] \o s[i]

IsFlattening(s, n, f) == f = [i \in 1..n |-> FlattenStep(s, f, i)]

\* FlattenSeq adds one sequence after the other to what it has.
LEMMA Flattening ==
  ASSUME NEW A, NEW s \in Seq(Seq(A))
  PROVE  \E f \in [0..Len(s) -> Seq(A)] :
           /\ f[0] = <<>>
           /\ \A i \in 1..Len(s) : f[i] = f[i - 1] \o s[i]
           /\ FlattenSeq(s) = f[Len(s)]
<1>. DEFINE n == Len(s)
<1>0. n \in Nat /\ \A i \in 1..n : s[i] \in Seq(A)
  OBVIOUS
<1>1. CASE n = 0
  <2>1. FlattenSeq(s) = <<>>
    BY <1>1 DEF FlattenSeq
  <2>. DEFINE f == [i \in 0..n |-> <<>>]
  <2>2. f \in [0..n -> Seq(A)] /\ f[0] = <<>> /\ f[n] = <<>>
    BY <1>0
  <2>3. \A i \in 1..n : FALSE
    BY <1>1
  <2>. HIDE DEF f
  <2>4. QED
    BY <2>1, <2>2, <2>3
<1>2. CASE n # 0
  <2>1. \A m \in 1..n : \E f \in [1..m -> Seq(A)] : IsFlattening(s, m, f)
    <3>. DEFINE T == {m \in 1..n : ~\E f \in [1..m -> Seq(A)] : IsFlattening(s, m, f)}
    <3>1. SUFFICES ASSUME T # {} PROVE FALSE
      OBVIOUS
    <3>2. T \in SUBSET Nat
      OBVIOUS
    <3>3. PICK m \in T : \A k \in T : m <= k
      <4>. HIDE DEF T
      <4>1. QED
        BY <3>1, <3>2, LeastNat
    <3>4. m \in 1..n /\ ~\E f \in [1..m -> Seq(A)] : IsFlattening(s, m, f)
      OBVIOUS
    <3>5. CASE m = 1
      <4>1. [i \in 1..1 |-> s[i]] \in [1..1 -> Seq(A)]
        BY <1>0, <1>2
      <4>2. IsFlattening(s, 1, [i \in 1..1 |-> s[i]])
        BY DEF IsFlattening, FlattenStep
      <4>3. QED
        BY <3>4, <3>5, <4>1, <4>2
    <3>6. CASE m # 1
      <4>1. m - 1 \in 1..n /\ ~(m <= m - 1)
        BY <1>0, <3>4, <3>6
      <4>2. m - 1 \notin T
        BY <3>3, <4>1
      <4>3. PICK g \in [1..(m - 1) -> Seq(A)] : IsFlattening(s, m - 1, g)
        BY <4>1, <4>2
      <4>. DEFINE h == [i \in 1..m |-> IF i = m THEN g[m - 1] \o s[m] ELSE g[i]]
      <4>4. m - 1 \in 1..(m - 1) /\ m \in Nat /\ \A i \in 1..m : i # m => i \in 1..(m - 1)
        BY <1>0, <3>4, <4>1
      <4>5. g[m - 1] \o s[m] \in Seq(A)
        BY <1>0, <3>4, <4>4
      <4>6. h \in [1..m -> Seq(A)]
        BY <4>4, <4>5
      <4>7. ASSUME NEW i \in 1..m PROVE h[i] = FlattenStep(s, h, i)
        <5>1. CASE i = m
          <6>1. h[m - 1] = g[m - 1]
            BY <4>1, <4>4
          <6>2. QED
            BY <3>6, <5>1, <6>1 DEF FlattenStep
        <5>2. CASE i # m
          <6>1. i \in 1..(m - 1) /\ h[i] = g[i]
            BY <4>4, <5>2
          <6>2. g[i] = FlattenStep(s, g, i)
            BY <4>3, <6>1 DEF IsFlattening
          <6>3. i # 1 => i - 1 \in 1..m /\ i - 1 # m
            BY <4>4, <6>1
          <6>4. i # 1 => h[i - 1] = g[i - 1]
            BY <6>3
          <6>. HIDE DEF h
          <6>5. QED
            BY <6>1, <6>2, <6>4 DEF FlattenStep
        <5>3. QED
          BY <5>1, <5>2
      <4>8. h = [i \in 1..m |-> FlattenStep(s, h, i)]
        <5>. HIDE DEF h
        <5>1. QED
          BY <4>6, <4>7
      <4>9. QED
        <5>. HIDE DEF h
        <5>1. QED
          BY <3>4, <4>6, <4>8 DEF IsFlattening
    <3>7. QED
      BY <3>5, <3>6
  <2>2. n \in 1..n
    BY <1>0, <1>2
  <2>3. \E f \in [1..n -> Seq(A)] : IsFlattening(s, n, f)
    BY <2>1, <2>2
  <2>. DEFINE flatten ==
                CHOOSE f : f = [i \in 1..Len(s) |-> IF i = 1 THEN s[i] ELSE f[i - 1] \o s[i]]
  <2>4. FlattenSeq(s) = flatten[n]
    BY <1>2, Zenon DEF FlattenSeq
  <2>5. \A f : IsFlattening(s, n, f) <=> f = [i \in 1..Len(s) |-> IF i = 1 THEN s[i] ELSE f[i - 1] \o s[i]]
    BY DEF IsFlattening, FlattenStep
  <2>6. IsFlattening(s, n, flatten)
    BY <2>3, <2>5, Zenon
  <2>. HIDE DEF flatten
  <2>7. \A i \in 1..n : flatten[i] = FlattenStep(s, flatten, i)
    BY <2>6 DEF IsFlattening
  <2>8. PICK g \in [1..n -> Seq(A)] : IsFlattening(s, n, g)
    BY <2>3
  <2>9. \A i \in 1..n : flatten[i] \in Seq(A)
    <3>. DEFINE T == {i \in 1..n : flatten[i] \notin Seq(A)}
    <3>1. SUFFICES ASSUME T # {} PROVE FALSE
      OBVIOUS
    <3>2. PICK i \in T : \A k \in T : i <= k
      <4>1. T \in SUBSET Nat
        OBVIOUS
      <4>. HIDE DEF T
      <4>2. QED
        BY <3>1, <4>1, LeastNat
    <3>3. i \in 1..n /\ flatten[i] \notin Seq(A)
      OBVIOUS
    <3>4. i # 1 => i - 1 \in 1..n /\ ~(i <= i - 1)
      BY <1>0, <3>3
    <3>5. i # 1 => flatten[i - 1] \in Seq(A)
      BY <3>2, <3>4
    <3>6. flatten[i] = FlattenStep(s, flatten, i)
      BY <2>7, <3>3
    <3>7. QED
      BY <1>0, <3>3, <3>5, <3>6 DEF FlattenStep
  <2>. DEFINE f == [i \in 0..n |-> IF i = 0 THEN <<>> ELSE flatten[i]]
  <2>10. \A i \in 0..n : i # 0 => i \in 1..n
    BY <1>0
  <2>11. f \in [0..n -> Seq(A)] /\ f[0] = <<>> /\ f[n] = flatten[n]
    BY <1>0, <1>2, <2>9, <2>10
  <2>12. ASSUME NEW i \in 1..n PROVE f[i] = f[i - 1] \o s[i]
    <3>1. flatten[i] = FlattenStep(s, flatten, i) /\ s[i] \in Seq(A)
      BY <1>0, <2>7
    <3>2. f[i] = flatten[i] /\ i - 1 \in 0..n /\ (i # 1 => i - 1 # 0)
      BY <1>0
    <3>3. i # 1 => f[i - 1] = flatten[i - 1]
      BY <3>2
    <3>4. i = 1 => f[i - 1] = <<>>
      BY <2>11
    <3>. HIDE DEF f
    <3>5. CASE i = 1
      <4>1. f[i] = s[i] /\ <<>> \o s[i] = s[i]
        BY <3>1, <3>2, <3>5 DEF FlattenStep
      <4>2. QED
        BY <3>4, <3>5, <4>1
    <3>6. CASE i # 1
      BY <3>1, <3>2, <3>3, <3>6 DEF FlattenStep
    <3>7. QED
      BY <3>5, <3>6
  <2>13. QED
    <3>. HIDE DEF f
    <3>1. QED
      BY <2>4, <2>11, <2>12
<1>3. QED
  BY <1>1, <1>2

-----------------------------------------------------------------------------
(* Lines and layouts                                                       *)

LEMMA LineParts ==
  ASSUME NEW line \in Lines
  PROVE  /\ line.kind \in ContentKinds \cup {"blank"} /\ line.id \in Nat
         /\ line.lead \in Leads /\ line.trail \in Trails
         /\ IsBlank(line) => line.id = 0 /\ line.trail = "none"
         /\ \A lead \in Leads : [line EXCEPT !.lead = lead] \in Lines
         /\ ~IsBlank(line) => \A trail \in Trails : [line EXCEPT !.trail = trail] \in Lines
<1>1. CASE line \in [kind : ContentKinds, id : Nat, lead : Leads, trail : Trails]
  BY <1>1 DEF Lines, IsBlank, ContentKinds
<1>2. CASE line \in [kind : {"blank"}, id : {0}, lead : Leads, trail : {"none"}]
  BY <1>2 DEF Lines, IsBlank, ContentKinds, Trails
<1>3. QED
  BY <1>1, <1>2 DEF Lines

LEMMA BlankLineIs ==
  ASSUME NEW lead \in Leads
  PROVE  BlankLine(lead) \in Lines /\ IsBlank(BlankLine(lead))
BY DEF BlankLine, Lines, IsBlank

LEMMA LayoutParts ==
  ASSUME NEW d \in AllLayouts
  PROVE  /\ d.lines \in Seq(Lines) /\ Len(d.lines) \in Nat \ {0}
         /\ DOMAIN d.lines = 1..Len(d.lines)
         /\ \A i \in 1..Len(d.lines) : d.lines[i] \in Lines
         /\ d.newline \in BOOLEAN
         /\ d = [lines |-> d.lines, newline |-> d.newline]
         /\ ContentIndexes(d) \subseteq 1..Len(d.lines)
         /\ ContentIndexes(d) \in SUBSET Nat /\ IsFiniteSet(ContentIndexes(d))
         /\ \A i \in 1..Len(d.lines) : i \in ContentIndexes(d) <=> ~IsBlank(d.lines[i])
<1>1. /\ d.lines \in Seq(Lines) /\ d.lines # <<>> /\ d.newline \in BOOLEAN
      /\ d = [lines |-> d.lines, newline |-> d.newline]
  BY DEF AllLayouts
<1>2. Len(d.lines) \in Nat \ {0} /\ DOMAIN d.lines = 1..Len(d.lines)
  BY <1>1
<1>3. ContentIndexes(d) \subseteq 1..Len(d.lines) /\ IsFiniteSet(1..Len(d.lines))
  BY <1>2, FS_Interval DEF ContentIndexes
<1>4. IsFiniteSet(ContentIndexes(d))
  BY <1>3, FS_Subset
<1>5. \A i \in 1..Len(d.lines) : d.lines[i] \in Lines /\ i \in Nat
  BY <1>1, <1>2
<1>6. QED
  BY <1>1, <1>2, <1>3, <1>4, <1>5 DEF ContentIndexes

LEMMA LayoutIs ==
  ASSUME NEW lines \in Seq(Lines), Len(lines) # 0, NEW newline \in BOOLEAN
  PROVE  [lines |-> lines, newline |-> newline] \in AllLayouts
BY DEF AllLayouts

LEMMA FirstAndLast ==
  ASSUME NEW d \in AllLayouts, ContentIndexes(d) # {}
  PROVE  /\ FirstContent(d) \in ContentIndexes(d)
         /\ \A i \in ContentIndexes(d) : FirstContent(d) <= i
         /\ LastContent(d) \in ContentIndexes(d)
         /\ \A i \in ContentIndexes(d) : i <= LastContent(d)
<1>. DEFINE C == ContentIndexes(d)
            T == {k \in Nat : \A i \in C : i <= k}
<1>1. C \in SUBSET Nat /\ C \subseteq 1..Len(d.lines) /\ Len(d.lines) \in Nat
  BY LayoutParts
<1>2. PICK first \in C : \A i \in C : first <= i
  BY <1>1, LeastNat
<1>3. Len(d.lines) \in T
  BY <1>1
<1>4. PICK last \in T : \A k \in T : last <= k
  <2>1. T \in SUBSET Nat /\ T # {}
    BY <1>3
  <2>. HIDE DEF T
  <2>2. QED
    BY <2>1, LeastNat
<1>5. last \in Nat /\ \A i \in C : i <= last
  OBVIOUS
<1>6. last \in C
  <2>1. SUFFICES ASSUME last \notin C PROVE FALSE
    OBVIOUS
  <2>2. PICK i \in C : i \in Nat \ {0}
    BY <1>1
  <2>3. last - 1 \in Nat
    BY <1>5, <2>2
  <2>4. \A j \in C : j <= last - 1
    BY <1>1, <1>5, <2>1
  <2>5. last - 1 \in T
    BY <2>3, <2>4
  <2>6. last <= last - 1
    BY <1>4, <2>5
  <2>7. QED
    BY <1>5, <2>6
<1>. HIDE DEF T
<1>7. FirstContent(d) \in C /\ \A i \in C : FirstContent(d) <= i
  BY <1>2, Zenon DEF FirstContent, Min
<1>8. \A i \in C : last >= i
  BY <1>1, <1>5
<1>9. LastContent(d) \in C /\ \A i \in C : LastContent(d) >= i
  BY <1>6, <1>8, Zenon DEF LastContent, Max
<1>10. QED
  BY <1>1, <1>7, <1>9

\* The text of one layout is that of another, in order, and so are the hard
\* breaks between two pieces of it.
Corresponds(d, e, f) ==
    /\ f \in [ContentIndexes(d) -> ContentIndexes(e)]
    /\ \A i, j \in ContentIndexes(d) : i < j => f[i] < f[j]
    /\ \A k \in ContentIndexes(e) : \E i \in ContentIndexes(d) : f[i] = k
    /\ \A i \in ContentIndexes(d) : e.lines[f[i]].id = d.lines[i].id
    /\ \A i, j \in ContentIndexes(d) :
         i < j => (IsHardBreak(e.lines[f[i]]) <=> IsHardBreak(d.lines[i]))

KeptIn(d, e) == \E f : Corresponds(d, e, f)

LEMMA SameLinesKept ==
  ASSUME NEW d, NEW e, ContentIndexes(e) = ContentIndexes(d),
         \A i \in ContentIndexes(d) : e.lines[i].id = d.lines[i].id,
         \A i, j \in ContentIndexes(d) :
            i < j => (IsHardBreak(e.lines[i]) <=> IsHardBreak(d.lines[i]))
  PROVE  KeptIn(d, e)
<1>. DEFINE f == [i \in ContentIndexes(d) |-> i]
<1>1. /\ f \in [ContentIndexes(d) -> ContentIndexes(e)]
      /\ \A i \in ContentIndexes(d) : f[i] = i
  OBVIOUS
<1>. HIDE DEF f
<1>2. Corresponds(d, e, f)
  BY <1>1 DEF Corresponds
<1>3. QED
  BY <1>2 DEF KeptIn

LEMMA KeptInItself == ASSUME NEW d PROVE KeptIn(d, d)
BY SameLinesKept

LEMMA KeptTransitive ==
  ASSUME NEW c, NEW d, NEW e, KeptIn(c, d), KeptIn(d, e)
  PROVE  KeptIn(c, e)
<1>1. PICK f : Corresponds(c, d, f)
  BY DEF KeptIn
<1>2. PICK g : Corresponds(d, e, g)
  BY DEF KeptIn
<1>. DEFINE h == [i \in ContentIndexes(c) |-> g[f[i]]]
<1>3. \A i \in ContentIndexes(c) : f[i] \in ContentIndexes(d) /\ h[i] = g[f[i]]
  BY <1>1 DEF Corresponds
<1>4. h \in [ContentIndexes(c) -> ContentIndexes(e)]
  BY <1>1, <1>2 DEF Corresponds
<1>. HIDE DEF h
<1>5. \A i, j \in ContentIndexes(c) : i < j => h[i] < h[j]
  BY <1>1, <1>2, <1>3 DEF Corresponds
<1>6. \A k \in ContentIndexes(e) : \E i \in ContentIndexes(c) : h[i] = k
  BY <1>1, <1>2, <1>3 DEF Corresponds
<1>7. \A i \in ContentIndexes(c) : e.lines[h[i]].id = c.lines[i].id
  BY <1>1, <1>2, <1>3 DEF Corresponds
<1>8. \A i, j \in ContentIndexes(c) :
         i < j => (IsHardBreak(e.lines[h[i]]) <=> IsHardBreak(c.lines[i]))
  BY <1>1, <1>2, <1>3 DEF Corresponds
<1>9. QED
  BY <1>4, <1>5, <1>6, <1>7, <1>8 DEF KeptIn, Corresponds

-----------------------------------------------------------------------------
(* The rules that leave lines where they are                               *)

LEMMA SetupParts ==
  ASSUME setup \in AllSetups
  PROVE  /\ setup.selected \subseteq Rules /\ setup.margin \in Leads
         /\ (IF setup.aligned THEN setup.margin ELSE "none") \in Leads
BY DEF AllSetups, Leads

\* A layout of lines of the same content in the same places.
LEMMA LinesReplaced ==
  ASSUME NEW d \in AllLayouts, NEW lines \in Seq(Lines), Len(lines) = Len(d.lines),
         NEW newline \in BOOLEAN,
         \A i \in 1..Len(lines) :
            /\ IsBlank(lines[i]) <=> IsBlank(d.lines[i])
            /\ lines[i].id = d.lines[i].id,
         \A i, j \in ContentIndexes(d) :
            i < j => (IsHardBreak(lines[i]) <=> IsHardBreak(d.lines[i]))
  PROVE  LET e == [lines |-> lines, newline |-> newline]
         IN  e \in AllLayouts /\ KeptIn(d, e)
<1>. DEFINE e == [lines |-> lines, newline |-> newline]
<1>1. e \in AllLayouts /\ e.lines = lines
  BY LayoutIs, LayoutParts
<1>2. ContentIndexes(e) = ContentIndexes(d)
  <2>1. \A i \in 1..Len(lines) : i \in ContentIndexes(e) <=> i \in ContentIndexes(d)
    BY <1>1, LayoutParts
  <2>2. ContentIndexes(e) \subseteq 1..Len(lines) /\ ContentIndexes(d) \subseteq 1..Len(lines)
    BY <1>1, LayoutParts
  <2>3. QED
    BY <2>1, <2>2
<1>3. ContentIndexes(d) \subseteq 1..Len(lines)
  BY LayoutParts
<1>. HIDE DEF e
<1>4. KeptIn(d, e)
  BY <1>1, <1>2, <1>3, SameLinesKept
<1>5. QED
  BY <1>1, <1>4 DEF e

\* A newline that ends the value is no content.
LEMMA ReparsedKept ==
  ASSUME NEW lines \in Seq(Lines), Len(lines) # 0, NEW newline \in BOOLEAN
  PROVE  LET d == [lines |-> lines, newline |-> newline]
         IN  /\ d \in AllLayouts
             /\ Reparsed(lines, newline) \in AllLayouts
             /\ KeptIn(d, Reparsed(lines, newline))
<1>. DEFINE d == [lines |-> lines, newline |-> newline]
            e == [lines |-> Front(lines), newline |-> TRUE]
<1>1. d \in AllLayouts
  BY LayoutIs
<1>2. CASE ~newline /\ Len(lines) > 1 /\ Last(lines) = BlankLine("none")
  <2>1. /\ Front(lines) \in Seq(Lines) /\ Len(Front(lines)) = Len(lines) - 1
        /\ \A i \in 1..(Len(lines) - 1) : Front(lines)[i] = lines[i]
    BY <1>2 DEF Front
  <2>2. e \in AllLayouts
    BY <1>2, <2>1 DEF AllLayouts
  <2>3. lines[Len(lines)] = BlankLine("none")
    BY <1>2 DEF Last
  <2>4. IsBlank(lines[Len(lines)])
    BY <2>3 DEF IsBlank, BlankLine
  <2>5. Len(lines) \notin ContentIndexes(d)
    BY <1>1, <2>4 DEF ContentIndexes
  <2>6. ContentIndexes(d) \subseteq 1..(Len(lines) - 1)
    <3>1. ContentIndexes(d) \subseteq 1..Len(lines) /\ Len(lines) \in Nat
      BY <1>1, LayoutParts
    <3>2. QED
      BY <2>5, <3>1
  <2>7. ContentIndexes(e) \subseteq 1..(Len(lines) - 1)
    BY <2>1, <2>2, LayoutParts
  <2>8. \A i \in 1..(Len(lines) - 1) : i \in ContentIndexes(e) <=> i \in ContentIndexes(d)
    <3>1. \A i \in 1..(Len(lines) - 1) : i \in 1..Len(lines)
      BY <1>2
    <3>2. \A i \in 1..(Len(lines) - 1) : i \in ContentIndexes(e) <=> ~IsBlank(Front(lines)[i])
      BY <2>1, <2>2, LayoutParts
    <3>3. \A i \in 1..(Len(lines) - 1) : i \in ContentIndexes(d) <=> ~IsBlank(lines[i])
      BY <1>1, <3>1, LayoutParts
    <3>4. QED
      BY <2>1, <3>2, <3>3
  <2>9. ContentIndexes(e) = ContentIndexes(d)
    BY <2>6, <2>7, <2>8
  <2>10. \A i \in ContentIndexes(d) : e.lines[i] = d.lines[i]
    BY <2>1, <2>6
  <2>. HIDE DEF d, e
  <2>11. KeptIn(d, e)
    BY <2>9, <2>10, SameLinesKept
  <2>12. Reparsed(lines, newline) = e
    BY <1>2 DEF Reparsed, e
  <2>13. QED
    BY <1>1, <2>2, <2>11, <2>12 DEF d
<1>3. CASE ~(~newline /\ Len(lines) > 1 /\ Last(lines) = BlankLine("none"))
  <2>1. Reparsed(lines, newline) = d
    BY <1>3, Zenon DEF Reparsed
  <2>. HIDE DEF d
  <2>2. KeptIn(d, d)
    BY KeptInItself
  <2>3. QED
    BY <1>1, <2>1, <2>2 DEF d
<1>4. QED
  BY <1>2, <1>3

LEMMA StrippedLine ==
  ASSUME NEW line \in Lines
  PROVE  /\ TrailingStripped(line) \in Lines
         /\ IsBlank(TrailingStripped(line)) <=> IsBlank(line)
         /\ TrailingStripped(line).id = line.id
         /\ IsHardBreak(TrailingStripped(line)) <=> IsHardBreak(line)
<1>. DEFINE trail == IF line.trail \in {"break", "tab+break"} THEN "break" ELSE "none"
<1>1. trail \in Trails /\ TrailingStripped(line) = [line EXCEPT !.trail = trail]
  BY DEF Trails, TrailingStripped
<1>2. CASE line \in [kind : ContentKinds, id : Nat, lead : Leads, trail : Trails]
  BY <1>1, <1>2 DEF Lines, IsBlank, IsHardBreak
<1>3. CASE line \in [kind : {"blank"}, id : {0}, lead : Leads, trail : {"none"}]
  BY <1>1, <1>3 DEF Lines, IsBlank, IsHardBreak
<1>4. QED
  BY <1>2, <1>3 DEF Lines

LEMMA DocstringTrailingWhitespaceKeeps ==
  ASSUME NEW d \in AllLayouts
  PROVE  DocstringTrailingWhitespace(d) \in AllLayouts /\ KeptIn(d, DocstringTrailingWhitespace(d))
<1>. DEFINE lines == [i \in DOMAIN d.lines |->
                        IF i < Len(d.lines) \/ d.newline THEN TrailingStripped(d.lines[i]) ELSE d.lines[i]]
<1>1. DocstringTrailingWhitespace(d) = [lines |-> lines, newline |-> d.newline]
  BY LayoutParts DEF DocstringTrailingWhitespace
<1>2. \A i \in 1..Len(d.lines) :
         /\ lines[i] \in Lines /\ lines[i].id = d.lines[i].id
         /\ IsBlank(lines[i]) <=> IsBlank(d.lines[i])
         /\ IsHardBreak(lines[i]) <=> IsHardBreak(d.lines[i])
  BY LayoutParts, StrippedLine
<1>3. lines \in Seq(Lines) /\ Len(lines) = Len(d.lines)
  <2>1. lines \in [1..Len(d.lines) -> Lines] /\ Len(d.lines) \in Nat
    BY <1>2, LayoutParts
  <2>. HIDE DEF lines
  <2>2. QED
    BY <2>1
<1>4. ContentIndexes(d) \subseteq 1..Len(d.lines) /\ d.newline \in BOOLEAN
  BY LayoutParts
<1>. HIDE DEF lines
<1>5. QED
  BY <1>1, <1>2, <1>3, <1>4, LinesReplaced

LEMMA DocstringBlankLineWhitespaceKeeps ==
  ASSUME setup \in AllSetups, NEW d \in AllLayouts
  PROVE  DocstringBlankLineWhitespace(d) \in AllLayouts /\ KeptIn(d, DocstringBlankLineWhitespace(d))
<1>1. CASE d = EmptyValue
  <2>1. DocstringBlankLineWhitespace(d) = d
    BY <1>1, Zenon DEF DocstringBlankLineWhitespace
  <2>2. QED
    BY <2>1, KeptInItself
<1>2. CASE d # EmptyValue
  <2>. DEFINE lead(i) == IF IsClosingPrefix(d, i) \/ setup.aligned THEN setup.margin ELSE "none"
              lines == [i \in DOMAIN d.lines |->
                          IF ~IsBlank(d.lines[i]) THEN d.lines[i] ELSE BlankLine(lead(i))]
              e == [lines |-> lines, newline |-> d.newline]
  <2>1. DocstringBlankLineWhitespace(d) = Reparsed(lines, d.newline)
    BY <1>2, Zenon DEF DocstringBlankLineWhitespace
  <2>2. \A i \in 1..Len(d.lines) : lead(i) \in Leads
    BY SetupParts DEF Leads
  <2>3. \A i \in 1..Len(d.lines) :
           /\ lines[i] \in Lines /\ lines[i].id = d.lines[i].id
           /\ IsBlank(lines[i]) <=> IsBlank(d.lines[i])
           /\ ~IsBlank(d.lines[i]) => lines[i] = d.lines[i]
    <3>1. SUFFICES ASSUME NEW i \in 1..Len(d.lines)
                   PROVE  /\ lines[i] \in Lines /\ lines[i].id = d.lines[i].id
                          /\ IsBlank(lines[i]) <=> IsBlank(d.lines[i])
                          /\ ~IsBlank(d.lines[i]) => lines[i] = d.lines[i]
      OBVIOUS
    <3>2. BlankLine(lead(i)) \in Lines /\ IsBlank(BlankLine(lead(i))) /\ BlankLine(lead(i)).id = 0
      BY <2>2, BlankLineIs DEF BlankLine
    <3>3. d.lines[i] \in Lines /\ (IsBlank(d.lines[i]) => d.lines[i].id = 0) /\ i \in DOMAIN d.lines
      BY LayoutParts, LineParts
    <3>. HIDE DEF lead
    <3>4. QED
      BY <3>2, <3>3
  <2>4. lines \in Seq(Lines) /\ Len(lines) = Len(d.lines)
    <3>1. lines \in [1..Len(d.lines) -> Lines] /\ Len(d.lines) \in Nat
      BY <2>3, LayoutParts
    <3>. HIDE DEF lines
    <3>2. QED
      BY <3>1
  <2>5. /\ ContentIndexes(d) \subseteq 1..Len(d.lines) /\ d.newline \in BOOLEAN /\ Len(lines) # 0
        /\ \A i \in ContentIndexes(d) : lines[i] = d.lines[i]
    BY <2>3, <2>4, LayoutParts
  <2>. HIDE DEF lines
  <2>6. e \in AllLayouts /\ KeptIn(d, e)
    BY <2>3, <2>4, <2>5, LinesReplaced
  <2>7. Reparsed(lines, d.newline) \in AllLayouts /\ KeptIn(e, Reparsed(lines, d.newline))
    BY <2>4, <2>5, ReparsedKept
  <2>8. KeptIn(d, Reparsed(lines, d.newline))
    BY <2>6, <2>7, KeptTransitive
  <2>9. QED
    BY <2>1, <2>7, <2>8
<1>3. QED
  BY <1>1, <1>2

LEMMA OpeningQuotesWhitespaceKeeps ==
  ASSUME NEW d \in AllLayouts
  PROVE  OpeningQuotesWhitespace(d) \in AllLayouts /\ KeptIn(d, OpeningQuotesWhitespace(d))
<1>1. CASE ~OpensOnContent(d)
  BY <1>1, KeptInItself DEF OpeningQuotesWhitespace
<1>2. CASE OpensOnContent(d)
  <2>. DEFINE first == [d.lines[1] EXCEPT !.lead = "none"]
              lines == [d.lines EXCEPT ![1] = first]
  <2>1. OpeningQuotesWhitespace(d) = [lines |-> lines, newline |-> d.newline]
    <3>1. OpeningQuotesWhitespace(d) = [d EXCEPT !.lines[1].lead = "none"]
      BY <1>2 DEF OpeningQuotesWhitespace
    <3>2. d \in [lines : Seq(Lines), newline : BOOLEAN]
      BY DEF AllLayouts
    <3>3. [d EXCEPT !.lines[1].lead = "none"] = [d EXCEPT !.lines = [d.lines EXCEPT ![1] = first]]
      BY <3>2
    <3>4. QED
      BY <3>1, <3>2, <3>3
  <2>2. d.lines[1] \in Lines /\ 1 \in 1..Len(d.lines)
    BY LayoutParts
  <2>3. first \in Lines /\ first.id = d.lines[1].id /\ first.trail = d.lines[1].trail
        /\ first.kind = d.lines[1].kind
    <3>1. "none" \in Leads
      BY DEF Leads
    <3>2. [d.lines[1] EXCEPT !.lead = "none"] \in Lines
      BY <2>2, <3>1, LineParts
    <3>3. QED
      BY <2>2, <3>2 DEF Lines
  <2>. HIDE DEF first
  <2>4. /\ lines \in Seq(Lines) /\ Len(lines) = Len(d.lines)
        /\ \A i \in 1..Len(lines) : lines[i] = IF i = 1 THEN first ELSE d.lines[i]
    BY <2>2, <2>3, LayoutParts
  <2>. HIDE DEF lines
  <2>5. \A i \in 1..Len(lines) : /\ IsBlank(lines[i]) <=> IsBlank(d.lines[i])
                                 /\ lines[i].id = d.lines[i].id
                                 /\ IsHardBreak(lines[i]) <=> IsHardBreak(d.lines[i])
    BY <2>3, <2>4 DEF IsBlank, IsHardBreak
  <2>6. ContentIndexes(d) \subseteq 1..Len(lines) /\ d.newline \in BOOLEAN
    BY <2>4, LayoutParts
  <2>7. QED
    BY <2>1, <2>4, <2>5, <2>6, LinesReplaced
<1>3. QED
  BY <1>1, <1>2

LEMMA PartedLine ==
  ASSUME NEW line \in Lines, ~IsBlank(line)
  PROVE  /\ Parted(line) \in Lines /\ Parted(line).id = line.id
         /\ ~IsBlank(Parted(line))
<1>1. line \in [kind : ContentKinds, id : Nat, lead : Leads, trail : Trails]
  BY DEF Lines, IsBlank
<1>2. QED
  BY <1>1 DEF Parted, Lines, IsBlank, ContentKinds, Trails

LEMMA ClosingQuotesWhitespaceKeeps ==
  ASSUME NEW d \in AllLayouts
  PROVE  ClosingQuotesWhitespace(d) \in AllLayouts /\ KeptIn(d, ClosingQuotesWhitespace(d))
<1>1. CASE ~(ClosesOnContent(d) /\ Last(d.lines).trail # "none")
  BY <1>1, KeptInItself DEF ClosingQuotesWhitespace
<1>2. CASE ClosesOnContent(d) /\ Last(d.lines).trail # "none"
  <2>. DEFINE n == Len(d.lines)
              bare == [d.lines[n] EXCEPT !.trail = "none"]
              lines == [d.lines EXCEPT ![n] = Parted(bare)]
  <2>1. ClosingQuotesWhitespace(d) = [lines |-> lines, newline |-> d.newline]
    BY <1>2, LayoutParts DEF ClosingQuotesWhitespace
  <2>2. d.lines[n] \in Lines /\ n \in 1..n /\ ~IsBlank(d.lines[n])
    BY <1>2, LayoutParts DEF ClosesOnContent
  <2>3. bare \in Lines /\ bare.id = d.lines[n].id /\ bare.kind = d.lines[n].kind
    <3>1. "none" \in Trails
      BY DEF Trails
    <3>2. [d.lines[n] EXCEPT !.trail = "none"] \in Lines
      BY <2>2, <3>1, LineParts
    <3>3. QED
      BY <2>2, <3>2 DEF Lines
  <2>4. /\ Parted(bare) \in Lines /\ Parted(bare).id = d.lines[n].id
        /\ ~IsBlank(Parted(bare))
    BY <2>2, <2>3, PartedLine DEF IsBlank
  <2>. HIDE DEF bare
  <2>5. /\ lines \in Seq(Lines) /\ Len(lines) = n
        /\ \A i \in 1..n : lines[i] = IF i = n THEN Parted(bare) ELSE d.lines[i]
    <3>1. d.lines \in Seq(Lines) /\ n = Len(d.lines)
      BY LayoutParts
    <3>. HIDE DEF n
    <3>2. QED
      BY <2>2, <2>4, <3>1
  <2>. HIDE DEF lines
  <2>6. \A i \in 1..n : /\ IsBlank(lines[i]) <=> IsBlank(d.lines[i])
                        /\ lines[i].id = d.lines[i].id
    BY <2>2, <2>4, <2>5
  <2>7. ContentIndexes(d) \subseteq 1..n /\ d.newline \in BOOLEAN /\ n \in Nat
    BY LayoutParts
  <2>8. \A i, j \in ContentIndexes(d) : i < j => (IsHardBreak(lines[i]) <=> IsHardBreak(d.lines[i]))
    <3>1. SUFFICES ASSUME NEW i \in ContentIndexes(d), NEW j \in ContentIndexes(d), i < j
                   PROVE  IsHardBreak(lines[i]) <=> IsHardBreak(d.lines[i])
      OBVIOUS
    <3>2. i \in 1..n /\ i # n
      BY <2>7, <3>1
    <3>3. QED
      BY <2>5, <3>2
  <2>9. QED
    BY <2>1, <2>5, <2>6, <2>7, <2>8, LinesReplaced
<1>3. QED
  BY <1>1, <1>2

-----------------------------------------------------------------------------
(* The rules that move the first or the last line of the text              *)

LEMMA ShiftedLinesKept ==
  ASSUME NEW d \in AllLayouts, NEW e \in AllLayouts, NEW k \in Int,
         \A i \in ContentIndexes(d) : i + k \in ContentIndexes(e),
         \A m \in ContentIndexes(e) : m - k \in ContentIndexes(d),
         \A i \in ContentIndexes(d) :
            e.lines[i + k].id = d.lines[i].id /\ e.lines[i + k].trail = d.lines[i].trail
  PROVE  KeptIn(d, e)
<1>. DEFINE f == [i \in ContentIndexes(d) |-> i + k]
<1>1. (\A i \in ContentIndexes(d) : i \in Int) /\ (\A m \in ContentIndexes(e) : m \in Int)
  BY LayoutParts
<1>2. f \in [ContentIndexes(d) -> ContentIndexes(e)] /\ \A i \in ContentIndexes(d) : f[i] = i + k
  OBVIOUS
<1>. HIDE DEF f
<1>3. \A i, j \in ContentIndexes(d) : i < j => f[i] < f[j]
  BY <1>1, <1>2
<1>4. \A m \in ContentIndexes(e) : \E i \in ContentIndexes(d) : f[i] = m
  <2>1. SUFFICES ASSUME NEW m \in ContentIndexes(e) PROVE \E i \in ContentIndexes(d) : f[i] = m
    OBVIOUS
  <2>2. m - k \in ContentIndexes(d) /\ (m - k) + k = m
    BY <1>1
  <2>3. QED
    BY <1>2, <2>2
<1>5. \A i \in ContentIndexes(d) :
         e.lines[f[i]].id = d.lines[i].id /\ (IsHardBreak(e.lines[f[i]]) <=> IsHardBreak(d.lines[i]))
  BY <1>2 DEF IsHardBreak
<1>6. QED
  BY <1>2, <1>3, <1>4, <1>5 DEF KeptIn, Corresponds

LEMMA MultilineOpeningQuotesSameLineKeeps ==
  ASSUME NEW d \in AllLayouts
  PROVE  /\ MultilineOpeningQuotesSameLine(d) \in AllLayouts
         /\ KeptIn(d, MultilineOpeningQuotesSameLine(d))
<1>1. CASE ~(IsMultiline(d) /\ ContentIndexes(d) # {} /\ ~OpensOnContent(d))
  BY <1>1, KeptInItself DEF MultilineOpeningQuotesSameLine
<1>2. CASE IsMultiline(d) /\ ContentIndexes(d) # {} /\ ~OpensOnContent(d)
  <2>. DEFINE c == FirstContent(d)
              n == Len(d.lines)
              first == [d.lines[c] EXCEPT !.lead = "none"]
              lines == <<first>> \o SubSeq(d.lines, c + 1, n)
              e == [lines |-> lines, newline |-> d.newline]
  <2>1. MultilineOpeningQuotesSameLine(d) = e
    <3>1. d \in [lines : Seq(Lines), newline : BOOLEAN]
      BY DEF AllLayouts
    <3>2. MultilineOpeningQuotesSameLine(d) = [d EXCEPT !.lines = lines]
      BY <1>2 DEF MultilineOpeningQuotesSameLine
    <3>. HIDE DEF lines
    <3>3. QED
      BY <3>1, <3>2
  <2>2. c \in ContentIndexes(d) /\ \A i \in ContentIndexes(d) : c <= i
    BY <1>2, FirstAndLast
  <2>3. /\ d.lines \in Seq(Lines) /\ n = Len(d.lines) /\ n \in Nat \ {0}
        /\ ContentIndexes(d) \subseteq 1..n /\ d.newline \in BOOLEAN
        /\ \A i \in 1..n : /\ d.lines[i] \in Lines
                           /\ i \in ContentIndexes(d) <=> ~IsBlank(d.lines[i])
    BY LayoutParts
  <2>. HIDE DEF c, n
  <2>4. c \in 1..n /\ d.lines[c] \in Lines
    BY <2>2, <2>3
  <2>5. /\ first \in Lines /\ first.id = d.lines[c].id /\ first.trail = d.lines[c].trail
        /\ first.kind = d.lines[c].kind
    <3>1. "none" \in Leads
      BY DEF Leads
    <3>2. [d.lines[c] EXCEPT !.lead = "none"] \in Lines
      BY <2>4, <3>1, LineParts
    <3>3. QED
      BY <2>4, <3>2 DEF Lines
  <2>. HIDE DEF first
  <2>6. /\ SubSeq(d.lines, c + 1, n) \in Seq(Lines) /\ Len(SubSeq(d.lines, c + 1, n)) = n - c
        /\ \A m \in 1..(n - c) : SubSeq(d.lines, c + 1, n)[m] = d.lines[m + c]
    BY <2>3, <2>4
  <2>7. /\ lines \in Seq(Lines) /\ Len(lines) = n - c + 1
        /\ lines[1] = first
        /\ \A m \in 2..(n - c + 1) : lines[m] = d.lines[m + c - 1]
    <3>. DEFINE rest == SubSeq(d.lines, c + 1, n)
    <3>1. rest \in Seq(Lines) /\ Len(rest) = n - c /\ \A m \in 1..(n - c) : rest[m] = d.lines[m + c]
      BY <2>6
    <3>. HIDE DEF rest
    <3>2. /\ <<first>> \o rest \in Seq(Lines) /\ Len(<<first>> \o rest) = 1 + Len(rest)
          /\ (<<first>> \o rest)[1] = first
          /\ \A m \in 2..(1 + Len(rest)) : (<<first>> \o rest)[m] = rest[m - 1]
      BY <2>5, <3>1
    <3>3. \A m \in 2..(n - c + 1) : m - 1 \in 1..(n - c) /\ (m - 1) + c = m + c - 1
      BY <2>3, <2>4
    <3>4. 1 + Len(rest) = n - c + 1
      BY <2>3, <2>4, <3>1
    <3>5. lines = <<first>> \o rest
      BY DEF rest
    <3>. HIDE DEF lines
    <3>6. QED
      BY <3>1, <3>2, <3>3, <3>4, <3>5
  <2>. HIDE DEF lines
  <2>8. e \in AllLayouts /\ e.lines = lines
    BY <2>3, <2>4, <2>7, LayoutIs
  <2>. HIDE DEF e
  <2>9. \A m \in 1..(n - c + 1) :
           /\ lines[m].id = d.lines[m + c - 1].id /\ lines[m].trail = d.lines[m + c - 1].trail
           /\ lines[m].kind = d.lines[m + c - 1].kind
           /\ m + c - 1 \in 1..n
    <3>1. SUFFICES ASSUME NEW m \in 1..(n - c + 1)
                   PROVE  /\ lines[m].id = d.lines[m + c - 1].id /\ lines[m].trail = d.lines[m + c - 1].trail
                          /\ lines[m].kind = d.lines[m + c - 1].kind
                          /\ m + c - 1 \in 1..n
      OBVIOUS
    <3>2. m + c - 1 \in 1..n /\ (m = 1 => m + c - 1 = c) /\ (m # 1 => m \in 2..(n - c + 1))
      BY <2>3, <2>4
    <3>3. QED
      BY <2>5, <2>7, <3>2
  <2>10. \A m \in 1..(n - c + 1) : m \in ContentIndexes(e) <=> m + c - 1 \in ContentIndexes(d)
    BY <2>3, <2>7, <2>8, <2>9, LayoutParts DEF IsBlank
  <2>11. ContentIndexes(e) \subseteq 1..(n - c + 1)
    BY <2>7, <2>8, LayoutParts
  <2>12. \A i \in ContentIndexes(d) : i + (1 - c) \in 1..(n - c + 1) /\ (i + (1 - c)) + c - 1 = i
    BY <2>2, <2>3, <2>4
  <2>13. \A m \in ContentIndexes(e) : m - (1 - c) = m + c - 1
    BY <2>3, <2>4, <2>11
  <2>14. 1 - c \in Int
    BY <2>4
  <2>15. \A i \in ContentIndexes(d) : i + (1 - c) \in ContentIndexes(e)
    BY <2>10, <2>12
  <2>16. \A m \in ContentIndexes(e) : m - (1 - c) \in ContentIndexes(d)
    BY <2>10, <2>11, <2>13
  <2>17. \A i \in ContentIndexes(d) :
            /\ e.lines[i + (1 - c)].id = d.lines[i].id
            /\ e.lines[i + (1 - c)].trail = d.lines[i].trail
    BY <2>8, <2>9, <2>12
  <2>18. KeptIn(d, e)
    BY <2>8, <2>14, <2>15, <2>16, <2>17, ShiftedLinesKept
  <2>19. QED
    BY <2>1, <2>8, <2>18
<1>3. QED
  BY <1>1, <1>2

LEMMA MultilineOpeningQuotesSeparateLineKeeps ==
  ASSUME setup \in AllSetups, NEW d \in AllLayouts
  PROVE  /\ MultilineOpeningQuotesSeparateLine(d) \in AllLayouts
         /\ KeptIn(d, MultilineOpeningQuotesSeparateLine(d))
<1>1. CASE ~(IsMultiline(d) /\ OpensOnContent(d))
  BY <1>1, KeptInItself DEF MultilineOpeningQuotesSeparateLine
<1>2. CASE IsMultiline(d) /\ OpensOnContent(d)
  <2>. DEFINE n == Len(d.lines)
              first == [Head(d.lines) EXCEPT !.lead = setup.margin]
              blank == BlankLine("none")
              lines == <<blank, first>> \o Tail(d.lines)
              e == [lines |-> lines, newline |-> d.newline]
  <2>1. MultilineOpeningQuotesSeparateLine(d) = e
    <3>1. d \in [lines : Seq(Lines), newline : BOOLEAN]
      BY DEF AllLayouts
    <3>2. MultilineOpeningQuotesSeparateLine(d) = [d EXCEPT !.lines = lines]
      BY <1>2 DEF MultilineOpeningQuotesSeparateLine
    <3>. HIDE DEF lines
    <3>3. QED
      BY <3>1, <3>2
  <2>2. /\ d.lines \in Seq(Lines) /\ n = Len(d.lines) /\ n \in Nat \ {0}
        /\ ContentIndexes(d) \subseteq 1..n /\ d.newline \in BOOLEAN
        /\ d.lines # <<>> /\ Head(d.lines) = d.lines[1]
        /\ \A i \in 1..n : /\ d.lines[i] \in Lines
                           /\ i \in ContentIndexes(d) <=> ~IsBlank(d.lines[i])
    BY LayoutParts
  <2>3. /\ first \in Lines /\ first.id = d.lines[1].id /\ first.trail = d.lines[1].trail
        /\ first.kind = d.lines[1].kind
    <3>1. setup.margin \in Leads /\ d.lines[1] \in Lines
      BY <2>2, SetupParts
    <3>2. [d.lines[1] EXCEPT !.lead = setup.margin] \in Lines
      BY <3>1, LineParts
    <3>3. QED
      BY <2>2, <3>1, <3>2 DEF Lines
  <2>4. blank \in Lines /\ IsBlank(blank)
    BY BlankLineIs DEF Leads
  <2>. HIDE DEF n, first, blank
  <2>5. /\ lines \in Seq(Lines) /\ Len(lines) = n + 1
        /\ lines[1] = blank /\ lines[2] = first
        /\ \A m \in 3..(n + 1) : lines[m] = d.lines[m - 1]
    <3>. DEFINE rest == Tail(d.lines)
    <3>1. rest \in Seq(Lines) /\ Len(rest) = n - 1 /\ \A m \in 1..(n - 1) : rest[m] = d.lines[m + 1]
      BY <2>2
    <3>. HIDE DEF rest
    <3>2. /\ <<blank, first>> \o rest \in Seq(Lines) /\ Len(<<blank, first>> \o rest) = 2 + Len(rest)
          /\ (<<blank, first>> \o rest)[1] = blank /\ (<<blank, first>> \o rest)[2] = first
          /\ \A m \in 3..(2 + Len(rest)) : (<<blank, first>> \o rest)[m] = rest[m - 2]
      BY <2>3, <2>4, <3>1
    <3>3. \A m \in 3..(n + 1) : m - 2 \in 1..(n - 1) /\ (m - 2) + 1 = m - 1
      BY <2>2
    <3>4. 2 + Len(rest) = n + 1
      BY <2>2, <3>1
    <3>5. lines = <<blank, first>> \o rest
      BY DEF rest
    <3>. HIDE DEF lines
    <3>6. QED
      BY <3>1, <3>2, <3>3, <3>4, <3>5
  <2>. HIDE DEF lines
  <2>6. e \in AllLayouts /\ e.lines = lines
    BY <2>2, <2>5, LayoutIs
  <2>. HIDE DEF e
  <2>7. \A i \in 1..n : /\ lines[i + 1].id = d.lines[i].id /\ lines[i + 1].trail = d.lines[i].trail
                        /\ lines[i + 1].kind = d.lines[i].kind
                        /\ i + 1 \in 1..(n + 1)
    <3>1. SUFFICES ASSUME NEW i \in 1..n
                   PROVE  /\ lines[i + 1].id = d.lines[i].id /\ lines[i + 1].trail = d.lines[i].trail
                          /\ lines[i + 1].kind = d.lines[i].kind
                          /\ i + 1 \in 1..(n + 1)
      OBVIOUS
    <3>2. i + 1 \in 1..(n + 1) /\ (i = 1 => i + 1 = 2)
          /\ (i # 1 => i + 1 \in 3..(n + 1) /\ (i + 1) - 1 = i)
      BY <2>2
    <3>3. QED
      BY <2>3, <2>5, <3>2
  <2>8. \A i \in 1..n : i + 1 \in ContentIndexes(e) <=> i \in ContentIndexes(d)
    <3>1. \A m \in 1..(n + 1) : m \in ContentIndexes(e) <=> ~IsBlank(lines[m])
      BY <2>5, <2>6, LayoutParts
    <3>2. \A i \in 1..n : i + 1 \in ContentIndexes(e) <=> ~IsBlank(lines[i + 1])
      BY <2>7, <3>1
    <3>3. QED
      BY <2>2, <2>7, <3>2 DEF IsBlank
  <2>9. ContentIndexes(e) \subseteq 1..(n + 1) /\ 1 \notin ContentIndexes(e)
    <3>1. 1 \in 1..(n + 1)
      BY <2>2
    <3>2. QED
      BY <2>4, <2>5, <2>6, <3>1, LayoutParts
  <2>10. \A m \in ContentIndexes(e) : m - 1 \in 1..n /\ (m - 1) + 1 = m
    BY <2>2, <2>9
  <2>11. \A i \in ContentIndexes(d) : i + 1 \in ContentIndexes(e)
    BY <2>2, <2>8
  <2>12. \A m \in ContentIndexes(e) : m - 1 \in ContentIndexes(d)
    BY <2>8, <2>10
  <2>13. \A i \in ContentIndexes(d) : e.lines[i + 1].id = d.lines[i].id /\ e.lines[i + 1].trail = d.lines[i].trail
    BY <2>2, <2>6, <2>7
  <2>14. KeptIn(d, e)
    BY <2>6, <2>11, <2>12, <2>13, ShiftedLinesKept
  <2>15. QED
    BY <2>1, <2>6, <2>14
<1>3. QED
  BY <1>1, <1>2

LEMMA MultilineClosingQuotesSameLineKeeps ==
  ASSUME NEW d \in AllLayouts
  PROVE  /\ MultilineClosingQuotesSameLine(d) \in AllLayouts
         /\ KeptIn(d, MultilineClosingQuotesSameLine(d))
<1>. DEFINE Applies == /\ IsMultiline(d) /\ ContentIndexes(d) # {} /\ ~ClosesOnContent(d)
                       /\ ~(setup.lastBlank /\ HasFinalBlank(d))
<1>1. CASE ~Applies
  BY <1>1, KeptInItself DEF MultilineClosingQuotesSameLine
<1>2. CASE Applies
  <2>. DEFINE c == LastContent(d)
              n == Len(d.lines)
              last == Parted(d.lines[c])
              lines == Append(SubSeq(d.lines, 1, c - 1), last)
              e == [lines |-> lines, newline |-> FALSE]
  <2>1. MultilineClosingQuotesSameLine(d) = e
    BY <1>2 DEF MultilineClosingQuotesSameLine
  <2>2. c \in ContentIndexes(d) /\ \A i \in ContentIndexes(d) : i <= c
    BY <1>2, FirstAndLast
  <2>3. /\ d.lines \in Seq(Lines) /\ n = Len(d.lines) /\ n \in Nat \ {0}
        /\ ContentIndexes(d) \subseteq 1..n
        /\ \A i \in 1..n : /\ d.lines[i] \in Lines
                           /\ i \in ContentIndexes(d) <=> ~IsBlank(d.lines[i])
    BY LayoutParts
  <2>. HIDE DEF c, n
  <2>4. c \in 1..n /\ d.lines[c] \in Lines /\ ~IsBlank(d.lines[c])
    BY <2>2, <2>3
  <2>5. last \in Lines /\ last.id = d.lines[c].id /\ ~IsBlank(last)
    BY <2>4, PartedLine
  <2>. HIDE DEF last
  <2>6. /\ lines \in Seq(Lines) /\ Len(lines) = c /\ lines[c] = last
        /\ \A m \in 1..(c - 1) : lines[m] = d.lines[m]
    <3>. DEFINE rest == SubSeq(d.lines, 1, c - 1)
    <3>1. rest \in Seq(Lines) /\ Len(rest) = c - 1 /\ \A m \in 1..(c - 1) : rest[m] = d.lines[m]
      BY <2>3, <2>4
    <3>. HIDE DEF rest
    <3>2. /\ Append(rest, last) \in Seq(Lines) /\ Len(Append(rest, last)) = Len(rest) + 1
          /\ Append(rest, last)[Len(rest) + 1] = last
          /\ \A m \in 1..Len(rest) : Append(rest, last)[m] = rest[m]
      BY <2>5, <3>1
    <3>3. Len(rest) + 1 = c
      BY <2>3, <2>4, <3>1
    <3>4. lines = Append(rest, last)
      BY DEF rest
    <3>. HIDE DEF lines
    <3>5. QED
      BY <3>1, <3>2, <3>3, <3>4
  <2>. HIDE DEF lines
  <2>7. e \in AllLayouts /\ e.lines = lines
    BY <2>3, <2>4, <2>6 DEF AllLayouts
  <2>. HIDE DEF e
  <2>8. \A m \in 1..c : m # c => m \in 1..(c - 1)
    BY <2>3, <2>4
  <2>9. \A m \in 1..c : m \in 1..n /\ lines[m].id = d.lines[m].id /\ (IsBlank(lines[m]) <=> IsBlank(d.lines[m]))
    BY <2>3, <2>4, <2>5, <2>6, <2>8
  <2>10. \A m \in 1..c : m \in ContentIndexes(e) <=> m \in ContentIndexes(d)
    <3>1. \A m \in 1..c : m \in ContentIndexes(e) <=> ~IsBlank(lines[m])
      BY <2>6, <2>7, LayoutParts
    <3>2. QED
      BY <2>3, <2>9, <3>1
  <2>11. ContentIndexes(e) \subseteq 1..c /\ ContentIndexes(d) \subseteq 1..c
    <3>1. ContentIndexes(e) \subseteq 1..c
      BY <2>6, <2>7, LayoutParts
    <3>2. QED
      BY <2>2, <2>3, <2>4, <3>1
  <2>12. ContentIndexes(e) = ContentIndexes(d)
    BY <2>10, <2>11
  <2>13. \A i, j \in ContentIndexes(d) :
            i < j => (IsHardBreak(e.lines[i]) <=> IsHardBreak(d.lines[i]))
    <3>1. SUFFICES ASSUME NEW i \in ContentIndexes(d), NEW j \in ContentIndexes(d), i < j
                   PROVE  IsHardBreak(e.lines[i]) <=> IsHardBreak(d.lines[i])
      OBVIOUS
    <3>2. i \in 1..(c - 1)
      BY <2>3, <2>4, <2>11, <3>1
    <3>3. QED
      BY <2>6, <2>7, <3>2
  <2>14. \A i \in ContentIndexes(d) : e.lines[i].id = d.lines[i].id
    BY <2>7, <2>9, <2>11
  <2>15. KeptIn(d, e)
    BY <2>12, <2>13, <2>14, SameLinesKept
  <2>16. QED
    BY <2>1, <2>7, <2>15
<1>3. QED
  BY <1>1, <1>2

LEMMA MultilineClosingQuotesSeparateLineKeeps ==
  ASSUME setup \in AllSetups, NEW d \in AllLayouts
  PROVE  /\ MultilineClosingQuotesSeparateLine(d) \in AllLayouts
         /\ KeptIn(d, MultilineClosingQuotesSeparateLine(d))
<1>1. CASE ~(IsMultiline(d) /\ ClosesOnContent(d))
  BY <1>1, KeptInItself DEF MultilineClosingQuotesSeparateLine
<1>2. CASE IsMultiline(d) /\ ClosesOnContent(d)
  <2>. DEFINE n == Len(d.lines)
              blank == BlankLine(setup.margin)
              lines == Append(d.lines, blank)
              no == FALSE
              e == [lines |-> lines, newline |-> no]
  <2>1. MultilineClosingQuotesSeparateLine(d) = Reparsed(lines, no)
    BY <1>2 DEF MultilineClosingQuotesSeparateLine
  <2>2. /\ d.lines \in Seq(Lines) /\ n = Len(d.lines) /\ n \in Nat \ {0}
        /\ ContentIndexes(d) \subseteq 1..n
        /\ \A i \in 1..n : /\ d.lines[i] \in Lines
                           /\ i \in ContentIndexes(d) <=> ~IsBlank(d.lines[i])
    BY LayoutParts
  <2>3. blank \in Lines /\ IsBlank(blank)
    BY SetupParts, BlankLineIs
  <2>4. no \in BOOLEAN
    OBVIOUS
  <2>. HIDE DEF n, blank, no
  <2>5. /\ lines \in Seq(Lines) /\ Len(lines) = n + 1 /\ lines[n + 1] = blank
        /\ \A m \in 1..n : lines[m] = d.lines[m]
    BY <2>2, <2>3
  <2>. HIDE DEF lines
  <2>6. e \in AllLayouts /\ e.lines = lines
    BY <2>2, <2>4, <2>5, LayoutIs
  <2>7. Reparsed(lines, no) \in AllLayouts /\ KeptIn(e, Reparsed(lines, no))
    <3>1. Len(lines) # 0
      BY <2>2, <2>5
    <3>2. QED
      BY <2>4, <2>5, <3>1, ReparsedKept
  <2>. HIDE DEF e
  <2>8. \A m \in 1..(n + 1) : m \in ContentIndexes(e) <=> ~IsBlank(lines[m])
    BY <2>5, <2>6, LayoutParts
  <2>9. n + 1 \notin ContentIndexes(e)
    <3>1. n + 1 \in 1..(n + 1)
      BY <2>2
    <3>2. QED
      BY <2>3, <2>5, <2>8, <3>1
  <2>10. ContentIndexes(e) \subseteq 1..(n + 1)
    BY <2>5, <2>6, LayoutParts
  <2>11. \A m \in 1..(n + 1) : m # n + 1 => m \in 1..n
    BY <2>2
  <2>12. \A m \in 1..n : m \in 1..(n + 1) /\ (m \in ContentIndexes(e) <=> m \in ContentIndexes(d))
    BY <2>2, <2>5, <2>8
  <2>13. ContentIndexes(e) = ContentIndexes(d)
    BY <2>2, <2>9, <2>10, <2>11, <2>12
  <2>14. \A i \in ContentIndexes(d) : e.lines[i] = d.lines[i]
    BY <2>2, <2>5, <2>6
  <2>15. KeptIn(d, e)
    BY <2>13, <2>14, SameLinesKept
  <2>16. QED
    BY <2>1, <2>7, <2>15, KeptTransitive
<1>3. QED
  BY <1>1, <1>2

LEMMA OneLineDocstringKeeps ==
  ASSUME NEW d \in AllLayouts
  PROVE  OneLineDocstring(d) \in AllLayouts /\ KeptIn(d, OneLineDocstring(d))
<1>1. CASE ~(IsMultiline(d) /\ IsSummaryOnly(d) /\ setup.fits)
  BY <1>1, KeptInItself DEF OneLineDocstring
<1>2. CASE IsMultiline(d) /\ IsSummaryOnly(d) /\ setup.fits
  <2>. DEFINE line == d.lines[FirstContent(d)]
              moved == IF OpensOnContent(d) THEN line ELSE [line EXCEPT !.lead = "none"]
              only == Parted(moved)
              e == [lines |-> <<only>>, newline |-> FALSE]
  <2>1. OneLineDocstring(d) = e
    BY <1>2 DEF OneLineDocstring
  <2>2. PICK c \in 1..Len(d.lines) : ContentIndexes(d) = {c}
    BY <1>2, LayoutParts DEF IsSummaryOnly
  <2>3. FirstContent(d) = c
    BY <2>2, FirstAndLast
  <2>4. line = d.lines[c] /\ line \in Lines /\ ~IsBlank(line)
    BY <2>2, <2>3, LayoutParts
  <2>. HIDE DEF line
  <2>5. moved \in Lines /\ moved.id = line.id /\ ~IsBlank(moved)
    <3>1. "none" \in Leads
      BY DEF Leads
    <3>2. [line EXCEPT !.lead = "none"] \in Lines
      BY <2>4, <3>1, LineParts
    <3>3. [line EXCEPT !.lead = "none"].id = line.id /\ [line EXCEPT !.lead = "none"].kind = line.kind
      BY <2>4 DEF Lines
    <3>4. QED
      BY <2>4, <3>2, <3>3 DEF IsBlank
  <2>. HIDE DEF moved
  <2>6. only \in Lines /\ only.id = line.id /\ ~IsBlank(only)
    BY <2>5, PartedLine
  <2>. HIDE DEF only
  <2>7. e \in AllLayouts /\ e.lines = <<only>>
    BY <2>6 DEF AllLayouts
  <2>. HIDE DEF e
  <2>8. ContentIndexes(e) = {1}
    <3>1. \A i \in 1..1 : i \in ContentIndexes(e) <=> ~IsBlank(only)
      BY <2>7, LayoutParts
    <3>2. ContentIndexes(e) \subseteq 1..1
      BY <2>7, LayoutParts
    <3>3. QED
      BY <2>6, <3>1, <3>2
  <2>. DEFINE f == [i \in {c} |-> 1]
  <2>9. f \in [{c} -> {1}] /\ f[c] = 1
    OBVIOUS
  <2>. HIDE DEF f
  <2>10. ~(c < c)
    OBVIOUS
  <2>11. Corresponds(d, e, f)
    BY <2>2, <2>4, <2>6, <2>7, <2>8, <2>9, <2>10 DEF Corresponds
  <2>12. QED
    BY <2>1, <2>7, <2>11 DEF KeptIn
<1>3. QED
  BY <1>1, <1>2

-----------------------------------------------------------------------------
(* The rules that drop and insert blank lines                              *)

LEMMA RetainedIs ==
  ASSUME NEW d \in AllLayouts
  PROVE  Retained(d) \in SUBSET DOMAIN d.lines /\ ContentIndexes(d) \subseteq Retained(d)
BY LayoutParts DEF Retained

LEMMA TooManyBlankLinesKeeps ==
  ASSUME NEW d \in AllLayouts
  PROVE  TooManyBlankLines(d) \in AllLayouts /\ KeptIn(d, TooManyBlankLines(d))
<1>1. CASE ContentIndexes(d) = {}
  <2>1. TooManyBlankLines(d) = EmptyValue
    BY <1>1 DEF TooManyBlankLines
  <2>2. BlankLine("none") \in Lines /\ IsBlank(BlankLine("none"))
    BY BlankLineIs DEF Leads
  <2>3. EmptyValue \in AllLayouts /\ EmptyValue.lines = <<BlankLine("none")>>
    BY <2>2 DEF EmptyValue, AllLayouts
  <2>4. ContentIndexes(EmptyValue) = {}
    BY <2>2, <2>3 DEF ContentIndexes
  <2>5. KeptIn(d, EmptyValue)
    BY <1>1, <2>4, SameLinesKept
  <2>6. QED
    BY <2>1, <2>3, <2>5
<1>2. CASE ContentIndexes(d) # {}
  <2>. DEFINE P == Retained(d)
              lines == Elements(d.lines, P)
              e == [lines |-> lines, newline |-> d.newline]
  <2>1. TooManyBlankLines(d) = e
    <3>1. d \in [lines : Seq(Lines), newline : BOOLEAN]
      BY DEF AllLayouts
    <3>2. TooManyBlankLines(d) = [d EXCEPT !.lines = lines]
      BY <1>2 DEF TooManyBlankLines
    <3>. HIDE DEF lines
    <3>3. QED
      BY <3>1, <3>2
  <2>2. /\ P \in SUBSET DOMAIN d.lines /\ ContentIndexes(d) \subseteq P
        /\ d.lines \in Seq(Lines) /\ d.newline \in BOOLEAN
        /\ \A i \in P : i \in ContentIndexes(d) <=> ~IsBlank(d.lines[i])
    BY RetainedIs, LayoutParts
  <2>. HIDE DEF P
  <2>3. /\ P \in SUBSET Nat /\ IsFiniteSet(P)
        /\ lines \in Seq(Lines) /\ Len(lines) = Cardinality(P)
        /\ \A i \in P : Place(P, i) \in DOMAIN lines /\ lines[Place(P, i)] = d.lines[i]
        /\ \A k \in DOMAIN lines : \E i \in P : Place(P, i) = k
    BY <2>2, ElementsAre
  <2>. HIDE DEF lines
  <2>4. Len(lines) # 0
    <3>1. PICK i \in P : Place(P, i) \in DOMAIN lines
      BY <1>2, <2>2, <2>3
    <3>2. QED
      BY <2>3, <3>1
  <2>5. e \in AllLayouts /\ e.lines = lines
    BY <2>2, <2>3, <2>4, LayoutIs
  <2>. HIDE DEF e
  <2>6. \A k \in DOMAIN lines : k \in ContentIndexes(e) <=> ~IsBlank(lines[k])
    BY <2>5 DEF ContentIndexes
  <2>7. ContentIndexes(e) \subseteq DOMAIN lines
    BY <2>5 DEF ContentIndexes
  <2>8. \A i \in P : Place(P, i) \in ContentIndexes(e) <=> i \in ContentIndexes(d)
    BY <2>2, <2>3, <2>6
  <2>. DEFINE f == [i \in ContentIndexes(d) |-> Place(P, i)]
  <2>9. f \in [ContentIndexes(d) -> ContentIndexes(e)]
    BY <2>2, <2>8
  <2>10. \A i \in ContentIndexes(d) : f[i] = Place(P, i) /\ i \in P
    BY <2>2
  <2>. HIDE DEF f
  <2>11. \A i, j \in ContentIndexes(d) : i < j => f[i] < f[j]
    <3>1. \A i, j \in P : i < j <=> Place(P, i) < Place(P, j)
      BY <2>3, PlacesCount
    <3>2. QED
      BY <2>10, <3>1
  <2>12. \A k \in ContentIndexes(e) : \E i \in ContentIndexes(d) : f[i] = k
    <3>1. SUFFICES ASSUME NEW k \in ContentIndexes(e) PROVE \E i \in ContentIndexes(d) : f[i] = k
      OBVIOUS
    <3>2. PICK i \in P : Place(P, i) = k
      BY <2>3, <2>7
    <3>3. i \in ContentIndexes(d)
      BY <2>8, <3>2
    <3>4. QED
      BY <2>10, <3>2, <3>3
  <2>13. \A i \in ContentIndexes(d) : e.lines[f[i]] = d.lines[i]
    BY <2>3, <2>5, <2>10
  <2>14. Corresponds(d, e, f)
    BY <2>9, <2>11, <2>12, <2>13 DEF Corresponds
  <2>15. QED
    BY <2>1, <2>5, <2>14 DEF KeptIn
<1>3. QED
  BY <1>1, <1>2

\* The place of a line among what is inserted around it.
Own(d, i) == IF MissesBlankBefore(d, i) THEN 2 ELSE 1

LEMMA Concatenated ==
  ASSUME NEW A, NEW s \in Seq(A), NEW t \in Seq(A)
  PROVE  /\ s \o t \in Seq(A) /\ Len(s \o t) = Len(s) + Len(t)
         /\ \A k \in 1..Len(s) : (s \o t)[k] = s[k]
         /\ \A k \in 1..Len(t) : (s \o t)[Len(s) + k] = t[k]
         /\ \A k \in 1..Len(s \o t) : k > Len(s) => k - Len(s) \in 1..Len(t) /\ (s \o t)[k] = t[k - Len(s)]
<1>1. Len(s) \in Nat /\ Len(t) \in Nat
  OBVIOUS
<1>2. s \o t \in Seq(A) /\ Len(s \o t) = Len(s) + Len(t)
  OBVIOUS
<1>3. \A k \in 1..(Len(s) + Len(t)) : (s \o t)[k] = IF k <= Len(s) THEN s[k] ELSE t[k - Len(s)]
  OBVIOUS
<1>4. \A k \in 1..Len(s) : (s \o t)[k] = s[k]
  BY <1>1, <1>3
<1>5. ASSUME NEW k \in 1..Len(t) PROVE (s \o t)[Len(s) + k] = t[k]
  <2>1. PICK m \in 1..(Len(s) + Len(t)) : m = Len(s) + k
    BY <1>1
  <2>2. ~(m <= Len(s)) /\ m - Len(s) = k
    BY <1>1, <2>1
  <2>3. QED
    BY <1>3, <2>1, <2>2
<1>6. ASSUME NEW k \in 1..(Len(s) + Len(t)), k > Len(s)
      PROVE  k - Len(s) \in 1..Len(t) /\ (s \o t)[k] = t[k - Len(s)]
  <2>1. ~(k <= Len(s)) /\ k - Len(s) \in 1..Len(t)
    BY <1>1, <1>6
  <2>2. QED
    BY <1>3, <2>1
<1>7. QED
  BY <1>2, <1>4, <1>5, <1>6

AllBlank(s) == \A k \in 1..Len(s) : IsBlank(s[k])

LEMMA BlankTogether ==
  ASSUME NEW s \in Seq(Lines), NEW t \in Seq(Lines), AllBlank(s), AllBlank(t)
  PROVE  s \o t \in Seq(Lines) /\ Len(s \o t) = Len(s) + Len(t) /\ AllBlank(s \o t)
<1>1. s \o t \in Seq(Lines) /\ Len(s \o t) = Len(s) + Len(t)
  BY Concatenated
<1>2. \A k \in 1..Len(s \o t) : k > Len(s) => k - Len(s) \in 1..Len(t) /\ (s \o t)[k] = t[k - Len(s)]
  BY Concatenated
<1>3. \A k \in 1..Len(s) : (s \o t)[k] = s[k]
  BY Concatenated
<1>4. \A k \in 1..Len(s \o t) : ~(k > Len(s)) => k \in 1..Len(s)
  OBVIOUS
<1>5. QED
  BY <1>1, <1>2, <1>3, <1>4 DEF AllBlank

LEMMA InsertedIs ==
  ASSUME setup \in AllSetups, NEW d \in AllLayouts, NEW i \in 1..Len(d.lines)
  PROVE  /\ Inserted(d, i) \in Seq(Lines)
         /\ Own(d, i) \in 1..Len(Inserted(d, i))
         /\ Inserted(d, i)[Own(d, i)] = d.lines[i]
         /\ \A k \in 1..Len(Inserted(d, i)) : k # Own(d, i) => IsBlank(Inserted(d, i)[k])
         /\ Len(Inserted(d, i)) = 1 => ~MissesBlankAfter(d, i)
<1>. DEFINE line == d.lines[i]
            before == IF MissesBlankBefore(d, i) THEN <<GeneratedBlank>> ELSE <<>>
            after == IF MissesBlankAfter(d, i) THEN <<GeneratedBlank>> ELSE <<>>
            last == IF MissesBlankAfter(d, i) /\ i = Len(d.lines) /\ ~d.newline
                    THEN <<BlankLine(setup.margin)>> ELSE <<>>
            own == <<line>>
            head == before \o own
            most == head \o after
            all == most \o last
<1>1. line \in Lines /\ own \in Seq(Lines) /\ Len(own) = 1 /\ own[1] = line
  BY LayoutParts
<1>2. /\ GeneratedBlank \in Lines /\ IsBlank(GeneratedBlank)
      /\ BlankLine(setup.margin) \in Lines /\ IsBlank(BlankLine(setup.margin))
  BY SetupParts, BlankLineIs DEF GeneratedBlank
<1>3. before \in Seq(Lines) /\ Len(before) + 1 = Own(d, i) /\ AllBlank(before)
  BY <1>2 DEF AllBlank, Own
<1>4. after \in Seq(Lines) /\ AllBlank(after) /\ (Len(after) = 0 => ~MissesBlankAfter(d, i))
  BY <1>2 DEF AllBlank
<1>5. last \in Seq(Lines) /\ AllBlank(last)
  BY <1>2 DEF AllBlank
<1>6. Inserted(d, i) = all
  BY DEF Inserted
<1>. HIDE DEF line, before, after, last, own
<1>. DEFINE n == Len(before) + 1
<1>7. Len(before) \in Nat /\ Len(after) \in Nat /\ Len(last) \in Nat
  BY <1>3, <1>4, <1>5
<1>8. /\ head \in Seq(Lines) /\ Len(head) = n /\ head[n] = line
      /\ \A k \in 1..n : k # n => IsBlank(head[k])
  <2>0. /\ before \o own \in Seq(Lines) /\ Len(before \o own) = Len(before) + Len(own)
        /\ \A k \in 1..Len(before) : (before \o own)[k] = before[k]
        /\ \A k \in 1..Len(own) : (before \o own)[Len(before) + k] = own[k]
    <3>1. before \in Seq(Lines) /\ own \in Seq(Lines)
      BY <1>1, <1>3
    <3>2. QED
      BY <3>1, Concatenated
  <2>1. head \in Seq(Lines) /\ Len(head) = n
    BY <1>1, <1>3, <2>0
  <2>2. head[n] = line
    <3>1. 1 \in 1..Len(own)
      BY <1>1
    <3>2. head[Len(before) + 1] = own[1]
      BY <2>0, <3>1
    <3>3. QED
      BY <1>1, <3>2
  <2>3. \A k \in 1..Len(before) : head[k] = before[k]
    BY <2>0
  <2>4. \A k \in 1..n : k # n => k \in 1..Len(before)
    BY <1>7
  <2>5. QED
    BY <1>3, <2>1, <2>2, <2>3, <2>4 DEF AllBlank
<1>9. n \in Nat /\ n >= 1
  BY <1>7
<1>10. ASSUME NEW s \in Seq(Lines), NEW t \in Seq(Lines), Len(s) >= n, s[n] = line, AllBlank(t),
              \A k \in 1..Len(s) : k # n => IsBlank(s[k])
       PROVE  /\ s \o t \in Seq(Lines) /\ Len(s \o t) >= n /\ Len(s \o t) = Len(s) + Len(t)
              /\ (s \o t)[n] = line
              /\ \A k \in 1..Len(s \o t) : k # n => IsBlank((s \o t)[k])
  <2>. HIDE DEF n
  <2>1. Len(s) \in Nat /\ Len(t) \in Nat
    OBVIOUS
  <2>2. s \o t \in Seq(Lines) /\ Len(s \o t) = Len(s) + Len(t)
    BY Concatenated
  <2>3. n \in 1..Len(s)
    BY <1>9, <1>10, <2>1
  <2>4. \A k \in 1..Len(s) : (s \o t)[k] = s[k]
    BY Concatenated
  <2>5. \A k \in 1..Len(s \o t) : k > Len(s) => k - Len(s) \in 1..Len(t) /\ (s \o t)[k] = t[k - Len(s)]
    BY Concatenated
  <2>6. \A k \in 1..Len(s \o t) : ~(k > Len(s)) => k \in 1..Len(s)
    BY <2>1, <2>2
  <2>7. QED
    BY <1>9, <1>10, <2>1, <2>2, <2>3, <2>4, <2>5, <2>6 DEF AllBlank
<1>. HIDE DEF n, head
<1>11. /\ most \in Seq(Lines) /\ Len(most) >= n /\ Len(most) = n + Len(after) /\ most[n] = line
       /\ \A k \in 1..Len(most) : k # n => IsBlank(most[k])
  <2>1. Len(head) >= n
    BY <1>8, <1>9
  <2>2. \A k \in 1..Len(head) : k # n => IsBlank(head[k])
    BY <1>8
  <2>3. QED
    BY <1>4, <1>8, <1>10, <2>1, <2>2
<1>. HIDE DEF most
<1>12. /\ all \in Seq(Lines) /\ Len(all) >= n /\ Len(all) = n + Len(after) + Len(last) /\ all[n] = line
       /\ \A k \in 1..Len(all) : k # n => IsBlank(all[k])
  BY <1>5, <1>10, <1>11
<1>. HIDE DEF all
<1>13. Own(d, i) = n /\ n \in 1..Len(all)
  BY <1>3, <1>9, <1>12 DEF n
<1>14. Len(all) = 1 => Len(after) = 0
  <2>. DEFINE a == Len(after)
              b == Len(last)
              l == Len(all)
  <2>1. a \in Nat /\ b \in Nat /\ l = n + a + b /\ n \in Nat /\ n >= 1
    BY <1>7, <1>9, <1>12
  <2>. HIDE DEF a, b, l
  <2>2. l = 1 => a = 0
    BY <2>1
  <2>3. QED
    BY <2>2 DEF a, l
<1>15. QED
  BY <1>4, <1>6, <1>12, <1>13, <1>14 DEF line

LEMMA MissingBlankLineKeeps ==
  ASSUME setup \in AllSetups, NEW d \in AllLayouts
  PROVE  MissingBlankLine(d) \in AllLayouts /\ KeptIn(d, MissingBlankLine(d))
<1>. DEFINE n == Len(d.lines)
            C == ContentIndexes(d)
            s == [i \in DOMAIN d.lines |-> Inserted(d, i)]
<1>1. /\ n \in Nat \ {0} /\ DOMAIN d.lines = 1..n /\ C \subseteq 1..n /\ d.newline \in BOOLEAN
      /\ \A i \in 1..n : i \in C <=> ~IsBlank(d.lines[i])
  BY LayoutParts
<1>2. \A i \in 1..n : /\ s[i] \in Seq(Lines) /\ Own(d, i) \in 1..Len(s[i]) /\ s[i][Own(d, i)] = d.lines[i]
                     /\ \A k \in 1..Len(s[i]) : k # Own(d, i) => IsBlank(s[i][k])
  BY <1>1, InsertedIs
<1>3. s \in Seq(Seq(Lines)) /\ Len(s) = n
  <2>1. s \in [1..n -> Seq(Lines)]
    BY <1>1, <1>2
  <2>. HIDE DEF s
  <2>2. QED
    BY <1>1, <2>1
<1>4. MissingBlankLine(d) = Reparsed(FlattenSeq(s), d.newline)
  BY DEF MissingBlankLine
<1>. HIDE DEF s, C, n
<1>5. PICK f \in [0..n -> Seq(Lines)] :
       /\ f[0] = <<>>
       /\ \A i \in 1..n : f[i] = f[i - 1] \o s[i]
       /\ FlattenSeq(s) = f[n]
  <2>1. \E f \in [0..Len(s) -> Seq(Lines)] :
          /\ f[0] = <<>>
          /\ \A i \in 1..Len(s) : f[i] = f[i - 1] \o s[i]
          /\ FlattenSeq(s) = f[Len(s)]
    BY <1>3, Flattening
  <2>2. QED
    BY <1>3, <2>1
<1>6. \A i \in 1..n : i - 1 \in 0..n /\ i \in 0..n
  BY <1>1
<1>. DEFINE place == [i \in 1..n |-> Len(f[i - 1]) + Own(d, i)]
            Reached(m) ==
              /\ Len(f[m]) >= m
              /\ \A i \in C : i <= m => place[i] \in 1..Len(f[m]) /\ f[m][place[i]] = d.lines[i]
              /\ \A k \in 1..Len(f[m]) : ~IsBlank(f[m][k]) => \E i \in C : i <= m /\ place[i] = k
<1>7. Reached(0)
  <2>1. Len(f[0]) = 0 /\ \A i \in C : ~(i <= 0)
    BY <1>1, <1>5
  <2>. HIDE DEF place
  <2>2. QED
    BY <2>1
<1>8. ASSUME NEW m \in 1..n, Reached(m - 1) PROVE Reached(m)
  <2>. DEFINE p == f[m - 1]
              t == s[m]
              own == Own(d, m)
  <2>1. p \in Seq(Lines) /\ t \in Seq(Lines) /\ f[m] = p \o t
    BY <1>2, <1>5, <1>6
  <2>2. own \in 1..Len(t) /\ t[own] = d.lines[m] /\ \A k \in 1..Len(t) : k # own => IsBlank(t[k])
    BY <1>2
  <2>3. place[m] = Len(p) + own
    OBVIOUS
  <2>4. /\ Len(p) >= m - 1
        /\ \A i \in C : i <= m - 1 => place[i] \in 1..Len(p) /\ p[place[i]] = d.lines[i]
        /\ \A k \in 1..Len(p) : ~IsBlank(p[k]) => \E i \in C : i <= m - 1 /\ place[i] = k
    BY <1>8
  <2>5. m \in Nat /\ \A i \in C : i \in Nat /\ (i <= m => i <= m - 1 \/ i = m) /\ (i <= m - 1 => i <= m)
    BY <1>1
  <2>. HIDE DEF p, t, own, place
  <2>6. /\ Len(p \o t) = Len(p) + Len(t)
        /\ \A k \in 1..Len(p) : (p \o t)[k] = p[k]
        /\ \A k \in 1..Len(t) : (p \o t)[Len(p) + k] = t[k]
        /\ \A k \in 1..Len(p \o t) : k > Len(p) => k - Len(p) \in 1..Len(t) /\ (p \o t)[k] = t[k - Len(p)]
    BY <2>1, Concatenated
  <2>7. Len(p) \in Nat /\ Len(t) \in Nat /\ Len(t) >= 1
    BY <2>1, <2>2
  <2>8. Len(f[m]) >= m
    BY <2>1, <2>4, <2>5, <2>6, <2>7
  <2>9. place[m] \in 1..Len(f[m]) /\ f[m][place[m]] = d.lines[m]
    BY <2>1, <2>2, <2>3, <2>6, <2>7
  <2>10. \A k \in 1..Len(p) : k \in 1..Len(f[m]) /\ f[m][k] = p[k]
    BY <2>1, <2>6, <2>7
  <2>11. ASSUME NEW i \in C, i <= m PROVE place[i] \in 1..Len(f[m]) /\ f[m][place[i]] = d.lines[i]
    <3>1. CASE i = m
      BY <2>9, <3>1
    <3>2. CASE i <= m - 1
      <4>1. place[i] \in 1..Len(p) /\ p[place[i]] = d.lines[i]
        BY <2>4, <3>2
      <4>2. QED
        BY <2>10, <4>1
    <3>3. QED
      BY <2>5, <2>11, <3>1, <3>2
  <2>12. ASSUME NEW k \in 1..Len(f[m]), ~IsBlank(f[m][k]) PROVE \E i \in C : i <= m /\ place[i] = k
    <3>1. CASE k > Len(p)
      <4>1. k - Len(p) \in 1..Len(t) /\ f[m][k] = t[k - Len(p)]
        BY <2>1, <2>6, <3>1
      <4>2. k - Len(p) = own
        BY <2>2, <2>12, <4>1
      <4>3. k = place[m]
        BY <2>2, <2>3, <2>7, <4>2
      <4>4. m \in C
        BY <1>1, <2>9, <2>12, <4>3
      <4>5. m <= m
        BY <2>5
      <4>6. QED
        BY <4>3, <4>4, <4>5
    <3>2. CASE ~(k > Len(p))
      <4>1. k \in 1..Len(p)
        BY <2>7, <3>2
      <4>2. PICK i \in C : i <= m - 1 /\ place[i] = k
        BY <2>4, <2>10, <2>12, <4>1
      <4>3. QED
        BY <2>5, <4>2
    <3>3. QED
      BY <3>1, <3>2
  <2>13. QED
    BY <2>8, <2>11, <2>12
<1>9. \A m \in 0..n : Reached(m)
  <2>. DEFINE T == {m \in 0..n : ~Reached(m)}
  <2>1. SUFFICES ASSUME T # {} PROVE FALSE
    OBVIOUS
  <2>2. PICK m \in T : \A k \in T : m <= k
    <3>1. T \in SUBSET Nat
      BY <1>1
    <3>. HIDE DEF T
    <3>2. QED
      BY <2>1, <3>1, LeastNat
  <2>3. m \in 0..n /\ ~Reached(m)
    OBVIOUS
  <2>. HIDE DEF Reached
  <2>4. m # 0
    BY <1>7, <2>3
  <2>5. m \in 1..n /\ m - 1 \in 0..n /\ ~(m <= m - 1)
    BY <1>1, <2>3, <2>4
  <2>6. Reached(m - 1)
    BY <2>2, <2>5
  <2>7. QED
    BY <1>8, <2>3, <2>5, <2>6
<1>. DEFINE lines == FlattenSeq(s)
            d1 == [lines |-> lines, newline |-> d.newline]
            e == Reparsed(lines, d.newline)
<1>10. n \in 0..n /\ Reached(n)
  <2>1. n \in 0..n
    BY <1>1
  <2>. HIDE DEF Reached
  <2>2. QED
    BY <1>9, <2>1
<1>11. /\ lines \in Seq(Lines) /\ Len(lines) # 0
       /\ \A i \in C : place[i] \in 1..Len(lines) /\ lines[place[i]] = d.lines[i]
       /\ \A k \in 1..Len(lines) : ~IsBlank(lines[k]) => \E i \in C : place[i] = k
  <2>1. lines = f[n] /\ f[n] \in Seq(Lines)
    BY <1>5, <1>10
  <2>2. \A i \in C : i <= n
    BY <1>1
  <2>. HIDE DEF place
  <2>3. QED
    BY <1>1, <1>10, <2>1, <2>2
<1>12. ASSUME NEW i \in C, NEW j \in C, i < j PROVE place[i] < place[j]
  <2>1. i \in 1..n /\ j \in 1..n /\ j - 1 \in 0..n /\ i <= j - 1
    BY <1>1, <1>12
  <2>2. place[i] \in 1..Len(f[j - 1])
    <3>1. Reached(j - 1)
      BY <1>9, <2>1
    <3>. HIDE DEF place
    <3>2. QED
      BY <2>1, <3>1
  <2>3. f[j - 1] \in Seq(Lines) /\ Own(d, j) \in 1..2
    BY <1>5, <2>1 DEF Own
  <2>4. place[j] = Len(f[j - 1]) + Own(d, j)
    BY <2>1
  <2>. HIDE DEF place
  <2>5. QED
    BY <2>2, <2>3, <2>4
<1>. HIDE DEF lines, Reached
<1>13. /\ d1 \in AllLayouts /\ e \in AllLayouts /\ KeptIn(d1, e)
       /\ d1.lines = lines
  BY <1>1, <1>11, ReparsedKept
<1>. DEFINE g == [i \in C |-> place[i]]
<1>14. \A k \in 1..Len(lines) : k \in ContentIndexes(d1) <=> ~IsBlank(lines[k])
  BY <1>13, LayoutParts
<1>15. ContentIndexes(d1) \subseteq 1..Len(lines)
  BY <1>13, LayoutParts
<1>. HIDE DEF place, d1, e
<1>16. /\ g \in [C -> ContentIndexes(d1)]
       /\ \A i \in C : g[i] = place[i]
  BY <1>1, <1>11, <1>14
<1>. HIDE DEF g
<1>17. \A i, j \in C : i < j => g[i] < g[j]
  BY <1>12, <1>16
<1>18. \A k \in ContentIndexes(d1) : \E i \in C : g[i] = k
  BY <1>11, <1>14, <1>15, <1>16
<1>19. \A i \in C : d1.lines[g[i]] = d.lines[i]
  BY <1>11, <1>13, <1>16
<1>20. Corresponds(d, d1, g)
  BY <1>16, <1>17, <1>18, <1>19 DEF Corresponds, C
<1>21. KeptIn(d, e)
  BY <1>13, <1>20, KeptTransitive DEF KeptIn
<1>22. QED
  BY <1>4, <1>13, <1>21 DEF e, lines

-----------------------------------------------------------------------------
(* Every rule, and every step                                              *)

LEMMA FixedKeeps ==
  ASSUME setup \in AllSetups, NEW d \in AllLayouts, NEW r \in Rules
  PROVE  Fixed(r, d) \in AllLayouts /\ KeptIn(d, Fixed(r, d))
<1>1. CASE r = 102
  BY <1>1, DocstringTrailingWhitespaceKeeps DEF Fixed
<1>2. CASE r = 103
  BY <1>2, DocstringBlankLineWhitespaceKeeps DEF Fixed
<1>3. CASE r = 104
  BY <1>3, OpeningQuotesWhitespaceKeeps DEF Fixed
<1>4. CASE r = 105
  BY <1>4, ClosingQuotesWhitespaceKeeps DEF Fixed
<1>5. CASE r = 106
  BY <1>5, MultilineOpeningQuotesSameLineKeeps DEF Fixed
<1>6. CASE r = 107
  BY <1>6, MultilineOpeningQuotesSeparateLineKeeps DEF Fixed
<1>7. CASE r = 108
  BY <1>7, MultilineClosingQuotesSameLineKeeps DEF Fixed
<1>8. CASE r = 109
  BY <1>8, MultilineClosingQuotesSeparateLineKeeps DEF Fixed
<1>9. CASE r = 110
  BY <1>9, OneLineDocstringKeeps DEF Fixed
<1>10. CASE r = 200
  BY <1>10, TooManyBlankLinesKeeps DEF Fixed
<1>11. CASE r = 201
  BY <1>11, MissingBlankLineKeeps DEF Fixed
<1>12. QED
  BY <1>1, <1>2, <1>3, <1>4, <1>5, <1>6, <1>7, <1>8, <1>9, <1>10, <1>11 DEF Rules

\* A sequence of non-empty sequences that is as long as they are together is
\* one of single elements.
LEMMA SinglesOnly ==
  ASSUME NEW A, NEW s \in Seq(Seq(A)), \A i \in 1..Len(s) : Len(s[i]) >= 1,
         Len(FlattenSeq(s)) = Len(s)
  PROVE  \A i \in 1..Len(s) : Len(s[i]) = 1
<1>. DEFINE n == Len(s)
<1>1. /\ n \in Nat /\ Len(FlattenSeq(s)) = n
      /\ \A i \in 1..n : s[i] \in Seq(A) /\ Len(s[i]) \in Nat /\ Len(s[i]) >= 1
  OBVIOUS
<1>2. PICK f \in [0..n -> Seq(A)] :
       /\ f[0] = <<>>
       /\ \A i \in 1..n : f[i] = f[i - 1] \o s[i]
       /\ FlattenSeq(s) = f[n]
  BY Flattening
<1>. HIDE DEF n
<1>3. \A i \in 1..n : i - 1 \in 0..n /\ i \in 0..n
  BY <1>1
<1>4. \A i \in 1..n : Len(f[i]) = Len(f[i - 1]) + Len(s[i])
  <2>1. SUFFICES ASSUME NEW i \in 1..n PROVE Len(f[i]) = Len(f[i - 1]) + Len(s[i])
    OBVIOUS
  <2>2. f[i - 1] \in Seq(A) /\ s[i] \in Seq(A) /\ f[i] = f[i - 1] \o s[i]
    BY <1>1, <1>2, <1>3
  <2>3. QED
    BY <2>2, Concatenated
<1>. DEFINE size == [m \in 0..n |-> Len(f[m])]
            part == [i \in 1..n |-> Len(s[i])]
            Longer(m) == /\ size[m] >= m
                         /\ \A i \in 1..n : i <= m /\ part[i] # 1 => size[m] > m
<1>5. /\ \A m \in 0..n : size[m] \in Nat
      /\ \A i \in 1..n : part[i] \in Nat /\ part[i] >= 1 /\ size[i] = size[i - 1] + part[i]
      /\ size[0] = 0
  <2>1. \A m \in 0..n : size[m] = Len(f[m]) /\ Len(f[m]) \in Nat
    BY <1>2
  <2>2. \A i \in 1..n : part[i] = Len(s[i])
    OBVIOUS
  <2>3. size[0] = 0
    <3>1. 0 \in 0..n /\ Len(f[0]) = 0
      BY <1>1, <1>2
    <3>2. QED
      BY <2>1, <3>1
  <2>. HIDE DEF size, part
  <2>4. \A i \in 1..n : part[i] \in Nat /\ part[i] >= 1
    BY <1>1, <2>2
  <2>5. ASSUME NEW i \in 1..n PROVE size[i] = size[i - 1] + part[i]
    <3>1. size[i] = Len(f[i]) /\ size[i - 1] = Len(f[i - 1]) /\ part[i] = Len(s[i])
      BY <1>3, <2>1, <2>2
    <3>2. Len(f[i]) = Len(f[i - 1]) + Len(s[i])
      BY <1>4
    <3>3. QED
      BY <3>1, <3>2
  <2>6. QED
    BY <2>1, <2>3, <2>4, <2>5
<1>6. size[n] = n
  <2>1. n \in 0..n
    BY <1>1
  <2>2. size[n] = Len(f[n])
    BY <2>1
  <2>. HIDE DEF size
  <2>3. Len(f[n]) = Len(FlattenSeq(s))
    BY <1>2, Zenon
  <2>4. QED
    BY <1>1, <2>2, <2>3, Zenon
<1>. HIDE DEF size
<1>7. \A m \in 0..n : Longer(m)
  <2>. DEFINE T == {m \in 0..n : ~Longer(m)}
  <2>1. SUFFICES ASSUME T # {} PROVE FALSE
    OBVIOUS
  <2>2. PICK m \in T : \A k \in T : m <= k
    <3>1. T \in SUBSET Nat
      BY <1>1
    <3>. HIDE DEF T
    <3>2. QED
      BY <2>1, <3>1, LeastNat
  <2>3. m \in 0..n /\ ~Longer(m)
    OBVIOUS
  <2>. HIDE DEF part
  <2>4. Longer(0)
    BY <1>1, <1>5
  <2>5. m # 0
    <3>. HIDE DEF Longer
    <3>1. QED
      BY <2>3, <2>4
  <2>6. m \in 1..n /\ m - 1 \in 0..n /\ ~(m <= m - 1)
    BY <1>1, <2>3, <2>5
  <2>7. Longer(m - 1)
    <3>. HIDE DEF Longer
    <3>1. QED
      BY <2>2, <2>6
  <2>8. /\ size[m - 1] \in Nat /\ part[m] \in Nat /\ part[m] >= 1
        /\ size[m] = size[m - 1] + part[m] /\ size[m - 1] >= m - 1
    <3>1. size[m - 1] >= m - 1
      BY <2>7
    <3>2. size[m - 1] \in Nat /\ part[m] \in Nat /\ part[m] >= 1 /\ size[m] = size[m - 1] + part[m]
      <4>. HIDE DEF part
      <4>1. QED
        BY <1>5, <2>6
    <3>3. QED
      BY <3>1, <3>2
  <2>9. size[m] >= m /\ (part[m] # 1 => size[m] > m)
    BY <1>1, <2>6, <2>8
  <2>10. ASSUME NEW i \in 1..n, i <= m, part[i] # 1 PROVE size[m] > m
    <3>1. CASE i = m
      BY <2>9, <2>10, <3>1
    <3>2. CASE i # m
      <4>1. i <= m - 1
        BY <1>1, <2>6, <2>10, <3>2
      <4>2. size[m - 1] > m - 1
        BY <2>7, <2>10, <4>1
      <4>3. QED
        BY <1>1, <2>6, <2>8, <4>2
    <3>3. QED
      BY <3>1, <3>2
  <2>11. QED
    BY <2>3, <2>9, <2>10
<1>8. \A i \in 1..n : part[i] = 1
  <2>1. n \in 0..n /\ ~(n > n) /\ \A i \in 1..n : i <= n
    BY <1>1
  <2>2. Longer(n)
    <3>. HIDE DEF Longer
    <3>1. QED
      BY <1>7, <2>1
  <2>. HIDE DEF part
  <2>3. QED
    BY <1>6, <2>1, <2>2
<1>9. QED
  BY <1>8 DEF n

\* Where neither PDF200 nor PDF201 finds anything, one blank line follows the
\* last section.
LEMMA SpacedWhereSettled ==
  ASSUME setup \in AllSetups, NEW d \in AllLayouts, setup.lastBlank, EndsWithSection(d),
         TooManyBlankLines(d) = d, MissingBlankLine(d) = d
  PROVE  Len(d.lines) - LastContent(d) = IF d.newline THEN 1 ELSE 2
<1>. DEFINE n == Len(d.lines)
            c == LastContent(d)
            s == [i \in DOMAIN d.lines |-> Inserted(d, i)]
            P == Retained(d)
<1>1. /\ n \in Nat \ {0} /\ DOMAIN d.lines = 1..n /\ ContentIndexes(d) \subseteq 1..n
      /\ d.lines \in Seq(Lines) /\ d.newline \in BOOLEAN
      /\ ContentIndexes(d) # {}
  BY LayoutParts DEF EndsWithSection
<1>2. c \in 1..n /\ c \in ContentIndexes(d) /\ \A i \in ContentIndexes(d) : i <= c
  BY <1>1, FirstAndLast
<1>3. \A i \in 1..n : s[i] \in Seq(Lines) /\ Len(s[i]) >= 1 /\ (Len(s[i]) = 1 => ~MissesBlankAfter(d, i))
  <2>1. SUFFICES ASSUME NEW i \in 1..n
                 PROVE  s[i] \in Seq(Lines) /\ Len(s[i]) >= 1 /\ (Len(s[i]) = 1 => ~MissesBlankAfter(d, i))
    OBVIOUS
  <2>2. s[i] = Inserted(d, i)
    BY <1>1
  <2>3. Own(d, i) \in 1..Len(Inserted(d, i)) /\ Inserted(d, i) \in Seq(Lines)
        /\ (Len(Inserted(d, i)) = 1 => ~MissesBlankAfter(d, i))
    BY InsertedIs
  <2>. HIDE DEF s
  <2>4. Len(s[i]) \in Nat /\ Own(d, i) \in 1..Len(s[i])
    BY <2>2, <2>3
  <2>5. QED
    BY <2>2, <2>3, <2>4
<1>4. s \in Seq(Seq(Lines)) /\ Len(s) = n
  <2>1. s \in [1..n -> Seq(Lines)]
    BY <1>1, <1>3
  <2>. HIDE DEF s
  <2>2. QED
    BY <1>1, <2>1
<1>5. Reparsed(FlattenSeq(s), d.newline) = d
  BY DEF MissingBlankLine
<1>. HIDE DEF s
<1>6. FlattenSeq(s) = d.lines
  <2>1. \A lines, newline : newline \in BOOLEAN /\ Reparsed(lines, newline) = d /\ d.newline = newline => d.lines = lines
    BY DEF Reparsed
  <2>2. QED
    BY <1>1, <1>5, <2>1
<1>7. \A i \in 1..n : Len(s[i]) = 1
  BY <1>1, <1>3, <1>4, <1>6, SinglesOnly
<1>8. ~MissesBlankAfter(d, c)
  BY <1>2, <1>3, <1>7
<1>9. HasFinalBlank(d)
  BY <1>8 DEF MissesBlankAfter
<1>10. c < n /\ ~IsClosingPrefix(d, c + 1)
  BY <1>9 DEF HasFinalBlank
<1>11. d # EmptyValue
  <2>1. d.lines[c] \in Lines /\ ~IsBlank(d.lines[c])
    BY <1>2, LayoutParts
  <2>2. CASE d = EmptyValue
    <3>1. d.lines = <<BlankLine("none")>>
      BY <2>2 DEF EmptyValue
    <3>2. c = 1
      BY <1>2, <3>1
    <3>3. IsBlank(d.lines[c])
      BY <3>1, <3>2 DEF IsBlank, BlankLine
    <3>4. QED
      BY <2>1, <3>3
  <2>3. QED
    BY <2>2
<1>12. P = 1..n
  <2>1. P \in SUBSET DOMAIN d.lines
    BY RetainedIs
  <2>2. Elements(d.lines, P) = d.lines
    <3>1. d \in [lines : Seq(Lines), newline : BOOLEAN]
      BY DEF AllLayouts
    <3>2. TooManyBlankLines(d) = [d EXCEPT !.lines = Elements(d.lines, P)]
      BY <1>1 DEF TooManyBlankLines
    <3>. HIDE DEF P
    <3>3. QED
      BY <3>1, <3>2
  <2>. HIDE DEF P
  <2>3. Cardinality(P) = n
    <3>1. Len(Elements(d.lines, P)) = Cardinality(P)
      BY <1>1, <2>1, ElementsAre
    <3>2. QED
      BY <2>2, <3>1
  <2>4. IsFiniteSet(1..n) /\ Cardinality(1..n) = n
    BY <1>1, FS_Interval
  <2>5. QED
    BY <1>1, <2>1, <2>3, <2>4, FS_Subset
<1>13. \A i \in 1..n : i > c => i = c + 1 \/ IsClosingPrefix(d, i)
  <2>1. SUFFICES ASSUME NEW i \in 1..n, i > c PROVE i = c + 1 \/ IsClosingPrefix(d, i)
    OBVIOUS
  <2>2. i \notin ContentIndexes(d) /\ \A j \in ContentIndexes(d) : ~(j > i)
    BY <1>1, <1>2, <2>1
  <2>3. ~IsSeparator(d, i)
    BY <2>2 DEF IsSeparator
  <2>4. ~IsOpeningSuffix(d, i)
    BY <1>2, <2>1 DEF IsOpeningSuffix
  <2>5. i \in Retained(d)
    BY <1>12
  <2>6. QED
    BY <2>2, <2>3, <2>4, <2>5 DEF Retained
<1>14. CASE d.newline
  <2>1. ~IsClosingPrefix(d, n)
    BY <1>14 DEF IsClosingPrefix
  <2>2. n \in 1..n
    BY <1>1
  <2>3. n = c + 1
    BY <1>1, <1>2, <1>10, <1>13, <2>1, <2>2
  <2>4. QED
    BY <1>1, <1>2, <1>14, <2>3
<1>15. CASE ~d.newline
  <2>1. c + 1 # n
    BY <1>10, <1>11, <1>15 DEF IsClosingPrefix
  <2>2. c + 2 \in 1..n
    BY <1>1, <1>2, <1>10, <2>1
  <2>3. c + 2 > c /\ c + 2 # c + 1
    BY <1>2
  <2>4. IsClosingPrefix(d, c + 2)
    BY <1>13, <2>2, <2>3
  <2>5. c + 2 = n
    BY <2>4 DEF IsClosingPrefix
  <2>6. QED
    BY <1>1, <1>2, <1>15, <2>5
<1>16. QED
  BY <1>14, <1>15

\* The text of the docstring the run started with is there, and a run that has
\* settled left one blank line after the last section.
LayoutIInv ==
    /\ setup \in AllSetups
    /\ original \in AllLayouts /\ layout \in AllLayouts
    /\ KeptIn(original, layout)
    /\ LastSectionSpaced

LEMMA LayoutInitIInv == ASSUME LayoutInit PROVE LayoutIInv
BY DocstringLayoutAssumption, KeptInItself DEF LayoutInit, LayoutIInv, LastSectionSpaced

LEMMA LayoutStepKeeps ==
  ASSUME LayoutIInv, [LayoutNext]_layoutVars
  PROVE  LayoutIInv'
<1>1. CASE ApplyRule
  <2>1. /\ FindingRules # {} /\ FindingRules \in SUBSET Nat
        /\ rule' = Min(FindingRules) /\ layout' = Fixed(rule', layout)
        /\ UNCHANGED <<setup, original, stop>> /\ stop = "none"
    BY <1>1 DEF ApplyRule, FindingRules, LayoutIInv, AllSetups, Rules
  <2>2. rule' \in FindingRules
    <3>1. PICK r \in FindingRules : \A k \in FindingRules : r <= k
      BY <2>1, LeastNat
    <3>2. QED
      BY <2>1, <3>1, Zenon DEF Min
  <2>3. rule' \in Rules
    BY <2>2 DEF FindingRules, LayoutIInv, AllSetups
  <2>4. layout' \in AllLayouts /\ KeptIn(layout, layout')
    BY <2>1, <2>3, FixedKeeps DEF LayoutIInv
  <2>5. KeptIn(original, layout')
    BY <2>4, KeptTransitive DEF LayoutIInv
  <2>6. QED
    BY <2>1, <2>4, <2>5 DEF LayoutIInv, LastSectionSpaced
<1>2. CASE EndPass
  <2>1. /\ UNCHANGED <<setup, original, layout>> /\ FindingRules = {}
        /\ stop' = "settled" => rule = 0
    BY <1>2 DEF EndPass
  <2>2. ASSUME stop' = "settled", {200, 201} \subseteq setup.selected,
               setup.lastBlank, EndsWithSection(layout)
        PROVE  Len(layout.lines) - LastContent(layout) = IF layout.newline THEN 1 ELSE 2
    <3>1. 200 > rule /\ 201 > rule
      BY <2>1, <2>2
    <3>2. Fixed(200, layout) = layout /\ Fixed(201, layout) = layout
      BY <2>1, <2>2, <3>1 DEF FindingRules
    <3>3. Fixed(200, layout) = TooManyBlankLines(layout) /\ Fixed(201, layout) = MissingBlankLine(layout)
      BY DEF Fixed
    <3>4. QED
      BY <2>2, <3>2, <3>3, SpacedWhereSettled DEF LayoutIInv
  <2>3. QED
    BY <2>1, <2>2 DEF LayoutIInv, LastSectionSpaced
<1>3. CASE UNCHANGED layoutVars
  BY <1>3 DEF layoutVars, LayoutIInv, LastSectionSpaced
<1>4. QED
  BY <1>1, <1>2, <1>3 DEF LayoutNext

LEMMA LayoutInvariant == LayoutSpec => []LayoutIInv
BY LayoutInitIInv, LayoutStepKeeps, PTL DEF LayoutSpec

\* No layout rule loses, repeats or reorders text, or adds or takes a hard
\* break inside it, whatever the docstring, the rules and the settings.
THEOREM TextIsKept == LayoutSpec => []ContentKept
<1>1. ASSUME LayoutIInv PROVE ContentKept
  <2>. DEFINE P == ContentIndexes(original)
              Q == ContentIndexes(layout)
              was == Content(original)
              is == Content(layout)
  <2>1. PICK f : Corresponds(original, layout, f)
    BY <1>1 DEF LayoutIInv, KeptIn
  <2>2. /\ P \in SUBSET Nat /\ IsFiniteSet(P) /\ Q \in SUBSET Nat /\ IsFiniteSet(Q)
        /\ P \in SUBSET DOMAIN original.lines /\ Q \in SUBSET DOMAIN layout.lines
        /\ original.lines \in Seq(Lines) /\ layout.lines \in Seq(Lines)
    BY <1>1, LayoutParts DEF LayoutIInv
  <2>3. /\ f \in [P -> Q]
        /\ \A i, j \in P : i < j => f[i] < f[j]
        /\ \A q \in Q : \E i \in P : f[i] = q
        /\ \A i \in P : layout.lines[f[i]].id = original.lines[i].id
        /\ \A i, j \in P :
             i < j => (IsHardBreak(layout.lines[f[i]]) <=> IsHardBreak(original.lines[i]))
    BY <2>1 DEF Corresponds
  <2>. HIDE DEF P, Q
  <2>4. /\ Cardinality(P) = Cardinality(Q)
        /\ \A k \in 1..Cardinality(P) : Nth(Q, k) = f[Nth(P, k)]
    BY <2>2, <2>3, SamePlaces
  <2>5. /\ Len(was) = Cardinality(P) /\ Len(is) = Cardinality(Q)
        /\ Cardinality(P) \in Nat /\ DOMAIN is = 1..Cardinality(P)
    <3>1. /\ Elements(original.lines, P) \in Seq(Lines) /\ Len(Elements(original.lines, P)) = Cardinality(P)
          /\ Elements(layout.lines, Q) \in Seq(Lines) /\ Len(Elements(layout.lines, Q)) = Cardinality(Q)
      BY <2>2, ElementsAre
    <3>2. was = Elements(original.lines, P) /\ is = Elements(layout.lines, Q)
      BY DEF Content, P, Q
    <3>3. Cardinality(P) \in Nat
      BY <2>2, FS_CardinalityType
    <3>. HIDE DEF was, is
    <3>4. QED
      BY <2>4, <3>1, <3>2, <3>3
  <2>6. \A k \in 1..Cardinality(P) :
           was[k] = original.lines[Nth(P, k)] /\ is[k] = layout.lines[Nth(Q, k)]
    BY <2>4 DEF Content, Elements, P, Q
  <2>. HIDE DEF was, is
  <2>7. ASSUME NEW k \in 1..Cardinality(P)
        PROVE  /\ is[k].id = was[k].id
               /\ k < Len(is) => (IsHardBreak(is[k]) <=> IsHardBreak(was[k]))
    <3>1. PICK i \in P : i = Nth(P, k) /\ Place(P, i) = k
      BY <2>2, NthIs
    <3>2. was[k] = original.lines[i] /\ is[k] = layout.lines[f[i]]
      BY <2>4, <2>6, <3>1
    <3>3. is[k].id = was[k].id
      BY <2>3, <3>2
    <3>4. ASSUME k < Len(is) PROVE IsHardBreak(is[k]) <=> IsHardBreak(was[k])
      <4>1. k + 1 \in 1..Cardinality(P) /\ k < k + 1
        BY <2>4, <2>5, <3>4
      <4>2. PICK j \in P : Place(P, j) = k + 1
        BY <2>2, <4>1, PlacesCount
      <4>3. i < j
        <5>1. \A a, b \in P : a < b <=> Place(P, a) < Place(P, b)
          BY <2>2, PlacesCount
        <5>2. QED
          BY <3>1, <4>1, <4>2, <5>1
      <4>4. QED
        BY <2>3, <3>2, <4>3
    <3>5. QED
      BY <3>3, <3>4
  <2>8. ContentKept
    BY <2>4, <2>5, <2>7 DEF ContentKept, was, is
  <2>9. QED
    BY <2>8
<1>2. QED
  BY <1>1, LayoutInvariant, PTL

\* Where both rules about blank lines are selected and the run settles, one
\* blank line follows the last section, for any docstring and settings.
THEOREM OneBlankLineAfterSections == LayoutSpec => []LastSectionSpaced
<1>1. LayoutIInv => LastSectionSpaced
  BY DEF LayoutIInv
<1>2. QED
  BY <1>1, LayoutInvariant, PTL
=============================================================================
