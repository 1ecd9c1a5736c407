------------------------------ MODULE Directives ------------------------------
(***************************************************************************)
(* rules/definition_helpers/directives.py: bracketed directive comments    *)
(* such as "# pydocfmt: ignore[PDF101, docstring-reflow]", and the three   *)
(* rules that rewrite their lists: PCF100 normalizes a list, PCF102 and    *)
(* PCF103 replace exact codes by names and exact names by codes.           *)
(*                                                                         *)
(* A list is a sequence of segments.  A segment is a token, classified as  *)
(* _classify_token classifies its text, or blank.  Whether a token is      *)
(* spelled in the canonical case is kept; spacing is not.                  *)
(***************************************************************************)
EXTENDS Subsequences

CONSTANTS
    Rules,        \* registered rule codes, each with one name
    Broad,        \* broad selectors
    AllTag,       \* the broad selector ALL
    CodesOf,      \* rules each broad selector matches
    UnsafeTexts   \* invalid tokens a list cannot be rendered with

ASSUME DirectivesAssumption ==
    /\ CodesOf \in [Broad -> (SUBSET Rules) \ {{}}]
    /\ AllTag \in Broad /\ CodesOf[AllTag] = Rules

\* Token classes; a Ruff token is known by its shape only.
ExactKinds == {"exact-code", "exact-name"}
LocalKinds == ExactKinds \cup {"broad-code"}
RuffKinds  == {"ruff-code", "ruff-broad", "ruff-name", "foreign"}

Token(kind, of) == [kind |-> kind, of |-> of, canonical |-> TRUE]
Miscased(token) == [token EXCEPT !.canonical = FALSE]
Blank == Token("blank", "")

\* Invalid text and Ruff's tokens keep the spelling they have.
NormalizedToken(token) ==
    [token EXCEPT !.canonical = @ \/ token.kind \notin RuffKinds \cup {"invalid"}]

IdentityOfText(token) ==
    IF token.kind \in ExactKinds THEN <<token.kind, token.of, TRUE>>
    ELSE <<token.kind, token.of, token.canonical>>

\* What makes two tokens the same entry: the code and the name of a rule are.
Identity(token) ==
    CASE token.kind \in ExactKinds -> <<"rule", token.of, TRUE>>
      [] token.kind \in {"broad-code", "unknown"} -> <<token.kind, token.of, TRUE>>
      [] OTHER -> <<token.kind, token.of, token.canonical>>

Tokens(list) == {i \in DOMAIN list : list[i].kind # "blank"}

FirstOfIdentity(list, i) ==
    \A j \in Tokens(list) : Identity(list[j]) = Identity(list[i]) => i <= j

\* Ruff's enable and disable mean something by their order and number.
Survives(directive, i) ==
    \/ FirstOfIdentity(directive.list, i)
    \/ directive.tool = "ruff" /\ directive.action \in {"disable", "enable"}

Retained(directive) ==
    Elements(directive.list, {i \in Tokens(directive.list) : Survives(directive, i)})

\* Whether the list can be rendered as tokens separated by commas: only the
\* last of several segments may be blank, and no token has stray characters.
SafeList(list) ==
    /\ \A i \in 1..(Len(list) - 1) : list[i].kind # "blank"
    /\ \A i \in Tokens(list) : list[i].of \notin UnsafeTexts

OrBlank(list) == IF list = <<>> THEN <<Blank>> ELSE list

-----------------------------------------------------------------------------
(* The rules that rewrite directives                                       *)

IsSuppression(directive) ==
    directive.tool = "pydocfmt" /\ directive.action \in {"ignore", "file-ignore"}

\* PCF100
NormalizedList(directive) ==
    LET retained == Retained(directive)
    IN  IF SafeList(directive.list)
        THEN OrBlank([k \in DOMAIN retained |-> NormalizedToken(retained[k])])
        ELSE directive.list

Normalize(directive) ==
    IF directive.tool = "pydocfmt" /\ ~IsSuppression(directive)
    THEN directive
    ELSE [directive EXCEPT !.list = NormalizedList(directive)]

\* PCF102 (policy "exact-name") and PCF103 (policy "exact-code").
Offending(policy) == CHOOSE kind \in ExactKinds : kind # policy

Offenders(directive, policy) ==
    {i \in Tokens(directive.list) : directive.list[i].kind = Offending(policy)}

Touched(directive, policy) ==
    {Identity(directive.list[i]) : i \in Offenders(directive, policy)}

\* Of the entries that are touched one token stays, of the others all do.
KeptByPolicy(directive, policy) ==
    {i \in DOMAIN directive.list :
       \/ i \notin Tokens(directive.list)
       \/ Identity(directive.list[i]) \notin Touched(directive, policy)
       \/ FirstOfIdentity(directive.list, i)}

Respelled(token, policy) ==
    IF token.kind = Offending(policy) THEN Token(policy, token.of) ELSE token

\* targeted_selectors
TargetedList(directive, policy) ==
    LET kept == Elements(directive.list, KeptByPolicy(directive, policy))
    IN  [k \in DOMAIN kept |-> Respelled(kept[k], policy)]

PolicyFixes(directive, policy) ==
    IsSuppression(directive) /\ Offenders(directive, policy) # {}

\* Ruff's directives are reported and left alone.
PolicyReports(directive, policy) ==
    /\ directive.tool = "ruff"
    /\ \E i \in Tokens(directive.list) :
          directive.list[i].kind = IF policy = "exact-name" THEN "ruff-code" ELSE "ruff-name"

Represent(directive, policy) ==
    IF PolicyFixes(directive, policy)
    THEN [directive EXCEPT !.list = TargetedList(directive, policy)]
    ELSE directive
=============================================================================
