---------------------------- MODULE RuleSelection ----------------------------
(***************************************************************************)
(* rules/codes.py, rules/collection.py, rules_selection.py: the rules of a *)
(* collection, and which of them a settings profile selects, which it lets *)
(* fix, and what it says of selectors it cannot use.                       *)
(*                                                                         *)
(* A code is a prefix and digits, <<"PDF", 1, 0, 1>>; a tag is one of its  *)
(* beginnings, or <<>> for ALL.  A selector of the settings is             *)
(*   [form |-> "tag", tag], [form |-> "name", name] or [form |-> "junk"].  *)
(***************************************************************************)
EXTENDS Globs

CONSTANT CategoryOrder    \* category prefixes, in order

PrefixLength == 3
Contexts == {"module", "fragment"}

-----------------------------------------------------------------------------
(* Codes and the collection                                                *)

\* RuleSelector.is_valid_tag and RuleCode.is_valid_tag: a prefix, with digits.
IsTag(tag) ==
    /\ Len(tag) \in Nat /\ tag = [i \in 1..Len(tag) |-> tag[i]]
    /\ \A i \in 2..Len(tag) : tag[i] \in 0..9
IsCode(tag) == IsTag(tag) /\ Len(tag) > 1

SelectsCode(tag, code) == IsPrefix(tag, code)

\* len(selector.tag), or 0 for ALL
Specificity(tag) == IF tag = <<>> THEN 0 ELSE PrefixLength + Len(tag) - 1

CodeBefore(c, d) ==
    LET place(code) == CHOOSE i \in DOMAIN CategoryOrder : CategoryOrder[i] = code[1]
    IN  \/ place(c) < place(d)
        \/ c[1] = d[1] /\ c # d
           /\ \/ IsPrefix(c, d)
              \/ \E i \in 2..Len(c) : i <= Len(d) /\ SubSeq(c, 1, i - 1) = SubSeq(d, 1, i - 1)
                                      /\ c[i] < d[i]

\* register_rule_to, RuleCollection.__init__ and RuleMetadata: what a
\* collection refuses at import; a category is [prefix, rules].
RulesOf(categories) == UNION {c.rules : c \in categories}

SoundMetadata(rule) ==
    /\ IsCode(rule.code) /\ rule.contexts # {}
    /\ \A e \in rule.effects : e.effect \in {"disabled", "ignored"} /\ e.values # {}

UnambiguousNames(categories) ==
    /\ \A c, d \in categories : c.prefix = d.prefix => c = d
    /\ \A c \in categories : \A r \in c.rules : r.code[1] = c.prefix
    /\ \A r, s \in RulesOf(categories) : r.code = s.code \/ r.name = s.name => r = s

ExactCodesAreNarrow(rules) ==
    \A r, s \in rules : SelectsCode(r.code, s.code) => r = s

ConsistentIncompatibilities(rules) ==
    \A r \in rules : \A code \in r.incompatible :
       /\ code # r.code
       /\ \E s \in rules : s.code = code /\ r.code \in s.incompatible /\ r.contexts = s.contexts

ValidCollection(categories) ==
    /\ \A r \in RulesOf(categories) : SoundMetadata(r)
    /\ UnambiguousNames(categories)
    /\ ExactCodesAreNarrow(RulesOf(categories))
    /\ ConsistentIncompatibilities(RulesOf(categories))

\* resolve_selector
Resolve(rules, selector) ==
    LET named == {r \in rules : selector.form = "name" /\ r.name = selector.name}
    IN  CASE named # {} ->
               [kind |-> "name", tag |-> (CHOOSE r \in named : TRUE).code, matching |-> named]
          [] selector.form = "tag" /\ IsTag(selector.tag) ->
               [kind |-> "code", tag |-> selector.tag,
                matching |-> {r \in rules : SelectsCode(selector.tag, r.code)}]
          [] selector.form = "name" /\ named = {} ->
               [kind |-> "unknown-name", tag |-> <<>>, matching |-> {}]
          [] OTHER -> [kind |-> "invalid", tag |-> <<>>, matching |-> {}]

-----------------------------------------------------------------------------
(* Strengths                                                               *)

Stronger(a, b) ==
    \/ a.priority > b.priority
    \/ a.priority = b.priority /\ a.specificity > b.specificity
AsStrong(a, b) == a.priority = b.priority /\ a.specificity = b.specificity

Group(selectors, priority) == [selectors |-> selectors, priority |-> priority]

Fixable(rule) == rule.fix # "never"

\* One record for each rule a selector of the group covers.
GroupMatches(rules, group, fixableOnly) ==
    UNION {LET found == Resolve(rules, selector)
           IN  {[code |-> r.code, priority |-> group.priority,
                 specificity |-> Specificity(found.tag), exact |-> found.tag = r.code] :
                   r \in {s \in found.matching : fixableOnly => Fixable(s)}} :
             selector \in ToSet(group.selectors)}

\* _resolve_rule_strengths: the strongest match of each rule; that one match
\* was exact is kept whether or not it is the strongest.
Strengths(rules, groups, fixableOnly) ==
    LET found == UNION {GroupMatches(rules, g, fixableOnly) : g \in groups}
        of(code) == {f \in found : f.code = code}
    IN  [code \in {f.code : f \in found} |->
           LET top == CHOOSE f \in of(code) : \A g \in of(code) : ~Stronger(g, f)
           IN  [priority |-> top.priority, specificity |-> top.specificity,
                exact |-> \E f \in of(code) : f.exact]]

\* What the same loop reports.
SelectorError(rules, selector, fixableOnly, reportUnknown) ==
    LET found == Resolve(rules, selector)
    IN  CASE found.kind = "invalid" -> "invalid"
          [] found.kind = "unknown-name" -> IF reportUnknown THEN "unknown" ELSE "none"
          [] found.tag = <<>> -> "none"
          [] found.matching = {} -> IF reportUnknown THEN "unknown" ELSE "none"
          [] fixableOnly /\ ~\E r \in found.matching : Fixable(r) -> "no fixes"
          [] OTHER -> "none"

SelectorErrors(rules, selectors, fixableOnly, reportUnknown) ==
    {<<kind, s>> : kind \in {"invalid", "unknown", "no fixes"}, s \in ToSet(selectors)}
      \cap {<<SelectorError(rules, s, fixableOnly, reportUnknown), s>> : s \in ToSet(selectors)}

\* _selector_groups and _skipped_selector_groups: an extension whose source
\* is weaker than the primary field's takes no part.
TakesPart(profile, extension, primary) ==
    profile.priority[extension] >= profile.priority[primary]

GroupOf(profile, field) == Group(profile.values[field], profile.priority[field])

ExtensionGroups(profile, extension, primary) ==
    IF TakesPart(profile, extension, primary) THEN {GroupOf(profile, extension)} ELSE {}

\* _resolve_enabled_strengths
EnabledOver(enabling, disabling) ==
    Restrict(enabling, {code \in DOMAIN enabling :
        code \in DOMAIN disabling => Stronger(enabling[code], disabling[code])})

Ordering(profile, rules, primary, extension, disabled, fixableOnly) ==
    EnabledOver(
        Strengths(rules, {GroupOf(profile, primary)} \cup ExtensionGroups(profile, extension, primary),
                  fixableOnly),
        Strengths(rules, ExtensionGroups(profile, disabled, primary), FALSE))

-----------------------------------------------------------------------------
(* select_rules                                                            *)

RuleOf(rules, code) == CHOOSE r \in rules : r.code = code

\* _apply_setting_effects
Triggered(rule, values) == {e.effect : e \in {f \in rule.effects : values[f.setting] \in f.values}}

AfterSettings(rules, enabled, values) ==
    Restrict(enabled, {code \in DOMAIN enabled :
        LET effects == Triggered(RuleOf(rules, code), values)
        IN  /\ "disabled" \notin effects
            /\ "ignored" \in effects => enabled[code].exact})

\* _resolve_require_explicit_codes, _apply_require_explicit
ExplicitOnly(rules, values) ==
    DOMAIN Strengths(rules, {Group(values["require_explicit"], 0)}, FALSE)

AfterRequireExplicit(rules, enabled, values) ==
    Restrict(enabled, {code \in DOMAIN enabled :
        code \in ExplicitOnly(rules, values) => enabled[code].exact})

TakenByCode(enabled, c, d) == CodeBefore(c, d)

\* _resolve_rule_incompatibilities: the rules are taken by strength, then by
\* code, and each one is kept if it is compatible with those kept before.
TakenBefore(enabled, c, d) ==
    \/ Stronger(enabled[c], enabled[d])
    \/ AsStrong(enabled[c], enabled[d]) /\ CodeBefore(c, d)

Retained(rules, enabled) ==
    LET codes == DOMAIN enabled
        taken(k) == CHOOSE c \in codes :
                       Cardinality({d \in codes : TakenBefore(enabled, d, c)}) = k - 1
        kept[k \in 0..Cardinality(codes)] ==
          IF k = 0 THEN {}
          ELSE IF kept[k - 1] \cap RuleOf(rules, taken(k)).incompatible = {}
               THEN kept[k - 1] \cup {taken(k)}
               ELSE kept[k - 1]
    IN  kept[Cardinality(codes)]

IncompatibilityErrors(rules, enabled) ==
    LET kept == Retained(rules, enabled)
    IN  {<<"incompatible", code>> : code \in {c \in DOMAIN enabled \ kept :
           ~\E d \in kept \cap RuleOf(rules, c).incompatible : Stronger(enabled[d], enabled[c])}}

EnabledRules(rules, profile) ==
    AfterRequireExplicit(rules,
        AfterSettings(rules,
            Ordering(profile, rules, "select", "extend_select", "ignore", FALSE),
            profile.values),
        profile.values)

FixableRules(rules, profile) ==
    DOMAIN Ordering(profile, rules, "fixable", "extend_fixable", "unfixable", TRUE)

\* _resolve_per_file_ignores, PerFileRuleIgnore: entries of the two fields,
\* each with the base of its field.
PerFileIgnores(rules, profile) ==
    UNION {{[pattern |-> entry[1], base |-> profile.base[field],
             codes |-> DOMAIN Strengths(rules, {Group(entry[2], 0)}, FALSE)] :
              entry \in ToSet(profile.values[field])} :
             field \in {"per_file_ignores", "extend_per_file_ignores"}}

IgnoreMatches(ignore, path) ==
    MatchesUnder(path, ignore.base, ignore.pattern.glob) # ignore.pattern.negated

\* A list that selects rules, and one that marks rules as fixable.
ListErrors(rules, selectors) == SelectorErrors(rules, selectors, FALSE, TRUE)
FixListErrors(rules, selectors) == SelectorErrors(rules, selectors, TRUE, TRUE)

\* Unless it is configured, require-explicit may name rules that are unknown.
RequireExplicitGiven(profile, requireExplicitDefault) ==
    \/ profile.values["require_explicit"] # requireExplicitDefault
    \/ profile.priority["require_explicit"] > 0

RequireExplicitErrors(rules, profile, requireExplicitDefault) ==
    SelectorErrors(rules, profile.values["require_explicit"], FALSE,
                   RequireExplicitGiven(profile, requireExplicitDefault))

IgnoreLists(profile) ==
    {e[2] : e \in ToSet(profile.values["per_file_ignores"])
                    \cup ToSet(profile.values["extend_per_file_ignores"])}

\* What cannot be used of every list of selectors.
UnusableSelectors(rules, profile, requireExplicitDefault) ==
    (UNION {ListErrors(rules, profile.values[f]) : f \in {"select", "extend_select", "ignore", "unfixable"}})
      \cup (UNION {FixListErrors(rules, profile.values[f]) : f \in {"fixable", "extend_fixable"}})
      \cup RequireExplicitErrors(rules, profile, requireExplicitDefault)
      \cup (UNION {ListErrors(rules, list) : list \in IgnoreLists(profile)})

SelectRules(rules, profile, requireExplicitDefault) ==
    LET enabled == EnabledRules(rules, profile)
    IN  [candidates |-> {[code |-> code,
                          fixable |-> Fixable(RuleOf(rules, code))
                                        /\ code \in FixableRules(rules, profile)] :
                            code \in Retained(rules, enabled)},
         ignores |-> PerFileIgnores(rules, profile),
         context |-> profile.values["source_context"],
         errors |-> IncompatibilityErrors(rules, enabled)
                      \cup UnusableSelectors(rules, profile, requireExplicitDefault)]

\* RuleSelection.for_path
RulesForPath(rules, selection, path, context) ==
    LET ignored == UNION {i.codes : i \in {j \in selection.ignores : IgnoreMatches(j, path)}}
    IN  {s \in selection.candidates :
            context \in RuleOf(rules, s.code).contexts /\ s.code \notin ignored}
=============================================================================
