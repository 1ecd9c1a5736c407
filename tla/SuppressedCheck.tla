---------------------------- MODULE SuppressedCheck ----------------------------
(***************************************************************************)
(* rules/runner.py, rules/violations.py: one check pass over one source,   *)
(* rule by rule, with the suppression comments of the source applied to    *)
(* what each rule reports; then the audit of those comments (PCF101); and, *)
(* under --fix, the first fix that a rule of the next pass applies.        *)
(*                                                                         *)
(* What the rules report is arbitrary (hooks): a set of violations each,   *)
(* which the constructors of violations.py build from planned changes or   *)
(* from lines.  FixLoop models what becomes of the fixed text.             *)
(***************************************************************************)
EXTENDS Suppressions, SourceEdits

CONSTANTS
    Order,          \* standard rules, in execution order
    Audit,          \* PCF101
    Always, Never,  \* rules whose violations all have, or never have, a fix
    Cases,          \* sources, with their text and the hooks' behaviour
    NoResult

ASSUME SuppressedCheckAssumption ==
    /\ Order \in Seq(Rules) /\ Audit \in Rules
    /\ \A i \in DOMAIN Order : Order[i] # Audit
    /\ \A c \in Cases : IsSource(c.src) /\ c.text \in Seq(Seq(Characters))
    /\ \A c \in Cases, r \in Rules :
         /\ IsFiniteSet(c.violations[r])
         /\ \A v \in c.violations[r] :
              IsFiniteSet(v.edits) /\ \A e \in v.edits : e.with \in Seq(Characters)

VARIABLES
    case,      \* source, text, hooks, selected and fixable rules
    pc,        \* check, audit, fix or done
    next,      \* place of the next rule in Order
    used,      \* keys of the selectors used so far
    findings,  \* findings so far
    audited,   \* selectors PCF101 found unused or invalid
    result,    \* the text a fix left, or NoResult
    errors     \* kinds of operational errors

passVars == <<case, pc, next, used, findings, audited, result, errors>>

src == case.src

-----------------------------------------------------------------------------
(* violations.py                                                           *)

Change(edits, lines, others) == [edits |-> edits, lines |-> lines, others |-> others]

Violation(rule, lines, others, edits) ==
    [rule |-> rule, lines |-> lines, others |-> others, edits |-> edits]

\* violation_for_planned_source_change and its grouped form.
Fixing(rule, changes) ==
    Violation(rule, UNION {c.lines : c \in changes}, UNION {c.others : c \in changes},
              UNION {c.edits : c \in changes})

Diagnostic(rule, lines, others) == Violation(rule, lines, others, {})

HasFix(violation) == violation.edits # {}

\* _fixable_instance_fixability, _diagnostic_instance_fixability: other
\* violations cannot be constructed, so that the hook raises.
Constructible(violation) ==
    violation.rule \notin IF HasFix(violation) THEN Never ELSE Always

Finding(violation) ==
    [rule |-> violation.rule, targets |-> {violation.lines} \cup violation.others]

InSource(violation) == \A target \in Finding(violation).targets : target \subseteq LinesOf(src)

-----------------------------------------------------------------------------
(* _run_check_pass                                                         *)

PassInit ==
    /\ case \in Cases
    /\ pc = "check" /\ next = 1
    /\ used = {} /\ findings = {} /\ audited = {}
    /\ result = NoResult /\ errors = {}

rule == Order[next]
Reported == case.violations[rule]
Active == CategoryOf[rule]
Authorized == case.authorized[Active]

Prepared == Active \notin case.unprepared
HookRaises == \/ rule \in case.raising
              \/ \E v \in Reported : ~Constructible(v)

\* _validated_rule_violations: one bad violation invalidates all of a rule.
Valid == \A v \in Reported : v.rule = rule /\ InSource(v)

AtRule(phase) == pc = phase /\ next \in DOMAIN Order /\ rule \in case.selected

NextRule == next' = next + 1

SkipUnselected ==
    /\ pc \in {"check", "fix"} /\ next \in DOMAIN Order /\ rule \notin case.selected
    /\ NextRule
    /\ UNCHANGED <<case, pc, used, findings, audited, result, errors>>

CheckFails ==
    /\ AtRule("check")
    /\ \/ ~Prepared /\ errors' = errors \cup {"preparation"}
       \/ Prepared /\ (HookRaises \/ ~Valid) /\ errors' = errors \cup {"check"}
    /\ NextRule
    /\ UNCHANGED <<case, pc, used, findings, audited, result>>

ReportedFindings == {Finding(v) : v \in Reported}

CheckRule ==
    /\ AtRule("check") /\ Prepared /\ ~HookRaises /\ Valid
    /\ used' = used \cup UsedKeys(Selectors(src), ReportedFindings, Active, Authorized)
    /\ findings' = findings
          \cup Unsuppressed(Selectors(src), ReportedFindings, Active, Authorized)
    /\ NextRule
    /\ UNCHANGED <<case, pc, audited, result, errors>>

\* The audit needs the source context of some category that got that far;
\* its own findings are suppressed too, which uses no selector.
AuditFinding(selector) == [rule |-> Audit, targets |-> {{selector.line}}]

AuditFindings(selectors) ==
    {s \in selectors : ~\E t \in Selectors(src) :
                          Suppresses(t, AuditFinding(s), CategoryOf[Audit], {})}

AuditSuppressions ==
    /\ pc = "check" /\ next \notin DOMAIN Order
    /\ audited' = IF Audit \in case.selected
                  THEN AuditFindings(Unused(Selectors(src), used, case.selected \ {Audit}))
                  ELSE {}
    /\ pc' = (IF case.fixing THEN "fix" ELSE "done")
    /\ next' = 1
    /\ UNCHANGED <<case, used, findings, result, errors>>

-----------------------------------------------------------------------------
(* _run_fix_pass, up to the first fix                                      *)

AllFixable == {v \in Reported : HasFix(v)}

ToFix ==
    {v \in Reported : HasFix(v) /\ Finding(v) \in
        Unsuppressed(Selectors(src), ReportedFindings, Active, Authorized)}

\* The changes of a rule's violations are applied in one go, or not at all.
Edits == SetToSeq(UNION {v.edits : v \in ToFix})

\* A change that two violations plan begins where it begins, and is refused.
PlannedTwice == \E v, w \in ToFix : v # w /\ v.edits \cap w.edits # {}

Fixes == rule \in case.fixable /\ Prepared /\ ~HookRaises /\ Valid /\ ToFix # {}

FixNothing ==
    /\ AtRule("fix") /\ ~Fixes
    /\ errors' = errors \cup (CASE rule \notin case.fixable -> {}
                               [] ~Prepared -> {"preparation"}
                               [] HookRaises \/ ~Valid -> {"fix"}
                               [] OTHER -> {})
    /\ NextRule
    /\ UNCHANGED <<case, pc, used, findings, audited, result>>

FixRefused ==
    /\ AtRule("fix") /\ Fixes
    /\ PlannedTwice \/ ~Applicable(case.text, Edits) \/ Applied(case.text, Edits) = Flat(case.text)
    /\ errors' = errors \cup {"fix"}
    /\ NextRule
    /\ UNCHANGED <<case, pc, used, findings, audited, result>>

FixApplied ==
    /\ AtRule("fix") /\ Fixes /\ ~PlannedTwice /\ Applicable(case.text, Edits)
    /\ Applied(case.text, Edits) # Flat(case.text)
    /\ result' = Applied(case.text, Edits)
    /\ pc' = "done"
    /\ UNCHANGED <<case, next, used, findings, audited, errors>>

NothingFixed ==
    /\ pc = "fix" /\ next \notin DOMAIN Order
    /\ pc' = "done"
    /\ UNCHANGED <<case, next, used, findings, audited, result, errors>>

PassNext ==
    \/ SkipUnselected \/ CheckFails \/ CheckRule \/ AuditSuppressions
    \/ FixNothing \/ FixRefused \/ FixApplied \/ NothingFixed

PassSpec == PassInit /\ [][PassNext]_passVars

-----------------------------------------------------------------------------
(* Properties                                                              *)

\* What the selected rules report of a source with other comments.
ReportWith(selectors) ==
    UNION {LET found == {Finding(v) : v \in case.violations[r]}
           IN  Unsuppressed(selectors, found, CategoryOf[r], case.authorized[CategoryOf[r]]) :
             r \in {Order[i] : i \in DOMAIN Order} \cap case.selected}

\* The list of a comment without the entries that selectors stand for.
Entries(comment) ==
    IF comment.form = "bracket" THEN Retained(comment)
    ELSE IF comment.list = NoList THEN <<>> ELSE comment.list

WithoutEntries(comment, selectors) ==
    LET entries == Entries(comment)
        gone == {s.position : s \in selectors}
    IN  [comment EXCEPT !.list =
           IF selectors = {} THEN @ ELSE Elements(entries, DOMAIN entries \ gone)]

Without(selectors) ==
    [src EXCEPT !.comments =
       [l \in LinesOf(src) |->
          IF src.comments[l] = NoComment THEN NoComment
          ELSE WithoutEntries(src.comments[l], {s \in selectors : s.line = l})]]

\* The entries PCF101 reports can all be deleted at once: as long as every
\* rule could run, the other rules report the same without them.
UnusedIsRemovable ==
    pc = "done" /\ errors = {} => ReportWith(Selectors(Without(audited))) = findings

\* An entry of a selected rule that PCF101 does not report suppresses
\* something even where no other entry does; unless its report is itself
\* suppressed.
UsedIsNeeded ==
    pc = "done" /\ errors = {} /\ Audit \in case.selected =>
       \A s \in AuditFindings(Selectors(src)) \ audited :
          s.audit /\ s.codes \cap (case.selected \ {Audit}) # {} =>
             ReportWith({s}) # ReportWith({})

\* Rewriting the lists of all directives, by PCF100 or by either policy and
\* in either order, changes neither what is suppressed nor how many entries
\* are unused.  Both orders come to the same lists, at once where a list can
\* be rendered and otherwise with the second pass, and rewrite them no more.
Rewritten(rewrite(_)) ==
    [src EXCEPT !.comments =
       [l \in LinesOf(src) |->
          IF src.comments[l] = NoComment \/ src.comments[l].form # "bracket"
          THEN src.comments[l] ELSE rewrite(src.comments[l])]]

Meaning(s) == {<<t.line, t.position, t.codes, t.valid, t.lines, t.ranges, t.self>> :
                 t \in Selectors(s)}

RewritesKeepMeaning ==
    pc = "done" =>
       \A policy \in ExactKinds :
          LET both(c) == Represent(Normalize(c), policy)
              twice(c) == both(both(c))
              swapped(c) == Normalize(Represent(c, policy))
              policyOnly(c) == Represent(c, policy)
          IN  /\ Meaning(Rewritten(both)) = Meaning(src)
              /\ Meaning(Rewritten(policyOnly)) = Meaning(src)
              /\ Rewritten(swapped) = Rewritten(twice)
              /\ \A l \in Commented(src) :
                    src.comments[l].form = "bracket" =>
                       /\ SafeList(src.comments[l].list)
                            => both(src.comments[l]) = swapped(src.comments[l])
                       /\ both(twice(src.comments[l])) = twice(src.comments[l])
                       /\ ~PolicyFixes(policyOnly(src.comments[l]), policy)

\* A fix leaves a line alone if every finding whose fix would touch it is
\* suppressed: the new text begins with what the edits above the line make of
\* the text above it, and goes on with the line.
EditsAbove(l) == {e \in UNION {v.edits : v \in ToFix} : e.to.line < l}

SuppressedLinesKept ==
    result # NoResult =>
       \A l \in DOMAIN case.text :
          (\A v \in Reported : (\E e \in v.edits : e.from.line <= l /\ l <= e.to.line) =>
                \E s \in Selectors(src) : Suppresses(s, Finding(v), Active, Authorized))
            => IsPrefix(Applied(SubSeq(case.text, 1, l - 1), SetToSeq(EditsAbove(l)))
                          \o Append(case.text[l], EndOfLine), result)

\* A fix is what its edits give one at a time, the last in the text first,
\* in whatever order the rule planned them.
OneByOne(text, sorted) ==
    LET one(edit, chars) == Slice(chars, 0, Start(text, edit)) \o edit.with
                              \o Slice(chars, End(text, edit), Len(chars))
        left[i \in 0..Len(sorted)] ==
            IF i = 0 THEN Flat(text) ELSE one(sorted[Len(sorted) + 1 - i], left[i - 1])
    IN  left[Len(sorted)]

Reorderings(edits) ==
    {[k \in DOMAIN edits |-> edits[p[k]]] :
        p \in {q \in [DOMAIN edits -> DOMAIN edits] : IsInjective(q)}}

FixIsItsEdits ==
    result # NoResult =>
       \A edits \in Reorderings(Edits) :
          /\ result = OneByOne(case.text, InOrder(case.text, edits))
          /\ Applied(case.text, edits) = result
=============================================================================
