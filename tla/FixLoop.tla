------------------------------- MODULE FixLoop -------------------------------
(***************************************************************************)
(* rules/runner.py: one run of the selected rules over one source text.    *)
(* Under --fix, passes of the fixable rules rewrite the text until a pass  *)
(* changes nothing, a text comes back or the iteration limit is reached;   *)
(* a last check of all selected rules then tells what is left.             *)
(*                                                                         *)
(* What the rule hooks do with a text is arbitrary but fixed (they read    *)
(* the text, the settings and the line ending, nothing else): it is chosen *)
(* once, from Hooks.  A rule's findings and edits are those that           *)
(* suppression comments leave.                                             *)
(***************************************************************************)
EXTENDS Naturals, Sequences

CONSTANTS
    Sources,           \* texts
    Endings,           \* line endings
    LineEndingOf,      \* line ending resolved for a text that is read
    RuleCount,         \* selected rules, numbered in execution order
    Categories,
    CategoryOf,        \* category of each rule; its rules are neighbours
    Fixable,           \* rules whose fixes are selected
    MaxFixIterations,  \* MAX_FIX_ITERATIONS, 30 in the code
    Hooks,             \* behaviours of the hooks that are explored
    None

Rules == 1..RuleCount

\* What a hook sees: a text, and the line ending for generated text.
Situations == Sources \X Endings

\* A rule finds nothing, finds what it cannot fix, raises or breaks its
\* contract, finds something whose edits cannot be planned or applied, or
\* fixes what it finds, leaving another text.
Outcomes ==
    [kind : {"clean", "reports", "raises", "unplannable"}, to : {None}]
      \cup [kind : {"fixes"}, to : Sources]

\* Hooks of the rules, preparation of the categories, and whether a text can
\* be aligned with its LibCST rendering.
AllHooks ==
    [outcome  : [Rules -> [Situations -> Outcomes]],
     prepares : [Categories -> [Situations -> BOOLEAN]],
     aligns   : [Sources -> BOOLEAN]]

ASSUME FixLoopAssumption ==
    /\ RuleCount \in Nat
    /\ MaxFixIterations \in Nat \ {0}
    /\ LineEndingOf \in [Sources -> Endings]
    /\ CategoryOf \in [Rules -> Categories]
    /\ Fixable \subseteq Rules
    /\ Hooks \subseteq AllHooks
    /\ None \notin Sources /\ None \notin Categories
    /\ None \notin Nat /\ None \notin {"repeat", "limit"}
    /\ None \notin [category : Categories, source : Sources]

VARIABLES
    hooks,      \* behaviour of the hooks
    fixing,     \* the fix argument
    again,      \* this run repeats an error-free fix run on what that one left
    initial,    \* the text the run started with
    ending,     \* line ending handed to the rules
    pc,         \* start, pass, check or done
    source,     \* the current text
    iteration,  \* number of the current pass
    rule,       \* next rule of the pass
    prepared,   \* category and text the category context was prepared for
    failed,     \* category given up in this pass, or None
    changed,    \* this pass changed the text
    seen,       \* findings fixed when a text was reached, or None
    fixed,      \* fixed findings, one entry per applied fix
    stop,       \* why the passes ended: repeat, limit or None
    errors,     \* kinds of operational errors
    unfixed     \* findings of the last check

runVars  == <<hooks, fixing, again, initial, ending>>
passVars == <<rule, prepared, failed, changed>>
vars     == <<runVars, pc, source, iteration, passVars, seen, fixed, stop, errors, unfixed>>

Fixes    == [rule : Rules, from : Sources, to : Sources]
Findings == [rule : Rules, fixable : BOOLEAN]
Errors   == {"alignment", "preparation", "check", "fix", "repeat", "limit"}

\* Types of the state; among them, that no pass exceeds the iteration limit.
TypeOK ==
    /\ hooks \in AllHooks /\ fixing \in BOOLEAN /\ again \in BOOLEAN
    /\ initial \in Sources /\ source \in Sources /\ ending \in Endings
    /\ pc \in {"start", "pass", "check", "done"}
    /\ iteration \in 0..MaxFixIterations /\ rule \in 1..(RuleCount + 1)
    /\ prepared \in [category : Categories, source : Sources] \cup {None}
    /\ failed \in Categories \cup {None} /\ changed \in BOOLEAN
    /\ seen \in [Sources -> Nat \cup {None}]
    /\ fixed \in Seq(Fixes)
    /\ stop \in {"repeat", "limit", None}
    /\ errors \subseteq Errors /\ unfixed \subseteq Findings

-----------------------------------------------------------------------------
Started(s) ==
    /\ initial = s /\ source = s
    /\ ending = LineEndingOf[s]
    /\ pc = "start"
    /\ iteration = 0 /\ rule = 1 /\ prepared = None /\ failed = None /\ changed = FALSE
    /\ seen = [t \in Sources |-> None]
    /\ fixed = <<>> /\ stop = None /\ errors = {} /\ unfixed = {}

Init ==
    /\ hooks \in Hooks
    /\ fixing \in BOOLEAN
    /\ again = FALSE
    /\ \E s \in Sources : Started(s)

-----------------------------------------------------------------------------
(* _run_check_pass                                                         *)

OutcomeAt(r, s) == hooks.outcome[r][<<s, ending>>]

PreparesAt(c, s) == hooks.prepares[c][<<s, ending>>]

\* A category that cannot be prepared has none of its rules run.
Finds(r, s) ==
    PreparesAt(CategoryOf[r], s) /\ OutcomeAt(r, s).kind \in {"reports", "unplannable", "fixes"}

\* Effective fixability: by the finding and by the fixable rule selection.
FindsFixable(r, s) ==
    /\ r \in Fixable
    /\ Finds(r, s)
    /\ OutcomeAt(r, s).kind # "reports"

CheckFindings(s) ==
    {[rule |-> r, fixable |-> FindsFixable(r, s)] : r \in {q \in Rules : Finds(q, s)}}

CheckErrors(s) ==
    {"preparation" : r \in {q \in Rules : ~PreparesAt(CategoryOf[q], s)}}
      \cup {"check" : r \in {q \in Rules : /\ PreparesAt(CategoryOf[q], s)
                                           /\ OutcomeAt(q, s).kind = "raises"}}

FixableLeft(s) == \E r \in Rules : FindsFixable(r, s)

-----------------------------------------------------------------------------
(* run_rule_plan                                                           *)

BeginPass ==
    /\ pc' = "pass"
    /\ iteration' = iteration + 1
    /\ rule' = 1
    /\ prepared' = None
    /\ failed' = None
    /\ changed' = FALSE

\* The exact source cannot be aligned before anything ran.
StartMisaligned ==
    /\ pc = "start"
    /\ ~hooks.aligns[source]
    /\ errors' = {"alignment"}
    /\ pc' = "done"
    /\ UNCHANGED <<runVars, source, iteration, passVars, seen, fixed, stop, unfixed>>

StartCheck ==
    /\ pc = "start" /\ hooks.aligns[source]
    /\ ~fixing
    /\ pc' = "check"
    /\ UNCHANGED <<runVars, source, iteration, passVars, seen, fixed, stop, errors, unfixed>>

\* The precheck finds nothing to fix; its errors are those of the passes and
\* of the last check otherwise.
NothingToFix == CheckErrors(source) = {} /\ ~FixableLeft(source)

PrecheckDone ==
    /\ pc = "start" /\ hooks.aligns[source]
    /\ fixing /\ NothingToFix
    /\ unfixed' = CheckFindings(source)
    /\ pc' = "done"
    /\ UNCHANGED <<runVars, source, iteration, passVars, seen, fixed, stop, errors>>

PrecheckFinds ==
    /\ pc = "start" /\ hooks.aligns[source]
    /\ fixing /\ ~NothingToFix
    /\ BeginPass
    /\ seen' = [seen EXCEPT ![source] = 0]
    /\ UNCHANGED <<runVars, source, fixed, stop, errors, unfixed>>

-----------------------------------------------------------------------------
(* _run_fix_pass                                                           *)

InPass == pc = "pass" /\ rule \in Rules

Attempted == rule \in Fixable /\ CategoryOf[rule] # failed

\* Mutant: a category is prepared once per pass.
CategoryReady == prepared # None /\ prepared.category = CategoryOf[rule]

\* The context in hand is of this rule's category and of the current module.
Ready == prepared = [category |-> CategoryOf[rule], source |-> source]

SkipRule ==
    /\ InPass /\ ~Attempted
    /\ rule' = rule + 1
    /\ UNCHANGED <<runVars, pc, source, iteration, prepared, failed, changed,
                   seen, fixed, stop, errors, unfixed>>

PrepareCategory ==
    /\ InPass /\ Attempted /\ ~Ready
    /\ PreparesAt(CategoryOf[rule], source)
    /\ prepared' = [category |-> CategoryOf[rule], source |-> source]
    /\ UNCHANGED <<runVars, pc, source, iteration, rule, failed, changed,
                   seen, fixed, stop, errors, unfixed>>

\* The rules of this category that are left are not run in this pass.
PreparationFails ==
    /\ InPass /\ Attempted /\ ~Ready
    /\ ~PreparesAt(CategoryOf[rule], source)
    /\ errors' = errors \cup {"preparation"}
    /\ failed' = CategoryOf[rule]
    /\ prepared' = None
    /\ UNCHANGED <<runVars, pc, source, iteration, rule, changed, seen, fixed, stop, unfixed>>

\* The hook reads the context, and its edits apply to the context's text.
Outcome == OutcomeAt(rule, prepared.source)

RuleIdle ==
    /\ InPass /\ Attempted /\ Ready
    /\ Outcome.kind \in {"clean", "reports"}
    /\ rule' = rule + 1
    /\ UNCHANGED <<runVars, pc, source, iteration, prepared, failed, changed,
                   seen, fixed, stop, errors, unfixed>>

\* Mutant: a rule whose fix failed is tried again.
RuleRetries ==
    /\ InPass /\ Attempted /\ Ready
    /\ Outcome.kind \in {"raises", "unplannable"} \/ Outcome.to = prepared.source
    /\ errors' = errors \cup {"fix"}
    /\ UNCHANGED <<runVars, pc, source, iteration, passVars, seen, fixed, stop, unfixed>>

\* It raises, returns what the runner rejects, plans edits that do not apply,
\* or claims a fix and changes nothing.
RuleFails ==
    /\ InPass /\ Attempted /\ Ready
    /\ Outcome.kind \in {"raises", "unplannable"} \/ Outcome.to = prepared.source
    /\ errors' = errors \cup {"fix"}
    /\ rule' = rule + 1
    /\ UNCHANGED <<runVars, pc, source, iteration, prepared, failed, changed,
                   seen, fixed, stop, unfixed>>

RuleFixes ==
    /\ InPass /\ Attempted /\ Ready
    /\ Outcome.kind = "fixes" /\ Outcome.to # prepared.source /\ hooks.aligns[Outcome.to]
    /\ source' = Outcome.to
    /\ fixed' = Append(fixed, [rule |-> rule, from |-> prepared.source, to |-> Outcome.to])
    /\ changed' = TRUE
    /\ rule' = rule + 1
    /\ UNCHANGED <<runVars, pc, iteration, prepared, failed, seen, stop, errors, unfixed>>

\* The edited source cannot be aligned: the whole run is taken back.
FixMisaligned ==
    /\ InPass /\ Attempted /\ Ready
    /\ Outcome.kind = "fixes" /\ Outcome.to # prepared.source /\ ~hooks.aligns[Outcome.to]
    /\ source' = initial
    /\ fixed' = <<>>
    /\ errors' = errors \cup {"alignment"}
    /\ unfixed' = CheckFindings(initial)
    /\ pc' = "done"
    /\ UNCHANGED <<runVars, iteration, passVars, seen, stop>>

-----------------------------------------------------------------------------
(* run_rule_plan: after a pass, and the last check                         *)

PassOver == pc = "pass" /\ rule = RuleCount + 1

PassStable ==
    /\ PassOver /\ ~changed
    /\ pc' = "check"
    /\ UNCHANGED <<runVars, source, iteration, passVars, seen, fixed, stop, errors, unfixed>>

\* Mutant: what a cycle undid still counts as fixed.
AllFixed == fixed

\* Findings fixed up to the moment the text was first reached.
SurvivingFixes == SubSeq(fixed, 1, seen[source])

PassRepeats ==
    /\ PassOver /\ changed /\ seen[source] # None
    /\ stop' = "repeat"
    /\ fixed' = SurvivingFixes
    /\ pc' = "check"
    /\ UNCHANGED <<runVars, source, iteration, passVars, seen, errors, unfixed>>

PassesLeft == iteration < MaxFixIterations

PassProgresses ==
    /\ PassOver /\ changed /\ seen[source] = None
    /\ seen' = [seen EXCEPT ![source] = Len(fixed)]
    /\ \/ /\ PassesLeft
          /\ BeginPass
          /\ UNCHANGED stop
       \/ /\ ~PassesLeft
          /\ stop' = "limit"
          /\ pc' = "check"
          /\ UNCHANGED <<iteration, passVars>>
    /\ UNCHANGED <<runVars, source, fixed, errors, unfixed>>

\* Mutant: a text that came back is taken for convergence.
LimitErrors == IF stop = "limit" /\ FixableLeft(source) THEN {stop} ELSE {}

\* Mutant: only a text that came back is reported.
RepeatErrors == IF stop = "repeat" /\ FixableLeft(source) THEN {stop} ELSE {}

ConvergenceErrors == IF stop # None /\ FixableLeft(source) THEN {stop} ELSE {}

FinalCheck ==
    /\ pc = "check"
    /\ unfixed' = CheckFindings(source)
    /\ errors' = errors \cup CheckErrors(source) \cup ConvergenceErrors
    /\ pc' = "done"
    /\ UNCHANGED <<runVars, source, iteration, passVars, seen, fixed, stop>>

-----------------------------------------------------------------------------
\* The user runs pydocfmt check --fix once more on what it left.
Rerun ==
    /\ pc = "done" /\ fixing /\ ~again /\ errors = {}
    /\ again' = TRUE
    /\ initial' = source
    /\ ending' = LineEndingOf[source]
    /\ pc' = "start"
    /\ iteration' = 0 /\ rule' = 1 /\ prepared' = None /\ failed' = None /\ changed' = FALSE
    /\ seen' = [t \in Sources |-> None]
    /\ fixed' = <<>> /\ stop' = None /\ unfixed' = {}
    /\ UNCHANGED <<hooks, fixing, source, errors>>

RunStep ==
    \/ StartMisaligned \/ StartCheck \/ PrecheckDone \/ PrecheckFinds
    \/ SkipRule \/ PrepareCategory \/ PreparationFails
    \/ RuleIdle \/ RuleFails \/ RuleFixes \/ FixMisaligned
    \/ PassStable \/ PassRepeats \/ PassProgresses
    \/ FinalCheck

Next == RunStep \/ Rerun

Spec == Init /\ [][Next]_vars

\* A run is a sequential computation that nothing suspends for ever.
FairSpec == Spec /\ WF_vars(RunStep)

-----------------------------------------------------------------------------
(* Properties                                                              *)

\* The reported fixes lead, one after the other, from the text the run read
\* to the text it leaves; what a cycle or a failed alignment undid is not
\* reported, and no fix is reported for an unchanged text.
FixesExplainSource ==
    /\ fixed = <<>> => source = initial
    /\ fixed # <<>> =>
         /\ fixed[1].from = initial
         /\ fixed[Len(fixed)].to = source
         /\ \A n \in 1..(Len(fixed) - 1) : fixed[n].to = fixed[n + 1].from
    /\ pc = "done" /\ source = initial => fixed = <<>>

\* A fix run that reports no error has nothing fixable left.
NoFixableLeft ==
    pc = "done" /\ fixing /\ errors = {} =>
        \A finding \in unfixed : ~finding.fixable

\* A fix cycle is an operational error, never a successful result.
RepeatIsError == pc = "done" /\ stop = "repeat" => errors # {}

\* A rule's fix is computed from the text it is applied to: no rule works on
\* a context prepared before an earlier fix, which it would take back.
FixesCompose ==
    [][source' # source =>
         \/ \E r \in Fixable : OutcomeAt(r, source) = [kind |-> "fixes", to |-> source']
         \/ pc' = "done" /\ source' = initial]_vars

\* What makes them inductive: findings counted when a text was reached led to
\* that text, and only the text the current pass started with, and has not
\* left, may have nothing to fix.
PassShape ==
    /\ ending = LineEndingOf[initial]
    /\ pc = "start" =>
         /\ source = initial /\ iteration = 0 /\ \A s \in Sources : seen[s] = None
         /\ fixed = <<>> /\ stop = None /\ errors = {}
    /\ pc = "pass" => stop = None /\ fixing
    /\ prepared # None => PreparesAt(prepared.category, prepared.source)
    /\ failed # None => errors # {}

SeenShape ==
    pc = "pass" =>
        /\ \A s \in Sources : seen[s] # None =>
             /\ seen[s] <= Len(fixed)
             /\ seen[s] = 0 <=> s = initial
             /\ seen[s] # 0 => fixed[seen[s]].to = s
             /\ FixableLeft(s) \/ (~changed /\ s = source)
        /\ seen[initial] # None
        /\ ~changed => seen[source] = Len(fixed)

ResultShape ==
    /\ pc = "pass" /\ ~changed /\ errors = {} =>
         \A r \in 1..(rule - 1) : ~FindsFixable(r, source)
    /\ pc \in {"check", "done"} /\ source = initial => fixed = <<>>
    /\ pc = "check" /\ fixing /\ stop = None /\ errors = {} => ~FixableLeft(source)
    /\ pc = "check" /\ stop = "repeat" => FixableLeft(source)
    /\ pc = "done" /\ stop = "repeat" => errors # {}
    /\ pc = "done" /\ fixing /\ errors = {} =>
         NothingToFix /\ unfixed = CheckFindings(source)

\* Repeating a successful fix run on its result changes nothing.
FixedPoint == again => source = initial /\ fixed = <<>>

\* Every run comes to its end, whatever the hooks do.
Terminates == pc = "start" ~> pc = "done"
=============================================================================
