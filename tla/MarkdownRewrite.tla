---------------------------- MODULE MarkdownRewrite ----------------------------
(***************************************************************************)
(* formatter.py, _format_markdown_source_plan: the Python blocks of a      *)
(* Markdown document are formatted one by one, put back together, and the  *)
(* document is either replaced or left as it was.                          *)
(*                                                                         *)
(* What the rules make of a block is arbitrary: FixLoop has the run of the *)
(* rules, and what it guarantees is all that is assumed here.              *)
(***************************************************************************)
EXTENDS MarkdownFences

CONSTANTS
    Documents,    \* documents that are formatted
    Bodies,       \* bodies the rules may leave
    Unparsable,   \* bodies LibCST does not parse
    FindingSets   \* sets of logical lines with findings

ASSUME MarkdownRewriteAssumption ==
    /\ Documents \subseteq Seq(MDLines)
    /\ Bodies \subseteq Seq(MDLines)
    /\ FindingSets \subseteq SUBSET (Nat \ {0})

VARIABLES
    doc,        \* the document that was read
    fix,        \* whether fixes are asked for
    stage,      \* format or done
    outcomes,   \* outcomes of the blocks formatted so far, by fence
    result      \* what the caller gets

vars == <<doc, fix, stage, outcomes, result>>

Targets == {i \in DOMAIN Fences(doc) : IsTarget(doc, Fences(doc)[i])}

Body(i) == BodyOf(doc, Fences(doc)[i])

\* _PythonFormatOutcome: the source and whether its last line ends, whether
\* fixes were counted, the logical lines of unfixed and of initial findings, and
\* whether a rule erred.
\* RuleRunResult: without fixes the source stays, and so do its findings; fixes
\* are counted if and only if the source changed.
OutcomesOf(body, fixing) ==
    {o \in [source : [lines : Bodies \cup {body}, ended : BOOLEAN], fixed : BOOLEAN,
            unfixed : FindingSets, initial : FindingSets, failed : BOOLEAN] :
        /\ o.source.lines = <<>> => o.source.ended
        /\ o.unfixed \subseteq DOMAIN o.source.lines
        /\ o.initial \subseteq DOMAIN body
        /\ o.fixed <=> o.source # [lines |-> body, ended |-> TRUE]
        /\ ~fixing => ~o.fixed
        /\ ~o.fixed => o.unfixed = o.initial}

\* _offset_markdown_findings: lines of a block as lines of its document.
Offset(lines, fence) == {fence.open + k : k \in lines}

\* Mutant: findings are placed where the blocks were.
UnfixedAsRead(text) ==
    UNION {Offset(outcomes[i].unfixed, Fences(doc)[i]) : i \in DOMAIN outcomes}

UnfixedIn(text) ==
    UNION {Offset(outcomes[i].unfixed, Fences(text)[i]) : i \in DOMAIN outcomes}

InitialFindings ==
    UNION {Offset(outcomes[i].initial, Fences(doc)[i]) : i \in DOMAIN outcomes}

\* FormatterResult: new_source, fixed_findings, unfixed_findings, errors.
Report(source, fixed, unfixed, failed) ==
    [source |-> source, fixed |-> fixed, unfixed |-> unfixed, failed |-> failed]

CountedFixes == Cardinality({i \in DOMAIN outcomes : outcomes[i].fixed})

\* Mutant: fixes that are rolled back stay counted.
UnchangedButCounted(unfixed, failed) == Report(doc, CountedFixes, unfixed, failed)

Unchanged(unfixed, failed) == Report(doc, 0, unfixed, failed)

NoReport == Report(<<>>, 0, {}, FALSE)

Init ==
    /\ doc \in Documents /\ fix \in BOOLEAN
    /\ stage = "format" /\ outcomes = <<>> /\ result = NoReport

AllParse == \A i \in Targets : Body(i) \notin Unparsable

\* Blocks are formatted in order; if one does not parse, the others are only
\* checked.
Pending == {i \in Targets : Body(i) \notin Unparsable /\ i \notin DOMAIN outcomes}

FormatBlock ==
    /\ stage = "format"
    /\ \E i \in Pending :
         /\ \A j \in Pending : i <= j
         /\ \E o \in OutcomesOf(Body(i), fix /\ AllParse) :
              outcomes' = [j \in DOMAIN outcomes \cup {i} |-> IF j = i THEN o ELSE outcomes[j]]
    /\ UNCHANGED <<doc, fix, stage, result>>

Return(report) ==
    /\ stage = "format" /\ Pending = {}
    /\ stage' = "done" /\ result' = report
    /\ UNCHANGED <<doc, fix, outcomes>>

SomeFailed == \E i \in DOMAIN outcomes : outcomes[i].failed

\* Nothing to format, a block that does not parse, or a check without fixes.
ReturnCheck ==
    /\ Targets = {} \/ ~AllParse \/ ~fix
    /\ Return(Unchanged(UnfixedIn(doc), SomeFailed \/ ~AllParse))

\* _markdown_rollback_result: the findings from before the fixes.
RollBack == Return(Unchanged(InitialFindings, TRUE))

Fixing == Targets # {} /\ AllParse /\ fix

RollBackFailed == Fixing /\ SomeFailed /\ RollBack

Sources == [i \in Targets |-> outcomes[i].source]

\* replace_fence_bodies, for every way to align the bodies.
Candidates ==
    {WithBodies(doc, Fences(doc), Targets,
                [i \in Targets |-> RenderedBody(doc, Fences(doc)[i], Sources[i].lines, choice[i])],
                [i \in Targets |-> Sources[i].ended]) :
       choice \in {c \in [Targets -> UNION {Alignments(Body(i), Sources[i].lines) : i \in Targets}] :
                     \A i \in Targets : c[i] \in Alignments(Body(i), Sources[i].lines)}}

RollBackUnsafe ==
    /\ Fixing /\ Pending = {} /\ ~SomeFailed
    /\ \E candidate \in Candidates : ~KeepsShape(doc, candidate, Sources)
    /\ RollBack

ReturnRewrite ==
    /\ Fixing /\ Pending = {} /\ ~SomeFailed
    /\ \E candidate \in Candidates :
         /\ KeepsShape(doc, candidate, Sources)
         /\ Return(Report(candidate, CountedFixes, UnfixedIn(candidate), FALSE))

Next == FormatBlock \/ ReturnCheck \/ RollBackFailed \/ RollBackUnsafe \/ ReturnRewrite

Spec == Init /\ [][Next]_vars

-----------------------------------------------------------------------------
(* Properties                                                              *)

Promise == INSTANCE MarkdownDocument WITH
    document <- IF stage = "done" THEN result.source ELSE doc,
    claimed  <- result.fixed

\* Formatting a Markdown document implements MarkdownDocument: whatever the rules
\* do to its blocks, including fences they write into them, the document is
\* replaced in its Python bodies only, or stays and no fix is claimed.
WholeOrNothing == Promise!Spec

\* What a reader of the rewritten document takes for the body of a block is what
\* the rules left of that very block: a finished rewrite never moves the border
\* between two blocks, and a block that erred or did not parse keeps all others.
BlocksIntact ==
    stage = "done" /\ result.source # doc =>
        /\ ~result.failed /\ AllParse
        /\ \A i \in Targets :
             BodyOf(result.source, Fences(result.source)[i]) = outcomes[i].source.lines

\* Every reported line is the line, in the document as it is left, of a finding
\* that holds for the text there: those from after the fixes if they were kept,
\* those from before if they were not, and none is forgotten.
FindingsInPlace ==
    stage = "done" =>
        LET kept == result.source # doc \/ ~result.failed
            found(i) == IF fix /\ AllParse /\ ~kept THEN outcomes[i].initial ELSE outcomes[i].unfixed
        IN  result.unfixed =
              {n \in 1..Len(result.source) :
                 \E i \in DOMAIN outcomes :
                   LET fence == Fences(result.source)[i]
                   IN  n > fence.open /\ n < fence.close /\ n - fence.open \in found(i)}
=============================================================================
