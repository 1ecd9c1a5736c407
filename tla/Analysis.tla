------------------------------ MODULE Analysis ------------------------------
(***************************************************************************)
(* What one run of the selected rules over one source text returns         *)
(* (formatter.py, rules/runner.py, rules/line_endings.py), at the level    *)
(* the clean-proof cache can tell apart: whether the text is clean, has    *)
(* findings or fails, and which text the fixes leave.  How the rules reach *)
(* their verdict is a parameter; what is kept is which inputs they see and *)
(* which text each pass runs on.                                           *)
(*                                                                         *)
(* In particular the line ending handed to the rules is resolved once,     *)
(* from the text before any fix, and the final check of the fixed text     *)
(* still uses it.                                                          *)
(***************************************************************************)
CONSTANTS
    Contents,          \* the byte contents a source file may have
    Empty,             \* the content of a file truncated for writing
    Engines,           \* engine keys: one per implementation and platform
    Analyses,          \* analysis keys: effective settings and final rules
    Contexts,          \* path contexts: package, module and visibility facts
    Endings,           \* concrete line endings
    ConfiguredEnding,  \* the line_ending setting of each analysis key
    FirstEnding,       \* the first line ending of each content
    Verdict,           \* outcome of one check pass, for every input
    Rewrite            \* outcome of the fix passes, for every input

Verdicts == {"clean", "findings", "error"}

\* Everything a check pass depends on.
Inputs == Engines \X Analyses \X Contexts \X Contents \X Endings

\* What the fix passes leave: the text, and whether one of them failed.
Rewrites == [source : Contents, failed : BOOLEAN]

ASSUME AnalysisAssumption ==
    /\ Empty \in Contents
    /\ ConfiguredEnding \in [Analyses -> Endings \cup {"auto"}]
    /\ FirstEnding \in [Contents -> Endings]
    /\ Verdict \in [Inputs -> Verdicts]
    /\ Rewrite \in [Inputs -> Rewrites]

-----------------------------------------------------------------------------
\* rules/line_endings.py: AUTO takes the first line ending of the text.
ResolveLineEnding(a, c) ==
    IF ConfiguredEnding[a] = "auto" THEN FirstEnding[c] ELSE ConfiguredEnding[a]

\* rules/runner.py, run_rule_plan: the check before the fixes, the fixes when
\* it found something, and the check after them, all with one line ending.
RunRulePlan(e, a, x, c, fix) ==
    LET le      == ResolveLineEnding(a, c)
        rewrite == IF fix /\ Verdict[<<e, a, x, c, le>>] # "clean"
                   THEN Rewrite[<<e, a, x, c, le>>]
                   ELSE [source |-> c, failed |-> FALSE]
    IN  [source  |-> rewrite.source,
         verdict |-> IF rewrite.failed THEN "error"
                     ELSE Verdict[<<e, a, x, rewrite.source, le>>]]

\* A fresh run over content c has nothing to diagnose, rewrite or display.
CleanFor(e, a, x, c) == Verdict[<<e, a, x, c, ResolveLineEnding(a, c)>>] = "clean"

\* Fixed text that its own run found clean is also clean for the next run,
\* which resolves the line ending anew from the text it reads.
LineEndingStable ==
    \A e \in Engines, a \in Analyses, x \in Contexts, c \in Contents :
        LET plan == RunRulePlan(e, a, x, c, TRUE)
        IN  plan.verdict = "clean" => CleanFor(e, a, x, plan.source)

-----------------------------------------------------------------------------
\* FormatterResult, as reports and exit status tell results apart.
Results == [verdict : Verdicts, modified : BOOLEAN]

\* FormatterResult.cached_clean: what a cache hit reports.
CachedClean == [verdict |-> "clean", modified |-> FALSE]

\* The result of analysing content c without writing it back.
ResultOf(plan, c) == [verdict |-> plan.verdict, modified |-> plan.source # c]

\* Read, decode and write failures: an error, and no change claimed.
FailedResult == [verdict |-> "error", modified |-> FALSE]
=============================================================================
