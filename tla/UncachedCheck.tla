---------------------------- MODULE UncachedCheck ----------------------------
(***************************************************************************)
(* What pydocfmt check does to the files it selects and what it reports    *)
(* about them when there is no cache.  Every selected file is opened, read *)
(* as a whole at some moment, analysed under the keys and the path context *)
(* the invocation started with, and, under --fix, written back.  Nothing   *)
(* is locked: other invocations and editors change files at any time.      *)
(*                                                                         *)
(* CacheProtocol implements this specification: the clean-proof cache is   *)
(* an optimisation that no report, no source write and no exit status      *)
(* tells from its absence.                                                 *)
(***************************************************************************)
EXTENDS Analysis

CONSTANTS
    Invocations,   \* processes running pydocfmt check
    Files,         \* the files every invocation selects
    Launches,      \* [engine, analysis, mode] an invocation may start with
    None           \* absent value

Modes == {"check", "fix", "diff"}

ASSUME LaunchesAssumption ==
    Launches \in [Invocations -> SUBSET [engine : Engines, analysis : Analyses, mode : Modes]]

VARIABLES
    disk,      \* the content of every file
    run,       \* what an invocation works under, or None
    report,    \* the result of every file, or None
    writing    \* the fixed text a worker is about to write, or None

uncachedVars == <<disk, run, report, writing>>

Runs == [engine : Engines, analysis : Analyses, mode : Modes, context : [Files -> Contexts]]

\* A planned write; the file is empty between truncation and completion.
Writes == [source : Contents, verdict : Verdicts, truncated : BOOLEAN]

ASSUME NoneAssumption == None \notin Runs /\ None \notin Results /\ None \notin Writes

UncachedTypeOK ==
    /\ disk \in [Files -> Contents]
    /\ run \in [Invocations -> Runs \cup {None}]
    /\ report \in [Invocations -> [Files -> Results \cup {None}]]
    /\ writing \in [Invocations -> [Files -> Writes \cup {None}]]

-----------------------------------------------------------------------------
NoneForAll == [f \in Files |-> None]

UncachedInit ==
    /\ disk \in [Files -> Contents]
    /\ run = [i \in Invocations |-> None]
    /\ report = [i \in Invocations |-> NoneForAll]
    /\ writing = [i \in Invocations |-> NoneForAll]

SetReport(i, f, result) == report' = [report EXCEPT ![i][f] = result]

\* Analysis of content c by invocation i: check runs no fixes.
Plan(i, f, c) ==
    RunRulePlan(run[i].engine, run[i].analysis, run[i].context[f], c, run[i].mode # "check")

\* --fix writes changed text back, --diff only shows it.
WritesBack(i, plan, c) == run[i].mode = "fix" /\ plan.source # c

Unreported(i, f) == run[i] # None /\ report[i][f] = None

Begin(i) ==
    /\ run[i] = None
    /\ \E launch \in Launches[i], context \in [Files -> Contexts] :
         run' = [run EXCEPT ![i] = [engine |-> launch.engine, analysis |-> launch.analysis,
                                    mode |-> launch.mode, context |-> context]]
    /\ report' = [report EXCEPT ![i] = NoneForAll]
    /\ writing' = [writing EXCEPT ![i] = NoneForAll]
    /\ UNCHANGED disk

Analyse(i, f) ==
    /\ Unreported(i, f)
    /\ writing[i][f] = None
    /\ LET plan == Plan(i, f, disk[f])
       IN  IF WritesBack(i, plan, disk[f])
           THEN /\ writing' = [writing EXCEPT ![i][f] =
                        [source |-> plan.source, verdict |-> plan.verdict, truncated |-> FALSE]]
                /\ UNCHANGED report
           ELSE /\ SetReport(i, f, ResultOf(plan, disk[f]))
                /\ UNCHANGED writing
    /\ UNCHANGED <<disk, run>>

ReadFails(i, f) ==
    /\ Unreported(i, f)
    /\ writing[i][f] = None
    /\ SetReport(i, f, FailedResult)
    /\ UNCHANGED <<disk, run, writing>>

\* Opening for writing truncates the file before anything is written.
Truncate(i, f) ==
    /\ Unreported(i, f)
    /\ writing[i][f] # None
    /\ ~writing[i][f].truncated
    /\ disk' = [disk EXCEPT ![f] = Empty]
    /\ writing' = [writing EXCEPT ![i][f].truncated = TRUE]
    /\ UNCHANGED <<run, report>>

Write(i, f) ==
    /\ Unreported(i, f)
    /\ writing[i][f] # None
    /\ writing[i][f].truncated
    /\ disk' = [disk EXCEPT ![f] = writing[i][f].source]
    /\ SetReport(i, f, [verdict |-> writing[i][f].verdict, modified |-> TRUE])
    /\ writing' = [writing EXCEPT ![i][f] = None]
    /\ UNCHANGED run

\* Opening or writing fails; what was truncated stays truncated.
WriteFails(i, f) ==
    /\ Unreported(i, f)
    /\ writing[i][f] # None
    /\ SetReport(i, f, FailedResult)
    /\ writing' = [writing EXCEPT ![i][f] = None]
    /\ UNCHANGED <<disk, run>>

\* The process prints its report, exits and forgets everything.
Leave(i) ==
    /\ run' = [run EXCEPT ![i] = None]
    /\ report' = [report EXCEPT ![i] = NoneForAll]
    /\ writing' = [writing EXCEPT ![i] = NoneForAll]
    /\ UNCHANGED disk

Finish(i) ==
    /\ run[i] # None
    /\ \A f \in Files : report[i][f] # None
    /\ Leave(i)

\* The process is killed or a worker dies: whatever is not yet done never is.
Crash(i) == run[i] # None /\ Leave(i)

Edit(f) ==
    /\ \E c \in Contents : disk' = [disk EXCEPT ![f] = c]
    /\ UNCHANGED <<run, report, writing>>

UncachedNext ==
    \/ \E i \in Invocations : Begin(i) \/ Finish(i) \/ Crash(i)
    \/ \E i \in Invocations, f \in Files :
         \/ Analyse(i, f)
         \/ ReadFails(i, f)
         \/ Truncate(i, f)
         \/ Write(i, f)
         \/ WriteFails(i, f)
    \/ \E f \in Files : Edit(f)

UncachedSpec == UncachedInit /\ [][UncachedNext]_uncachedVars
=============================================================================
