----------------------------- MODULE CheckBatch -----------------------------
(***************************************************************************)
(* pydocfmt check from the selected files to the exit status (cli/check.py)*)
(* Files whose clean proof is found in the cache are skipped.  The others  *)
(* are formatted one after the other, or by a pool of worker processes     *)
(* that finish in any order.  The new proofs are stored, the results are   *)
(* printed in the order of the files and the exit status is derived from   *)
(* them.                                                                   *)
(*                                                                         *)
(* A worker may raise something that the formatter does not expect, or     *)
(* die; output may fail.  What a worker does to a file is the subject of   *)
(* CacheProtocol and FixLoop: here it is an outcome.                       *)
(***************************************************************************)
EXTENDS Integers, FiniteSets

CONSTANTS
    N,              \* number of selected files
    Parallelisms,   \* settings <<numerator, denominator>> that may be met
    Cpus,           \* os.cpu_count()
    None            \* absent value

Indexes == 1..N

\* FormatterResult: text changed, findings left, operational errors.
Outcomes == [modified : BOOLEAN, unfixed : BOOLEAN, failed : BOOLEAN]

\* onExit: --exit-zero, --exit-non-zero-on-fix or neither.  errors: selection
\* of files or rules reported some.
Options == [mode : {"check", "fix", "diff"}, onExit : {"default", "zero", "non-zero-on-fix"},
            errors : BOOLEAN, parallelism : Parallelisms]

ASSUME CheckBatchAssumption ==
    /\ N \in Nat /\ Cpus \in Nat \ {0}
    /\ Parallelisms \subseteq Nat \X (Nat \ {0})
    /\ \A p \in Parallelisms : p[1] < p[2] \/ p[1] % p[2] = 0
    /\ None \notin Outcomes /\ None \notin [Indexes -> Outcomes \cup {None}] /\ None \notin Nat

VARIABLES
    options,     \* mode, exit options, selection errors, parallelism
    phase,       \* where the parent process is
    eligible,    \* files with a cache identity
    hits,        \* those whose proof was found
    task,        \* what became of every file sent to be formatted
    outcome,     \* the outcome in its future, or None
    ordered,     \* ordered_results
    rewritten,   \* files whose contents the invocation changed
    proofs,      \* files whose new proof was stored
    printed,     \* the results printed, or None
    status       \* the exit status, or None

vars == <<options, phase, eligible, hits, task, outcome, ordered, rewritten, proofs, printed, status>>

Phases == {"starting", "sequential", "pool", "aborting", "persisting", "checking", "printing", "exited", "aborted"}

Tasks == {"none", "pending", "running", "finished", "collected", "raised"}

\* Types of the state; a running task never has an outcome already.
TypeOK ==
    /\ options \in Options
    /\ phase \in Phases
    /\ eligible \subseteq Indexes /\ hits \subseteq eligible
    /\ task \in [Indexes -> Tasks]
    /\ outcome \in [Indexes -> Outcomes \cup {None}]
    /\ \A i \in Indexes : (outcome[i] # None) <=> (task[i] \in {"finished", "collected"})
    /\ ordered \in [Indexes -> Outcomes \cup {None}]
    /\ rewritten \subseteq Indexes /\ proofs \subseteq eligible
    /\ printed \in [Indexes -> Outcomes \cup {None}] \cup {None}
    /\ status \in {0, 1, 2, None}

-----------------------------------------------------------------------------
CleanOutcome == [modified |-> FALSE, unfixed |-> FALSE, failed |-> FALSE]

\* Without fixing nothing is modified.
MayResult(o) == o.modified => options.mode # "check"

Misses == Indexes \ hits

Unfinished == {i \in Indexes : task[i] \in {"pending", "running"}}

Running == {i \in Indexes : task[i] = "running"}

Lowest(n, m) == IF n < m THEN n ELSE m
Highest(n, m) == IF n < m THEN m ELSE n

\* Mutant: a share of the CPUs is rounded down.
ResolveParallelismDown ==
    LET numerator == options.parallelism[1]
        denominator == options.parallelism[2]
    IN  IF numerator = 0 THEN Highest(1, Cpus)
        ELSE IF numerator < denominator THEN (Cpus * numerator) \div denominator
             ELSE numerator \div denominator

\* resolve_parallelism: 0 is all CPUs, a fraction a share of them, rounded up.
ResolveParallelism ==
    LET numerator == options.parallelism[1]
        denominator == options.parallelism[2]
    IN  IF numerator = 0 THEN Highest(1, Cpus)
        ELSE IF numerator < denominator
             THEN Highest(1, (Cpus * numerator + denominator - 1) \div denominator)
             ELSE numerator \div denominator

\* _process_pool_worker_count; Windows has a limit of its own.
Workers == Lowest(ResolveParallelism, Cardinality(Misses))

Init ==
    /\ options \in Options
    /\ phase = "starting"
    /\ eligible = {} /\ hits = {}
    /\ task = [i \in Indexes |-> "none"]
    /\ outcome = [i \in Indexes |-> None]
    /\ ordered = [i \in Indexes |-> None]
    /\ rewritten = {} /\ proofs = {}
    /\ printed = None /\ status = None

\* Cache session and probe: any files may have an identity, any of those a
\* proof.  All others are submitted at once if there is a pool.
Probe ==
    /\ phase = "starting"
    /\ UNCHANGED <<options, outcome, rewritten, proofs, printed, status>>
    /\ \E found \in SUBSET Indexes : \E known \in SUBSET found :
         /\ eligible' = found
         /\ hits' = known
         /\ ordered' = [i \in Indexes |-> IF i \in known THEN CleanOutcome ELSE None]
    /\ phase' = IF Misses' = {} THEN "persisting"
                ELSE IF Workers' = 1 THEN "sequential"
                ELSE IF Workers' > 1 THEN "pool" ELSE "persisting"
    /\ task' = [i \in Indexes |-> IF i \in Misses' /\ Workers' >= 1 THEN "pending" ELSE "none"]

\* Tasks are started in the order of the files.
FirstPending(i) == task[i] = "pending" /\ \A j \in 1..(i - 1) : task[j] # "pending"

\* --fix writes what it modified.
Written(o) == o.modified /\ options.mode = "fix"

\* An error of open or write is reported as nothing modified, but the file may
\* be truncated or cut short.
MayBeCutShort(o) == o.failed /\ ~o.modified /\ ~o.unfixed /\ options.mode = "fix"

\* The outcome of file i is known.
Formatted(i, o) ==
    /\ MayResult(o)
    /\ outcome' = [outcome EXCEPT ![i] = o]
    /\ \/ (Written(o) \/ MayBeCutShort(o)) /\ rewritten' = rewritten \cup {i}
       \/ ~Written(o) /\ UNCHANGED rewritten

\* Whatever stopped a worker came before or after it wrote.
MayWrite(interrupted) ==
    \E some \in SUBSET interrupted :
        rewritten' = IF options.mode = "fix" THEN rewritten \cup some ELSE rewritten

FormatNext ==
    /\ phase = "sequential"
    /\ \E i \in Indexes, o \in Outcomes :
         /\ FirstPending(i)
         /\ Formatted(i, o)
         /\ task' = [task EXCEPT ![i] = "collected"]
         /\ ordered' = [ordered EXCEPT ![i] = o]
    /\ UNCHANGED <<options, phase, eligible, hits, proofs, printed, status>>

\* Without a pool an exception ends the invocation at once.
FormatRaises ==
    /\ phase = "sequential"
    /\ \E i \in Indexes :
         FirstPending(i) /\ MayWrite({i}) /\ task' = [task EXCEPT ![i] = "raised"]
    /\ phase' = "aborted"
    /\ status' = 1
    /\ UNCHANGED <<options, eligible, hits, outcome, ordered, proofs, printed>>

PoolUp == phase \in {"pool", "aborting"}

StartTask ==
    /\ PoolUp
    /\ Cardinality(Running) < Workers
    /\ \E i \in Indexes : FirstPending(i) /\ task' = [task EXCEPT ![i] = "running"]
    /\ UNCHANGED <<options, phase, eligible, hits, outcome, ordered, rewritten, proofs, printed, status>>

FinishTask(i) ==
    /\ PoolUp
    /\ task[i] = "running"
    /\ \E o \in Outcomes : Formatted(i, o)
    /\ task' = [task EXCEPT ![i] = "finished"]
    /\ UNCHANGED <<options, phase, eligible, hits, ordered, proofs, printed, status>>

RaiseTask(i) ==
    /\ PoolUp
    /\ task[i] = "running"
    /\ task' = [task EXCEPT ![i] = "raised"]
    /\ MayWrite({i})
    /\ UNCHANGED <<options, phase, eligible, hits, outcome, ordered, proofs, printed, status>>

\* Mutant: the futures of a broken pool are never resolved.
WorkerDiesSilently ==
    /\ PoolUp
    /\ Running # {}
    /\ task' = [i \in Indexes |-> IF i \in Unfinished THEN "none" ELSE task[i]]
    /\ MayWrite(Running)
    /\ UNCHANGED <<options, phase, eligible, hits, outcome, ordered, proofs, printed, status>>

\* A worker process dies.  The pool is broken: the other workers are stopped,
\* and every unfinished future raises BrokenProcessPool.
WorkerDies ==
    /\ PoolUp
    /\ Running # {}
    /\ task' = [i \in Indexes |-> IF i \in Unfinished THEN "raised" ELSE task[i]]
    /\ MayWrite(Running)
    /\ UNCHANGED <<options, phase, eligible, hits, outcome, ordered, proofs, printed, status>>

\* Mutant: results are appended in the order of completion.
CollectAppending(i) ==
    /\ phase = "pool"
    /\ task[i] = "finished"
    /\ \E j \in Misses :
         /\ ordered[j] = None /\ \A k \in Misses : ordered[k] = None => j <= k
         /\ ordered' = [ordered EXCEPT ![j] = outcome[i]]
    /\ task' = [task EXCEPT ![i] = "collected"]
    /\ UNCHANGED <<options, phase, eligible, hits, outcome, rewritten, proofs, printed, status>>

\* as_completed yields finished futures in any order.
CollectFuture(i) ==
    /\ phase = "pool"
    /\ task[i] = "finished"
    /\ ordered' = [ordered EXCEPT ![i] = outcome[i]]
    /\ task' = [task EXCEPT ![i] = "collected"]
    /\ UNCHANGED <<options, phase, eligible, hits, outcome, rewritten, proofs, printed, status>>

CollectException ==
    /\ phase = "pool"
    /\ \E i \in Indexes : task[i] = "raised"
    /\ phase' = "aborting"
    /\ UNCHANGED <<options, eligible, hits, task, outcome, ordered, rewritten, proofs, printed, status>>

\* Leaving the executor's block waits for the tasks that are still pending.
ShutDown ==
    /\ phase = "aborting"
    /\ Unfinished = {}
    /\ phase' = "aborted"
    /\ status' = 1
    /\ UNCHANGED <<options, eligible, hits, task, outcome, ordered, rewritten, proofs, printed>>

AllCollected ==
    /\ phase \in {"sequential", "pool"}
    /\ \A i \in Misses : task[i] = "collected"
    /\ phase' = "persisting"
    /\ UNCHANGED <<options, eligible, hits, task, outcome, ordered, rewritten, proofs, printed, status>>

\* A text that is left with nothing to report, and that is the file's.
Proven(i) ==
    /\ i \in eligible /\ task[i] = "collected"
    /\ ~outcome[i].unfixed /\ ~outcome[i].failed
    /\ outcome[i].modified => options.mode = "fix"

\* One transaction; it may fail without consequence.
Persist ==
    /\ phase = "persisting"
    /\ proofs' \in {{}, {i \in Indexes : Proven(i)}}
    /\ phase' = "checking"
    /\ UNCHANGED <<options, eligible, hits, task, outcome, ordered, rewritten, printed, status>>

\* format_selected_files asserts that every file has a result.
CheckResults ==
    /\ phase = "checking"
    /\ IF \E i \in Indexes : ordered[i] = None
       THEN phase' = "aborted" /\ status' = 1
       ELSE phase' = "printing" /\ UNCHANGED status
    /\ UNCHANGED <<options, eligible, hits, task, outcome, ordered, rewritten, proofs, printed>>

\* Mutant: operational errors do not count.
ExitStatusOfFindings ==
    IF options.onExit = "zero" THEN 0
    ELSE IF \/ options.mode = "diff" /\ \E i \in Indexes : ordered[i].modified
            \/ options.errors
            \/ \E i \in Indexes : ordered[i].unfixed
            \/ options.mode = "fix" /\ options.onExit = "non-zero-on-fix" /\ \E i \in Indexes : ordered[i].modified
         THEN 1 ELSE 0

ExitStatus ==
    IF options.onExit = "zero" THEN 0
    ELSE IF \/ options.mode = "diff" /\ \E i \in Indexes : ordered[i].modified
            \/ options.errors
            \/ \E i \in Indexes : ordered[i].failed \/ ordered[i].unfixed
            \/ options.mode = "fix" /\ options.onExit = "non-zero-on-fix" /\ \E i \in Indexes : ordered[i].modified
         THEN 1 ELSE 0

PrintResults ==
    /\ phase = "printing"
    /\ printed' = ordered
    /\ status' = ExitStatus
    /\ phase' = "exited"
    /\ UNCHANGED <<options, eligible, hits, task, outcome, ordered, rewritten, proofs>>

\* The output file cannot be opened, written or closed.
OutputFails ==
    /\ phase = "printing"
    /\ status' = 2
    /\ phase' = "exited"
    /\ UNCHANGED <<options, eligible, hits, task, outcome, ordered, rewritten, proofs, printed>>

ParentStep ==
    \/ Probe \/ FormatNext \/ FormatRaises
    \/ (\E i \in Indexes : CollectFuture(i)) \/ CollectException \/ ShutDown
    \/ AllCollected \/ Persist \/ CheckResults \/ PrintResults \/ OutputFails

WorkerStep(i) == FinishTask(i) \/ RaiseTask(i)

Next == ParentStep \/ StartTask \/ WorkerDies \/ \E i \in Indexes : WorkerStep(i)

Spec == Init /\ [][Next]_vars

\* The parent and the pool are not suspended for ever, and formatting a file
\* ends; a worker need not die.
FairSpec ==
    /\ Spec
    /\ WF_vars(ParentStep) /\ WF_vars(StartTask)
    /\ \A i \in Indexes : WF_vars(WorkerStep(i))

-----------------------------------------------------------------------------
(* Properties. *)

\* What is printed is one result for every selected file, in the order of the
\* files, each computed from its own file in whatever order the workers
\* finished (the futures dictionary and ordered_results).
ReportInFileOrder ==
    printed # None =>
        \A i \in Indexes : printed[i] = IF i \in hits THEN CleanOutcome ELSE outcome[i]

\* If results are printed, no file was changed without its result saying so:
\* that it was modified, or, if its write was cut short, that it failed.  What
\* is said to be fixed was written, and check and diff write nothing
\* (check_files).
RewritesReported ==
    printed # None =>
        /\ \A i \in rewritten : options.mode = "fix" /\ (printed[i].modified \/ printed[i].failed)
        /\ \A i \in Indexes : options.mode = "fix" /\ printed[i].modified => i \in rewritten

\* Proofs are only stored of files this invocation formatted to the end and
\* found or left clean, and never by an invocation that aborts: what it
\* reports as unclean is not skipped next time (CacheSession.persist).
ProofsOnlyOfClean ==
    /\ status = 1 /\ phase = "aborted" => proofs = {}
    /\ \A i \in proofs :
         /\ i \notin hits /\ ordered[i] # None
         /\ ~ordered[i].unfixed /\ ~ordered[i].failed
         /\ ordered[i].modified => i \in rewritten

\* An invocation aborts only if a worker raised or died; the assertion that
\* every file has a result never fires, whatever the parallelism.
AbortsOnlyByWorker ==
    phase = "aborted" => \E i \in Indexes : task[i] = "raised"

\* Without --exit-zero, status 0 means that nothing is left to report, and
\* that --diff has nothing to show; and status 1 that something is, that
\* something was fixed, or that the invocation aborted (the table of exit codes
\* in docs_site/checking.md; the help of --diff says less, see below).
StatusAsDocumented ==
    options.onExit # "zero" /\ status \in {0, 1} =>
        (status = 0 <=>
            /\ phase = "exited" /\ ~options.errors
            /\ \A i \in Misses : outcome[i] # None /\ ~outcome[i].unfixed /\ ~outcome[i].failed
            /\ options.mode = "diff" \/ (options.mode = "fix" /\ options.onExit = "non-zero-on-fix") =>
                 \A i \in Misses : ~outcome[i].modified)

\* The help of --diff says "exit 0 if there are no diffs. Implies fix-only.": in
\* an invocation that runs without errors, what no diff shows would not count.
\* It does: findings without a fix make the status 1 (the second finding of the
\* condition in check_files), as StatusAsDocumented has it.
DiffExitsAsHelped ==
    /\ phase = "exited" /\ status # 2
    /\ options.mode = "diff" /\ ~options.errors
    /\ \A i \in Indexes : ~printed[i].modified /\ ~printed[i].failed
    => status = 0

\* Every invocation ends, although workers raise and die while others still
\* have tasks (the executor's shutdown, resolve_parallelism).
BatchEnds == <>(phase \in {"exited", "aborted"})
=============================================================================
