----------------------------- MODULE CheckProofs -----------------------------
(***************************************************************************)
(* Proofs about the check command.                                         *)
(*                                                                         *)
(* CheckBatch, for any number of files and any parallelism.  Every file is *)
(* at one place of its way through the invocation, and the parent goes on  *)
(* to the proofs, the report and the exit status only when all are at the  *)
(* end of it (Progress).  What the parent has of a file is then the        *)
(* outcome of that file (Delivery), and what was rewritten is what         *)
(* outcomes say (Effects).                                                 *)
(*                                                                         *)
(* SuppressedCheck, for any source, any comments and any violations.       *)
(* Without errors, what a pass has found and the entries it has used are   *)
(* those of the rules it has checked (PassIInv).  A key stands for one     *)
(* entry (KeysAreDistinct); an entry covers the same when others are       *)
(* deleted (LineKeepsReach); and lists that have the same entries cover    *)
(* the same (SameMeaning).  Edits that are accepted follow one another in  *)
(* the text, in one order however they are listed (InOrderIs), so that the *)
(* fixed text is the old one with one edit after the other made            *)
(* (AssembledFrom), and what no edit touches is left in it (LineIsKept).   *)
(***************************************************************************)
EXTENDS CheckBatch, SuppressedCheck, FiniteSetTheorems, FunctionTheorems, NaturalsInduction,
        WellFoundedInduction, SequenceTheorems, TLAPS

-----------------------------------------------------------------------------
(* Files                                                                   *)

Progress ==
    /\ phase = "starting" => \A i \in Indexes : task[i] = "none"
    /\ phase # "starting" => \A i \in Indexes : task[i] = "none" <=> i \in hits
    /\ phase = "sequential" => \A i \in Indexes : task[i] \in {"none", "pending", "collected"}
    /\ phase \in {"aborting", "aborted"} => \E i \in Indexes : task[i] = "raised"
    /\ phase \in {"persisting", "checking", "printing", "exited"} =>
         \A i \in Misses : task[i] = "collected"

Delivery ==
    /\ phase = "starting" => hits = {}
    /\ \A i \in Indexes : i \in hits => ordered[i] = CleanOutcome
    /\ \A i \in Indexes : task[i] = "collected" => ordered[i] = outcome[i]

Effects ==
    /\ \A i \in Indexes : outcome[i] # None => MayResult(outcome[i])
    /\ \A i \in Indexes :
         outcome[i] # None /\ outcome[i].modified /\ options.mode = "fix" => i \in rewritten
    /\ \A i \in rewritten :
         /\ options.mode = "fix"
         /\ task[i] = "raised" \/ (outcome[i] # None /\ (outcome[i].modified \/ outcome[i].failed))

Ending ==
    /\ phase \notin {"checking", "printing", "exited"} => proofs = {}
    /\ \A i \in proofs : Proven(i)
    /\ printed # None => phase = "exited" /\ printed = ordered
    /\ phase \notin {"exited", "aborted"} => status = None
    /\ phase = "aborted" => status = 1
    /\ phase = "exited" => status \in {2, ExitStatus}

IInv == TypeOK /\ Progress /\ Delivery /\ Effects /\ Ending

LEMMA InitIInv == ASSUME Init PROVE IInv
BY CheckBatchAssumption
   DEF Init, IInv, TypeOK, Progress, Delivery, Effects, Ending, Phases, Tasks, Indexes, Misses, Outcomes

\* A share of at least one of the denominator is at least one.
LEMMA QuotientPositive ==
  ASSUME NEW n \in Nat, NEW d \in Nat \ {0}, n >= d
  PROVE  n \div d \in Nat /\ n \div d >= 1
OBVIOUS

\* There is somebody to format the files that have to be formatted.
LEMMA SomeWorkers ==
  ASSUME TypeOK', Misses' # {}
  PROVE  Workers' \in Nat /\ Workers' >= 1
<1>1. IsFiniteSet(Misses')
  BY FS_Interval, FS_Subset, CheckBatchAssumption DEF Misses, Indexes
<1>2. Cardinality(Misses') \in Nat /\ Cardinality(Misses') >= 1
  BY <1>1, FS_CardinalityType, FS_EmptySet
<1>3. ResolveParallelism' \in Nat /\ ResolveParallelism' >= 1
  <2>1. options'.parallelism \in Nat \X (Nat \ {0})
    BY CheckBatchAssumption DEF TypeOK, Options
  <2>. DEFINE n == options'.parallelism[1]
              d == options'.parallelism[2]
  <2>2. n \in Nat /\ d \in Nat \ {0} /\ Cpus \in Nat \ {0}
    BY <2>1, CheckBatchAssumption
  <2>3. CASE n = 0
    BY <2>2, <2>3 DEF ResolveParallelism, Highest
  <2>4. CASE n # 0 /\ n < d
    <3>1. Cpus * n \in Nat /\ Cpus * n >= 1
      BY <2>2, <2>4
    <3>2. Cpus * n + d - 1 \in Nat /\ Cpus * n + d - 1 >= d
      BY <3>1, <2>2
    <3>3. (Cpus * n + d - 1) \div d \in Nat
      BY <3>2, <2>2, QuotientPositive
    <3>4. QED
      BY <2>4, <3>3 DEF ResolveParallelism, Highest
  <2>5. CASE n # 0 /\ n >= d
    <3>1. n \div d \in Nat /\ n \div d >= 1
      BY <2>2, <2>5, QuotientPositive
    <3>2. QED
      BY <2>2, <2>5, <3>1 DEF ResolveParallelism
  <2>6. QED
    BY <2>2, <2>3, <2>4, <2>5
<1>4. QED
  BY <1>2, <1>3 DEF Workers, Lowest

\* After the probe every file is a hit or has somebody to format it.
LEMMA ProbeKeeps == ASSUME IInv, Probe PROVE IInv'
<1>1. PICK found \in SUBSET Indexes : \E known \in SUBSET found :
        /\ eligible' = found /\ hits' = known
        /\ ordered' = [i \in Indexes |-> IF i \in known THEN CleanOutcome ELSE None]
  BY DEF Probe
<1>2. hits' \subseteq eligible' /\ eligible' \subseteq Indexes
  BY <1>1
<1>3. ordered' = [i \in Indexes |-> IF i \in hits' THEN CleanOutcome ELSE None]
  BY <1>1
<1>4. /\ phase = "starting" /\ phase' \in {"persisting", "sequential", "pool"}
      /\ UNCHANGED <<options, outcome, rewritten, proofs, printed, status>>
      /\ task' = [i \in Indexes |-> IF i \in Misses' /\ Workers' >= 1 THEN "pending" ELSE "none"]
  BY DEF Probe
<1>5. outcome = [i \in Indexes |-> None] /\ proofs = {} /\ rewritten = {}
  BY <1>4 DEF IInv, TypeOK, Progress, Ending, Effects
<1>6. CleanOutcome \in Outcomes
  BY DEF CleanOutcome, Outcomes
<1>7. TypeOK'
  BY <1>2, <1>3, <1>4, <1>5, <1>6 DEF IInv, TypeOK, Phases, Tasks, Indexes
<1>8. Misses' # {} => Workers' \in Nat /\ Workers' >= 1
  BY <1>7, SomeWorkers
<1>9. \A i \in Indexes : task'[i] = IF i \in hits' THEN "none" ELSE "pending"
  BY <1>4, <1>8 DEF Misses
<1>10. phase' = "persisting" => Misses' = {}
  BY <1>4, <1>8 DEF Probe
<1>11. Progress'
  BY <1>4, <1>9, <1>10 DEF Progress
<1>12. Delivery' /\ Effects' /\ Ending'
  BY <1>3, <1>4, <1>5, <1>9 DEF IInv, Delivery, Effects, Ending, MayResult
<1>13. QED
  BY <1>7, <1>11, <1>12 DEF IInv

\* The only task at work is formatted and collected at once.
LEMMA FormatNextKeeps == ASSUME IInv, FormatNext PROVE IInv'
<1>0. PICK i \in Indexes, o \in Outcomes :
        /\ FirstPending(i) /\ Formatted(i, o)
        /\ task' = [task EXCEPT ![i] = "collected"]
        /\ ordered' = [ordered EXCEPT ![i] = o]
  BY DEF FormatNext
<1>1. TypeOK'
  BY <1>0, CheckBatchAssumption DEF FormatNext, Formatted, Written, MayBeCutShort, FirstPending, IInv, TypeOK, Progress, Phases, Tasks, Proven
<1>2. Progress'
  BY <1>0, CheckBatchAssumption DEF FormatNext, Formatted, Written, MayBeCutShort, FirstPending, IInv, TypeOK, Progress, Misses, Tasks
<1>3. Delivery'
  BY <1>0, CheckBatchAssumption DEF FormatNext, Formatted, Written, MayBeCutShort, FirstPending, IInv, TypeOK, Progress, Delivery
<1>4. Effects'
  BY <1>0, CheckBatchAssumption DEF FormatNext, Formatted, Written, MayBeCutShort, FirstPending, IInv, TypeOK, Progress, Effects, MayResult
<1>5. Ending'
  BY <1>0, CheckBatchAssumption DEF FormatNext, Formatted, Written, MayBeCutShort, FirstPending, IInv, TypeOK, Progress, Ending, Proven, ExitStatus
<1>6. QED
  BY <1>1, <1>2, <1>3, <1>4, <1>5 DEF IInv

\* The abort is due to the task that raised.
LEMMA FormatRaisesKeeps == ASSUME IInv, FormatRaises PROVE IInv'
<1>1. TypeOK'
  BY DEF FormatRaises, MayWrite, FirstPending, IInv, TypeOK, Progress, Phases, Tasks, Proven
<1>2. Progress'
  BY DEF FormatRaises, MayWrite, FirstPending, IInv, TypeOK, Progress, Misses, Tasks
<1>3. Delivery'
  BY DEF FormatRaises, MayWrite, FirstPending, IInv, TypeOK, Progress, Delivery
<1>4. Effects'
  BY DEF FormatRaises, MayWrite, FirstPending, IInv, TypeOK, Progress, Effects, MayResult
<1>5. Ending'
  BY DEF FormatRaises, MayWrite, FirstPending, IInv, TypeOK, Progress, Ending, Proven, ExitStatus
<1>6. QED
  BY <1>1, <1>2, <1>3, <1>4, <1>5 DEF IInv

\* A started task has no outcome yet.
LEMMA StartTaskKeeps == ASSUME IInv, StartTask PROVE IInv'
<1>1. TypeOK'
  BY DEF StartTask, PoolUp, FirstPending, IInv, TypeOK, Progress, Phases, Tasks, Proven
<1>2. Progress'
  BY DEF StartTask, PoolUp, FirstPending, IInv, TypeOK, Progress, Misses, Tasks
<1>3. Delivery'
  BY DEF StartTask, PoolUp, FirstPending, IInv, TypeOK, Progress, Delivery
<1>4. Effects'
  BY DEF StartTask, PoolUp, FirstPending, IInv, TypeOK, Progress, Effects, MayResult
<1>5. Ending'
  BY DEF StartTask, PoolUp, FirstPending, IInv, TypeOK, Progress, Ending, Proven, ExitStatus
<1>6. QED
  BY <1>1, <1>2, <1>3, <1>4, <1>5 DEF IInv

\* An outcome is there only once its task is finished.
LEMMA FinishTaskKeeps == ASSUME IInv, \E i \in Indexes : FinishTask(i) PROVE IInv'
<1>0. PICK i \in Indexes, o \in Outcomes :
        /\ task[i] = "running" /\ Formatted(i, o)
        /\ task' = [task EXCEPT ![i] = "finished"]
        /\ UNCHANGED ordered
  BY DEF FinishTask
<1>1. TypeOK'
  BY <1>0, CheckBatchAssumption DEF FinishTask, PoolUp, Formatted, Written, MayBeCutShort, IInv, TypeOK, Progress, Phases, Tasks, Proven
<1>2. Progress'
  BY <1>0, CheckBatchAssumption DEF FinishTask, PoolUp, Formatted, Written, MayBeCutShort, IInv, TypeOK, Progress, Misses, Tasks
<1>3. Delivery'
  BY <1>0, CheckBatchAssumption DEF FinishTask, PoolUp, Formatted, Written, MayBeCutShort, IInv, TypeOK, Progress, Delivery
<1>4. Effects'
  BY <1>0, CheckBatchAssumption DEF FinishTask, PoolUp, Formatted, Written, MayBeCutShort, IInv, TypeOK, Progress, Effects, MayResult
<1>5. Ending'
  BY <1>0, CheckBatchAssumption DEF FinishTask, PoolUp, Formatted, Written, MayBeCutShort, IInv, TypeOK, Progress, Ending, Proven, ExitStatus
<1>6. QED
  BY <1>1, <1>2, <1>3, <1>4, <1>5 DEF IInv

\* A task that raised may have written without an outcome.
LEMMA RaiseTaskKeeps == ASSUME IInv, \E i \in Indexes : RaiseTask(i) PROVE IInv'
<1>1. TypeOK'
  BY DEF RaiseTask, PoolUp, MayWrite, IInv, TypeOK, Progress, Phases, Tasks, Proven
<1>2. Progress'
  BY DEF RaiseTask, PoolUp, MayWrite, IInv, TypeOK, Progress, Misses, Tasks
<1>3. Delivery'
  BY DEF RaiseTask, PoolUp, MayWrite, IInv, TypeOK, Progress, Delivery
<1>4. Effects'
  BY DEF RaiseTask, PoolUp, MayWrite, IInv, TypeOK, Progress, Effects, MayResult
<1>5. Ending'
  BY DEF RaiseTask, PoolUp, MayWrite, IInv, TypeOK, Progress, Ending, Proven, ExitStatus
<1>6. QED
  BY <1>1, <1>2, <1>3, <1>4, <1>5 DEF IInv

\* All unfinished tasks raise; finished ones keep their outcome.
LEMMA WorkerDiesKeeps == ASSUME IInv, WorkerDies PROVE IInv'
<1>1. TypeOK'
  BY DEF WorkerDies, PoolUp, MayWrite, Running, Unfinished, IInv, TypeOK, Progress, Phases, Tasks, Proven
<1>2. Progress'
  BY DEF WorkerDies, PoolUp, MayWrite, Running, Unfinished, IInv, TypeOK, Progress, Misses, Tasks
<1>3. Delivery'
  BY DEF WorkerDies, PoolUp, MayWrite, Running, Unfinished, IInv, TypeOK, Progress, Delivery
<1>4. Effects'
  BY DEF WorkerDies, PoolUp, MayWrite, Running, Unfinished, IInv, TypeOK, Progress, Effects, MayResult
<1>5. Ending'
  BY DEF WorkerDies, PoolUp, MayWrite, Running, Unfinished, IInv, TypeOK, Progress, Ending, Proven, ExitStatus
<1>6. QED
  BY <1>1, <1>2, <1>3, <1>4, <1>5 DEF IInv

\* The future of a file goes to the place of that file.
LEMMA CollectFutureKeeps == ASSUME IInv, \E i \in Indexes : CollectFuture(i) PROVE IInv'
<1>1. TypeOK'
  BY DEF CollectFuture, IInv, TypeOK, Progress, Phases, Tasks, Proven
<1>2. Progress'
  BY DEF CollectFuture, IInv, TypeOK, Progress, Misses, Tasks
<1>3. Delivery'
  BY DEF CollectFuture, IInv, TypeOK, Progress, Delivery
<1>4. Effects'
  BY DEF CollectFuture, IInv, TypeOK, Progress, Effects, MayResult
<1>5. Ending'
  BY DEF CollectFuture, IInv, TypeOK, Progress, Ending, Proven, ExitStatus
<1>6. QED
  BY <1>1, <1>2, <1>3, <1>4, <1>5 DEF IInv

\* Pending tasks go on, but the task that raised is remembered.
LEMMA StopKeeps == ASSUME IInv, CollectException \/ ShutDown PROVE IInv'
<1>1. TypeOK'
  BY DEF CollectException, ShutDown, Unfinished, IInv, TypeOK, Progress, Phases, Tasks, Proven
<1>2. Progress'
  BY DEF CollectException, ShutDown, Unfinished, IInv, TypeOK, Progress, Misses, Tasks
<1>3. Delivery'
  BY DEF CollectException, ShutDown, Unfinished, IInv, TypeOK, Progress, Delivery
<1>4. Effects'
  BY DEF CollectException, ShutDown, Unfinished, IInv, TypeOK, Progress, Effects, MayResult
<1>5. Ending'
  BY DEF CollectException, ShutDown, Unfinished, IInv, TypeOK, Progress, Ending, Proven, ExitStatus
<1>6. QED
  BY <1>1, <1>2, <1>3, <1>4, <1>5 DEF IInv

\* Nothing but the phase changes when all are collected.
LEMMA AllCollectedKeeps == ASSUME IInv, AllCollected PROVE IInv'
<1>1. TypeOK'
  BY DEF AllCollected, IInv, TypeOK, Progress, Phases, Tasks, Proven
<1>2. Progress'
  BY DEF AllCollected, IInv, TypeOK, Progress, Misses, Tasks
<1>3. Delivery'
  BY DEF AllCollected, IInv, TypeOK, Progress, Delivery
<1>4. Effects'
  BY DEF AllCollected, IInv, TypeOK, Progress, Effects, MayResult
<1>5. Ending'
  BY DEF AllCollected, IInv, TypeOK, Progress, Ending, Proven, ExitStatus
<1>6. QED
  BY <1>1, <1>2, <1>3, <1>4, <1>5 DEF IInv

\* Either no proof is stored, or that of every proven file.
LEMMA PersistKeeps == ASSUME IInv, Persist PROVE IInv'
<1>1. TypeOK'
  BY DEF Persist, IInv, TypeOK, Progress, Phases, Tasks, Proven
<1>2. Progress'
  BY DEF Persist, IInv, TypeOK, Progress, Misses, Tasks
<1>3. Delivery'
  BY DEF Persist, IInv, TypeOK, Progress, Delivery
<1>4. Effects'
  BY DEF Persist, IInv, TypeOK, Progress, Effects, MayResult
<1>5. Ending'
  BY DEF Persist, IInv, TypeOK, Progress, Ending, Proven, ExitStatus
<1>6. QED
  BY <1>1, <1>2, <1>3, <1>4, <1>5 DEF IInv

\* The assertion cannot fire: collected outcomes exist.
LEMMA CheckResultsKeeps == ASSUME IInv, CheckResults PROVE IInv'
<1>0. \A i \in Indexes : ordered[i] # None
  <2>1. CleanOutcome # None
    <3>1. CleanOutcome \in Outcomes
      BY DEF CleanOutcome, Outcomes
    <3>2. QED
      BY <3>1, CheckBatchAssumption
  <2>2. QED
    BY <2>1 DEF CheckResults, IInv, TypeOK, Progress, Delivery, Misses
<1>1. TypeOK'
  BY <1>0 DEF CheckResults, IInv, TypeOK, Progress, Phases, Tasks, Proven
<1>2. Progress'
  BY <1>0 DEF CheckResults, IInv, TypeOK, Progress, Misses, Tasks
<1>3. Delivery'
  BY <1>0 DEF CheckResults, IInv, TypeOK, Progress, Delivery
<1>4. Effects'
  BY <1>0 DEF CheckResults, IInv, TypeOK, Progress, Effects, MayResult
<1>5. Ending'
  BY <1>0 DEF CheckResults, IInv, TypeOK, Progress, Ending, Proven, ExitStatus
<1>6. QED
  BY <1>1, <1>2, <1>3, <1>4, <1>5 DEF IInv

\* What is printed is what was collected.
LEMMA ReportKeeps == ASSUME IInv, PrintResults \/ OutputFails PROVE IInv'
<1>1. TypeOK'
  BY DEF PrintResults, OutputFails, IInv, TypeOK, Progress, Phases, Tasks, Proven, ExitStatus
<1>2. Progress'
  BY DEF PrintResults, OutputFails, IInv, TypeOK, Progress, Misses, Tasks
<1>3. Delivery'
  BY DEF PrintResults, OutputFails, IInv, TypeOK, Progress, Delivery
<1>4. Effects'
  BY DEF PrintResults, OutputFails, IInv, TypeOK, Progress, Effects, MayResult
<1>5. Ending'
  BY DEF PrintResults, OutputFails, IInv, TypeOK, Progress, Ending, Proven, ExitStatus
<1>6. QED
  BY <1>1, <1>2, <1>3, <1>4, <1>5 DEF IInv

\* In the end, a hit counts as clean and a miss as what its worker found.
LEMMA EndResults ==
  ASSUME IInv, phase \in {"printing", "exited"}
  PROVE  \A i \in Indexes :
           /\ i \in hits => ordered[i] = CleanOutcome /\ outcome[i] = None /\ i \notin rewritten
           /\ i \in Misses => task[i] = "collected" /\ ordered[i] = outcome[i] /\ outcome[i] \in Outcomes
BY DEF IInv, TypeOK, Progress, Delivery, Effects, Misses

LEMMA StepKeeps == ASSUME IInv, [Next]_vars PROVE IInv'
<1>1. CASE Probe
  BY <1>1, ProbeKeeps
<1>2. CASE FormatNext
  BY <1>2, FormatNextKeeps
<1>3. CASE FormatRaises
  BY <1>3, FormatRaisesKeeps
<1>4. CASE StartTask
  BY <1>4, StartTaskKeeps
<1>5. CASE \E i \in Indexes : FinishTask(i)
  BY <1>5, FinishTaskKeeps
<1>6. CASE \E i \in Indexes : RaiseTask(i)
  BY <1>6, RaiseTaskKeeps
<1>7. CASE WorkerDies
  BY <1>7, WorkerDiesKeeps
<1>8. CASE \E i \in Indexes : CollectFuture(i)
  BY <1>8, CollectFutureKeeps
<1>9. CASE CollectException \/ ShutDown
  BY <1>9, StopKeeps
<1>10. CASE AllCollected
  BY <1>10, AllCollectedKeeps
<1>11. CASE Persist
  BY <1>11, PersistKeeps
<1>12. CASE CheckResults
  BY <1>12, CheckResultsKeeps
<1>13. CASE PrintResults \/ OutputFails
  BY <1>13, ReportKeeps
<1>14. CASE UNCHANGED vars
  BY <1>14 DEF vars, IInv, TypeOK, Progress, Delivery, Effects, Ending, MayResult, Misses, Proven, ExitStatus
<1>15. QED
  BY <1>1, <1>2, <1>3, <1>4, <1>5, <1>6, <1>7, <1>8, <1>9, <1>10, <1>11, <1>12, <1>13, <1>14
     DEF Next, ParentStep, WorkerStep

\* The invariant holds in every reachable state.
THEOREM BatchInvariant == Spec => []IInv
<1>1. Init => IInv
  BY InitIInv
<1>2. IInv /\ [Next]_vars => IInv'
  BY StepKeeps
<1>3. QED
  BY <1>1, <1>2, PTL DEF Spec

\* Every variable has its type, for any number of files and workers.
THEOREM BatchTypes == Spec => []TypeOK
<1>1. IInv => TypeOK
  BY DEF IInv, TypeOK
<1>2. QED
  BY BatchInvariant, <1>1, PTL

\* Whatever the order in which workers finish, each result is printed at the
\* place of its file (ordered_results in format_selected_files).
THEOREM ReportsAreOrdered == Spec => []ReportInFileOrder
<1>1. IInv => ReportInFileOrder
  BY DEF IInv, ReportInFileOrder, Progress, Delivery, Ending, Misses, TypeOK
<1>2. QED
  BY BatchInvariant, <1>1, PTL

\* An invocation that prints its results says of every file it changed that it
\* was modified, or that it failed (check_files).
THEOREM RewritesAreReported == Spec => []RewritesReported
<1>1. IInv => RewritesReported
  <2>. SUFFICES ASSUME IInv, printed # None
                PROVE  /\ \A i \in rewritten : options.mode = "fix" /\ (printed[i].modified \/ printed[i].failed)
                       /\ \A i \in Indexes : options.mode = "fix" /\ printed[i].modified => i \in rewritten
    BY DEF RewritesReported
  <2>1. phase = "exited" /\ printed = ordered
    BY DEF IInv, Ending
  <2>2. ASSUME NEW i \in Indexes, i \in hits
        PROVE  i \notin rewritten /\ ~printed[i].modified
    BY <2>1, <2>2, EndResults DEF CleanOutcome
  <2>3. ASSUME NEW i \in Indexes, i \in Misses
        PROVE  /\ i \in rewritten => options.mode = "fix" /\ (printed[i].modified \/ printed[i].failed)
               /\ options.mode = "fix" /\ printed[i].modified => i \in rewritten
    <3>1. task[i] = "collected" /\ printed[i] = outcome[i] /\ outcome[i] \in Outcomes
      BY <2>1, <2>3, EndResults
    <3>2. outcome[i] # None
      BY <3>1, CheckBatchAssumption
    <3>3. QED
      BY <3>1, <3>2 DEF IInv, Effects
  <2>4. rewritten \subseteq Indexes
    BY DEF IInv, TypeOK
  <2>5. QED
    BY <2>2, <2>3, <2>4 DEF Misses
<1>2. QED
  BY BatchInvariant, <1>1, PTL

\* No proof is stored of a file with something to report, nor by an
\* invocation that aborts (CacheSession.persist).
THEOREM ProofsAreOfClean == Spec => []ProofsOnlyOfClean
<1>1. IInv => ProofsOnlyOfClean
  BY DEF IInv, ProofsOnlyOfClean, TypeOK, Progress, Delivery, Effects, Ending, Proven, Misses
<1>2. QED
  BY BatchInvariant, <1>1, PTL

\* The assertion at the end of format_selected_files never fires.
THEOREM OnlyWorkersAbort == Spec => []AbortsOnlyByWorker
<1>1. IInv => AbortsOnlyByWorker
  BY DEF IInv, AbortsOnlyByWorker, Progress
<1>2. QED
  BY BatchInvariant, <1>1, PTL

\* The exit status tells what the workers found (check_files).
THEOREM StatusIsTruthful == Spec => []StatusAsDocumented
<1>1. IInv => StatusAsDocumented
  <2>. SUFFICES ASSUME IInv, options.onExit # "zero", status \in {0, 1}
                PROVE  StatusAsDocumented
    BY DEF StatusAsDocumented
  <2>1. CASE phase = "aborted"
    BY <2>1 DEF IInv, Ending, StatusAsDocumented
  <2>2. CASE phase = "exited"
    <3>1. status = ExitStatus
      BY <2>2 DEF IInv, Ending
    <3>2. \A i \in hits : i \in Indexes /\ ordered[i] = CleanOutcome
      BY <2>2, EndResults DEF IInv, TypeOK
    <3>3. \A i \in Misses : i \in Indexes /\ ordered[i] = outcome[i] /\ outcome[i] # None
      BY <2>2, EndResults, CheckBatchAssumption DEF Misses
    <3>4. Indexes = hits \cup Misses
      BY DEF Misses, IInv, TypeOK
    <3>5. QED
      BY <2>2, <3>1, <3>2, <3>3, <3>4 DEF StatusAsDocumented, ExitStatus, CleanOutcome, IInv, TypeOK, Options
  <2>3. CASE phase \notin {"exited", "aborted"}
    BY <2>3, CheckBatchAssumption DEF IInv, Ending
  <2>4. QED
    BY <2>1, <2>2, <2>3
<1>2. QED
  BY BatchInvariant, <1>1, PTL

-----------------------------------------------------------------------------
(* Subsequences                                                            *)

\* A set of numbers has a least member: what fails for some number fails for
\* a least one.
LEMMA LeastNat ==
  ASSUME NEW T \in SUBSET Nat, T # {}
  PROVE  \E m \in T : \A k \in T : m <= k
<1>. DEFINE R == OpToRel(<, Nat)
<1>1. IsWellFoundedOn(R, Nat)
  BY NatLessThanWellFounded
<1>2. \A i, j \in Nat : <<i, j>> \in R <=> i < j
  BY DEF OpToRel
<1>. HIDE DEF R
<1>3. PICK x \in T : \A y \in T : ~ (<<y, x>> \in R)
  BY <1>1, WFMin
<1>4. \A k \in T : ~(k < x)
  BY <1>2, <1>3
<1>5. QED
  BY <1>4

\* The places of a set of positions count it from 1, in order.
LEMMA PlacesCount ==
  ASSUME NEW P \in SUBSET Nat, IsFiniteSet(P)
  PROVE  /\ Cardinality(P) \in Nat
         /\ \A i \in P : Place(P, i) \in 1..Cardinality(P)
         /\ \A i, j \in P : i < j <=> Place(P, i) < Place(P, j)
         /\ \A k \in 1..Cardinality(P) : \E i \in P : Place(P, i) = k
<1>. DEFINE upTo(i) == {j \in P : j <= i}
            n == Cardinality(P)
<1>1. n \in Nat
  BY FS_CardinalityType
<1>2. ASSUME NEW A, NEW B, IsFiniteSet(B), A \subseteq B
      PROVE  /\ IsFiniteSet(A) /\ Cardinality(A) \in Nat /\ Cardinality(B) \in Nat
             /\ Cardinality(A) <= Cardinality(B)
             /\ A # B => Cardinality(A) < Cardinality(B)
  <2>1. /\ IsFiniteSet(A) /\ Cardinality(A) <= Cardinality(B)
        /\ Cardinality(B) = Cardinality(A) => B = A
    BY <1>2, FS_Subset
  <2>2. Cardinality(A) \in Nat /\ Cardinality(B) \in Nat
    BY <1>2, <2>1, FS_CardinalityType
  <2>3. QED
    BY <2>1, <2>2
<1>3. \A i \in P : Place(P, i) = Cardinality(upTo(i)) /\ upTo(i) \subseteq P /\ i \in upTo(i)
  BY DEF Place
<1>0. \A i \in P : i \in Nat
  OBVIOUS
<1>4. \A i, j \in P : i < j => upTo(i) \subseteq upTo(j) /\ j \notin upTo(i)
  <2>1. SUFFICES ASSUME NEW i \in P, NEW j \in P, i < j
                 PROVE  /\ \A k \in P : k <= i => k <= j
                        /\ ~(j <= i)
    OBVIOUS
  <2>2. QED
    BY <1>0, <2>1
<1>. HIDE DEF upTo
<1>5. ASSUME NEW i \in P PROVE Place(P, i) \in 1..n
  <2>1. /\ Place(P, i) = Cardinality(upTo(i)) /\ upTo(i) \subseteq P /\ i \in upTo(i)
    BY <1>3
  <2>2. Cardinality(upTo(i)) \in Nat /\ Cardinality(upTo(i)) <= n /\ IsFiniteSet(upTo(i))
    BY <1>2, <2>1
  <2>3. Cardinality(upTo(i)) # 0
    BY <2>1, <2>2, FS_EmptySet
  <2>4. QED
    BY <1>1, <2>1, <2>2, <2>3
<1>6. ASSUME NEW i \in P, NEW j \in P, i < j PROVE Place(P, i) < Place(P, j)
  <2>1. IsFiniteSet(upTo(j)) /\ upTo(i) \subseteq upTo(j) /\ upTo(i) # upTo(j)
    BY <1>2, <1>3, <1>4, <1>6
  <2>2. QED
    BY <1>2, <1>3, <2>1
<1>7. ASSUME NEW i \in P, NEW j \in P PROVE i < j <=> Place(P, i) < Place(P, j)
  <2>1. Place(P, i) \in Int /\ Place(P, j) \in Int /\ i \in Int /\ j \in Int
    BY <1>0, <1>1, <1>5
  <2>2. (i < j => Place(P, i) < Place(P, j)) /\ (j < i => Place(P, j) < Place(P, i))
    BY <1>6
  <2>3. i < j \/ i = j \/ j < i
    BY <2>1
  <2>4. QED
    BY <2>1, <2>2, <2>3
<1>8. \A k \in 1..n : \E i \in P : Place(P, i) = k
  <2>. DEFINE f == [i \in P |-> Place(P, i)]
  <2>1. f \in [P -> 1..n]
    BY <1>5
  <2>2. \A i, j \in P : f[i] = f[j] => i = j
    <3>1. SUFFICES ASSUME NEW i \in P, NEW j \in P, f[i] = f[j] PROVE i = j
      OBVIOUS
    <3>2. Place(P, i) = Place(P, j) /\ Place(P, i) \in Int
      BY <1>1, <1>5, <3>1
    <3>3. ~(i < j) /\ ~(j < i)
      BY <1>7, <3>2
    <3>4. QED
      BY <3>3
  <2>3. IsFiniteSet(1..n) /\ Cardinality(1..n) = n
    BY <1>1, FS_Interval
  <2>. HIDE DEF f
  <2>4. f \in Injection(P, 1..n)
    BY <2>1, <2>2 DEF Injection, IsInjective
  <2>5. f \in Surjection(P, 1..n)
    BY <2>3, <2>4, FS_Injection
  <2>6. \A k \in 1..n : \E i \in P : f[i] = k
    BY <2>5 DEF Surjection
  <2>7. QED
    BY <2>6 DEF f
<1>9. QED
  BY <1>1, <1>5, <1>7, <1>8

\* The k-th position is the one whose place is k.
LEMMA NthIs ==
  ASSUME NEW P \in SUBSET Nat, IsFiniteSet(P), NEW k \in 1..Cardinality(P)
  PROVE  Nth(P, k) \in P /\ Place(P, Nth(P, k)) = k
BY PlacesCount, Zenon DEF Nth

\* An increasing map of one set of positions onto another keeps places.
LEMMA SamePlaces ==
  ASSUME NEW P \in SUBSET Nat, IsFiniteSet(P), NEW Q \in SUBSET Nat, IsFiniteSet(Q),
         NEW f \in [P -> Q],
         \A i, j \in P : i < j => f[i] < f[j],
         \A q \in Q : \E i \in P : f[i] = q
  PROVE  /\ Cardinality(P) = Cardinality(Q)
         /\ \A i \in P : Place(Q, f[i]) = Place(P, i)
         /\ \A k \in 1..Cardinality(P) : Nth(Q, k) = f[Nth(P, k)]
<1>0. (\A i \in P : i \in Nat /\ f[i] \in Nat) /\ (\A q \in Q : q \in Nat)
  OBVIOUS
<1>1. ASSUME NEW i \in P, NEW j \in P PROVE f[i] < f[j] <=> i < j
  <2>1. i \in Int /\ j \in Int /\ f[i] \in Int /\ f[j] \in Int
    BY <1>0
  <2>2. i < j \/ i = j \/ j < i
    BY <2>1
  <2>3. (i < j => f[i] < f[j]) /\ (j < i => f[j] < f[i])
    OBVIOUS
  <2>4. QED
    BY <2>1, <2>2, <2>3
<1>2. ASSUME NEW i \in P, NEW j \in P, f[i] = f[j] PROVE i = j
  <2>1. ~(i < j) /\ ~(j < i) /\ i \in Int /\ j \in Int
    BY <1>0, <1>1, <1>2
  <2>2. QED
    BY <2>1
<1>3. ASSUME NEW A \in SUBSET P, NEW B \in SUBSET Q, \A a \in A : f[a] \in B,
             \A b \in B : \E a \in A : f[a] = b
      PROVE  Cardinality(A) = Cardinality(B)
  <2>. DEFINE g == [a \in A |-> f[a]]
  <2>1. g \in [A -> B] /\ \A a, b \in A : g[a] = g[b] => a = b
    BY <1>2, <1>3
  <2>2. \A b \in B : \E a \in A : g[a] = b
    BY <1>3
  <2>3. g \in Bijection(A, B)
    <3>. HIDE DEF g
    <3>1. QED
      BY <2>1, <2>2 DEF Bijection, Injection, Surjection, IsInjective
  <2>4. IsFiniteSet(A)
    BY FS_Subset
  <2>. HIDE DEF g
  <2>5. ExistsBijection(A, B)
    BY <2>3 DEF ExistsBijection
  <2>6. QED
    BY <2>3, <2>4, <2>5, FS_Bijection
<1>4. Cardinality(P) = Cardinality(Q)
  BY <1>3
<1>5. ASSUME NEW i \in P PROVE Place(Q, f[i]) = Place(P, i)
  <2>. DEFINE A == {j \in P : j <= i}
              B == {j \in Q : j <= f[i]}
  <2>1. \A a \in A : f[a] \in B
    <3>1. SUFFICES ASSUME NEW a \in A PROVE f[a] <= f[i]
      OBVIOUS
    <3>2. ~(i < a)
      BY <1>0
    <3>3. ~(f[i] < f[a]) /\ f[i] \in Int /\ f[a] \in Int
      BY <1>0, <1>1, <3>2
    <3>4. QED
      BY <3>3
  <2>2. \A b \in B : \E a \in A : f[a] = b
    <3>1. SUFFICES ASSUME NEW b \in B PROVE \E a \in A : f[a] = b
      OBVIOUS
    <3>2. PICK a \in P : f[a] = b
      OBVIOUS
    <3>3. ~(f[i] < f[a])
      BY <1>0, <3>2
    <3>4. ~(i < a)
      BY <1>1, <3>3
    <3>5. a <= i
      BY <1>0, <3>4
    <3>6. QED
      BY <3>2, <3>5
  <2>3. A \in SUBSET P /\ B \in SUBSET Q
    OBVIOUS
  <2>4. Cardinality(A) = Cardinality(B)
    <3>. HIDE DEF A, B
    <3>1. QED
      BY <1>3, <2>1, <2>2, <2>3
  <2>5. QED
    BY <2>4 DEF Place
<1>6. ASSUME NEW k \in 1..Cardinality(P) PROVE Nth(Q, k) = f[Nth(P, k)]
  <2>1. Nth(P, k) \in P /\ Place(P, Nth(P, k)) = k
    BY NthIs
  <2>2. Nth(Q, k) \in Q /\ Place(Q, Nth(Q, k)) = k
    BY <1>4, NthIs
  <2>3. PICK i \in P : f[i] = Nth(Q, k)
    BY <2>2
  <2>4. Place(P, i) = k
    BY <1>5, <2>2, <2>3
  <2>5. PICK j \in P : j = Nth(P, k) /\ Place(P, j) = k
    BY <2>1
  <2>6. i = j
    <3>1. \A a, b \in P : a < b <=> Place(P, a) < Place(P, b)
      BY PlacesCount
    <3>2. i \in Int /\ j \in Int /\ Place(P, i) \in Int /\ Place(P, j) \in Int
      BY <1>0, <2>4, <2>5
    <3>3. ~(i < j) /\ ~(j < i)
      BY <2>4, <2>5, <3>1, <3>2
    <3>4. QED
      BY <3>2, <3>3
  <2>7. QED
    BY <2>3, <2>5, <2>6
<1>7. QED
  BY <1>4, <1>5, <1>6

\* What is kept of a sequence, by its places.
LEMMA ElementsAre ==
  ASSUME NEW A, NEW s \in Seq(A), NEW P \in SUBSET DOMAIN s
  PROVE  /\ P \in SUBSET Nat /\ IsFiniteSet(P)
         /\ Elements(s, P) \in Seq(A) /\ Len(Elements(s, P)) = Cardinality(P)
         /\ \A i \in P : Place(P, i) \in DOMAIN Elements(s, P) /\ Elements(s, P)[Place(P, i)] = s[i]
         /\ \A k \in DOMAIN Elements(s, P) : \E i \in P : Place(P, i) = k
<1>1. P \in SUBSET Nat /\ IsFiniteSet(P)
  <2>1. Len(s) \in Nat /\ DOMAIN s = 1..Len(s)
    OBVIOUS
  <2>2. IsFiniteSet(DOMAIN s)
    BY <2>1, FS_Interval
  <2>3. QED
    BY <2>1, <2>2, FS_Subset
<1>2. \A k \in 1..Cardinality(P) : Nth(P, k) \in P /\ s[Nth(P, k)] \in A
  BY <1>1, NthIs
<1>3. Elements(s, P) \in [1..Cardinality(P) -> A] /\ Cardinality(P) \in Nat
  BY <1>1, <1>2, FS_CardinalityType DEF Elements
<1>4. Elements(s, P) \in Seq(A) /\ Len(Elements(s, P)) = Cardinality(P)
  <2>. DEFINE e == Elements(s, P)
              n == Cardinality(P)
  <2>. HIDE DEF e, n
  <2>1. e \in [1..n -> A] /\ n \in Nat => e \in Seq(A) /\ Len(e) = n
    OBVIOUS
  <2>2. QED
    BY <1>3, <2>1 DEF e, n
<1>5. ASSUME NEW i \in P PROVE Place(P, i) \in 1..Cardinality(P) /\ Elements(s, P)[Place(P, i)] = s[i]
  <2>1. PICK k \in 1..Cardinality(P) : k = Place(P, i)
    BY <1>1, PlacesCount
  <2>2. PICK j \in P : j = Nth(P, k) /\ Place(P, j) = k
    BY <1>1, NthIs
  <2>3. i = j
    <3>1. \A a, b \in P : a < b <=> Place(P, a) < Place(P, b)
      BY <1>1, PlacesCount
    <3>2. i \in Int /\ j \in Int /\ Place(P, i) \in Int /\ Place(P, j) \in Int
      BY <1>1, <2>1, <2>2
    <3>3. ~(i < j) /\ ~(j < i)
      BY <2>1, <2>2, <3>1, <3>2
    <3>4. QED
      BY <3>2, <3>3
  <2>4. Elements(s, P)[k] = s[Nth(P, k)]
    BY DEF Elements
  <2>5. QED
    BY <2>1, <2>2, <2>3, <2>4
<1>6. \A k \in 1..Cardinality(P) : \E i \in P : Place(P, i) = k
  BY <1>1, PlacesCount
<1>7. DOMAIN Elements(s, P) = 1..Cardinality(P)
  BY <1>3
<1>8. QED
  BY <1>1, <1>4, <1>5, <1>6, <1>7

LEMMA WholeElements == ASSUME NEW A, NEW s \in Seq(A) PROVE Elements(s, DOMAIN s) = s
<1>1. Len(s) \in Nat /\ DOMAIN s = 1..Len(s) /\ s = [k \in 1..Len(s) |-> s[k]]
  OBVIOUS
<1>0. \A n \in Nat : IsFiniteSet(1..n) /\ Cardinality(1..n) = n
  BY FS_Interval
<1>2. IsFiniteSet(1..Len(s)) /\ Cardinality(1..Len(s)) = Len(s)
  BY <1>0, <1>1
<1>3. \A i \in 1..Len(s) : Place(1..Len(s), i) = i
  <2>1. SUFFICES ASSUME NEW i \in 1..Len(s) PROVE Place(1..Len(s), i) = i
    OBVIOUS
  <2>2. {j \in 1..Len(s) : j <= i} = 1..i
    BY <1>1
  <2>3. Cardinality(1..i) = i
    BY <1>0
  <2>4. QED
    BY <2>2, <2>3 DEF Place
<1>4. \A k \in 1..Len(s) : Nth(1..Len(s), k) = k
  <2>1. SUFFICES ASSUME NEW k \in 1..Len(s) PROVE Nth(1..Len(s), k) = k
    OBVIOUS
  <2>2. Nth(1..Len(s), k) \in 1..Len(s) /\ Place(1..Len(s), Nth(1..Len(s), k)) = k
    BY <1>1, <1>2, NthIs
  <2>3. QED
    BY <1>3, <2>2
<1>5. QED
  BY <1>1, <1>2, <1>4 DEF Elements

\* What is kept of a sequence is in its order.
LEMMA ElementsKeepOrder ==
  ASSUME NEW A, NEW s \in Seq(A), NEW P \in SUBSET DOMAIN s
  PROVE  /\ Elements(s, P) \in Seq(A)
         /\ \A k \in DOMAIN Elements(s, P) : \E i \in P : Place(P, i) = k /\ Elements(s, P)[k] = s[i]
         /\ \A i, j \in P : Place(P, i) <= Place(P, j) => i <= j
         /\ \A i, j \in P : i <= j => Place(P, i) <= Place(P, j)
<1>1. P \in SUBSET Nat /\ IsFiniteSet(P)
  BY ElementsAre
<1>2. \A i \in P : i \in Int /\ Place(P, i) \in Int
  BY <1>1, PlacesCount
<1>3. \A i, j \in P : i < j <=> Place(P, i) < Place(P, j)
  BY <1>1, PlacesCount
<1>4. QED
  BY <1>2, <1>3, ElementsAre

-----------------------------------------------------------------------------
(* Lists of directives                                                     *)

\* A list without blanks in which nothing is the same entry as something else,
\* unless Ruff counts repeated entries.
Reduced(d) ==
    /\ d.list \in Seq(ListTokens)
    /\ \A k \in DOMAIN d.list : d.list[k].kind # "blank"
    /\ \/ \A j, k \in DOMAIN d.list : Identity(d.list[j]) = Identity(d.list[k]) => j = k
       \/ d.tool = "ruff" /\ d.action \in {"disable", "enable"}

LEMMA ReducedIsRetained == ASSUME NEW d, Reduced(d) PROVE Retained(d) = d.list
<1>1. \A i \in DOMAIN d.list : i \in Tokens(d.list) /\ Survives(d, i)
  <2>1. SUFFICES ASSUME NEW i \in DOMAIN d.list PROVE i \in Tokens(d.list) /\ Survives(d, i)
    OBVIOUS
  <2>2. i \in Nat
    BY DEF Reduced
  <2>3. QED
    BY <2>2 DEF Reduced, Tokens, Survives, FirstOfIdentity
<1>2. {i \in Tokens(d.list) : Survives(d, i)} = DOMAIN d.list
  BY <1>1 DEF Tokens
<1>3. QED
  BY <1>2, WholeElements DEF Retained, Reduced

LEMMA RetainedIsReduced ==
  ASSUME NEW d, d.list \in Seq(ListTokens),
         NEW e, e.tool = d.tool, e.action = d.action, e.list = Retained(d)
  PROVE  Reduced(e)
<1>. DEFINE P == {i \in Tokens(d.list) : Survives(d, i)}
            R == Retained(d)
<1>1. P \in SUBSET DOMAIN d.list /\ \A i \in P : d.list[i].kind # "blank"
  BY DEF Tokens
<1>2. R = Elements(d.list, P)
  BY DEF Retained
<1>3. /\ R \in Seq(ListTokens)
      /\ \A k \in DOMAIN R : \E i \in P : Place(P, i) = k /\ R[k] = d.list[i]
  <2>. HIDE DEF P, R
  <2>1. QED
    BY <1>1, <1>2, ElementsKeepOrder
<1>4. ASSUME ~(d.tool = "ruff" /\ d.action \in {"disable", "enable"}),
             NEW j \in DOMAIN R, NEW k \in DOMAIN R, Identity(R[j]) = Identity(R[k])
      PROVE  j = k
  <2>1. PICK p \in P : Place(P, p) = j /\ R[j] = d.list[p]
    BY <1>3
  <2>2. PICK q \in P : Place(P, q) = k /\ R[k] = d.list[q]
    BY <1>3
  <2>3. p <= q /\ q <= p
    BY <1>4, <2>1, <2>2 DEF Survives, FirstOfIdentity
  <2>4. p \in Int /\ q \in Int
    BY <1>1
  <2>5. p = q
    BY <2>3, <2>4
  <2>6. QED
    BY <2>1, <2>2, <2>5
<1>5. \A k \in DOMAIN R : R[k].kind # "blank"
  BY <1>1, <1>3
<1>. HIDE DEF P, R
<1>6. QED
  BY <1>3, <1>4, <1>5 DEF Reduced, R

\* Parts of a reduced list are reduced.
LEMMA PartsAreReduced ==
  ASSUME NEW d, Reduced(d), NEW K \in SUBSET DOMAIN d.list,
         NEW e, e.tool = d.tool, e.action = d.action, e.list = Elements(d.list, K)
  PROVE  Reduced(e)
<1>1. /\ e.list \in Seq(ListTokens)
      /\ \A k \in DOMAIN e.list : \E i \in K : Place(K, i) = k /\ e.list[k] = d.list[i]
  BY ElementsKeepOrder DEF Reduced
<1>2. ASSUME NEW j \in DOMAIN e.list, NEW k \in DOMAIN e.list, Identity(e.list[j]) = Identity(e.list[k]),
             \A p, q \in DOMAIN d.list : Identity(d.list[p]) = Identity(d.list[q]) => p = q
      PROVE  j = k
  <2>1. PICK p \in K : Place(K, p) = j /\ e.list[j] = d.list[p]
    BY <1>1
  <2>2. PICK q \in K : Place(K, q) = k /\ e.list[k] = d.list[q]
    BY <1>1
  <2>3. QED
    BY <1>2, <2>1, <2>2
<1>3. \A k \in DOMAIN e.list : e.list[k].kind # "blank"
  BY <1>1 DEF Reduced
<1>4. QED
  BY <1>1, <1>2, <1>3 DEF Reduced

-----------------------------------------------------------------------------
(* What a pass has accounted for                                           *)

Found(r) == {Finding(v) : v \in case.violations[r]}

Checked == {Order[i] : i \in {j \in DOMAIN Order : pc = "check" => j < next}} \cap case.selected

UsedBy(r) == UsedKeys(Selectors(src), Found(r), CategoryOf[r], case.authorized[CategoryOf[r]])

ReportedBy(r) == Unsuppressed(Selectors(src), Found(r), CategoryOf[r], case.authorized[CategoryOf[r]])

\* Without errors, a pass has used and found what the rules checked so far
\* use and report, and audits the rest.
PassIInv ==
    /\ case \in Cases /\ next \in Nat \ {0} /\ pc \in {"check", "fix", "done"}
    /\ errors = {} =>
         /\ \A r \in Checked : \A v \in case.violations[r] : v.rule = r
         /\ used = UNION {UsedBy(r) : r \in Checked}
         /\ findings = UNION {ReportedBy(r) : r \in Checked}
    /\ pc # "check" =>
         audited = IF Audit \in case.selected
                   THEN AuditFindings(Unused(Selectors(src), used, case.selected \ {Audit}))
                   ELSE {}

LEMMA PassInitIInv == ASSUME PassInit PROVE PassIInv
<1>1. Checked = {}
  <2>1. \A j \in DOMAIN Order : ~(j < 1)
    BY SuppressedCheckAssumption
  <2>2. QED
    BY <2>1 DEF Checked, PassInit
<1>2. QED
  BY <1>1 DEF PassInit, PassIInv

LEMMA CheckRuleKeeps == ASSUME PassIInv, CheckRule PROVE PassIInv'
<1>1. Checked' = Checked \cup {rule}
  <2>1. \A j \in DOMAIN Order : j < next + 1 <=> j < next \/ j = next
    BY SuppressedCheckAssumption DEF PassIInv
  <2>2. {j \in DOMAIN Order : j < next + 1} = {j \in DOMAIN Order : j < next} \cup {next}
    BY <2>1 DEF CheckRule, AtRule
  <2>3. QED
    BY <2>2 DEF CheckRule, AtRule, NextRule, Checked, rule
<1>2. \A v \in Reported : v.rule = rule
  BY DEF CheckRule, Valid
<1>3. used' = used \cup UsedBy(rule) /\ findings' = findings \cup ReportedBy(rule)
  BY DEF CheckRule, UsedBy, ReportedBy, Found, ReportedFindings, Reported, Active, Authorized
<1>4. /\ case' = case /\ pc' = pc /\ errors' = errors /\ audited' = audited
      /\ next' \in Nat \ {0} /\ pc = "check"
  BY DEF CheckRule, NextRule, AtRule, PassIInv
<1>5. \A r : UsedBy(r)' = UsedBy(r) /\ ReportedBy(r)' = ReportedBy(r)
  BY <1>4 DEF UsedBy, ReportedBy, Found, src
<1>6. errors' = {} =>
        /\ \A r \in Checked' : \A v \in case'.violations[r] : v.rule = r
        /\ used' = UNION {UsedBy(r)' : r \in Checked'}
        /\ findings' = UNION {ReportedBy(r)' : r \in Checked'}
  <2>1. SUFFICES ASSUME errors = {}
                 PROVE  /\ \A r \in Checked' : \A v \in case.violations[r] : v.rule = r
                        /\ used' = UNION {UsedBy(r) : r \in Checked'}
                        /\ findings' = UNION {ReportedBy(r) : r \in Checked'}
    BY <1>4, <1>5
  <2>2. QED
    BY <1>1, <1>2, <1>3, <2>1 DEF PassIInv, Reported
<1>7. QED
  BY <1>4, <1>6 DEF PassIInv

LEMMA AuditKeeps == ASSUME PassIInv, AuditSuppressions PROVE PassIInv'
<1>1. /\ case' = case /\ errors' = errors /\ used' = used /\ findings' = findings
      /\ pc' \in {"fix", "done"} /\ next' \in Nat \ {0} /\ pc = "check" /\ next \notin DOMAIN Order
  BY DEF AuditSuppressions
<1>2. Checked' = Checked
  <2>1. \A j \in DOMAIN Order : j < next
    BY <1>1, SuppressedCheckAssumption DEF PassIInv
  <2>2. {j \in DOMAIN Order : pc' = "check" => j < next'} = {j \in DOMAIN Order : pc = "check" => j < next}
    BY <1>1, <2>1
  <2>3. QED
    BY <1>1, <2>2 DEF Checked
<1>3. \A r : UsedBy(r)' = UsedBy(r) /\ ReportedBy(r)' = ReportedBy(r)
  BY <1>1 DEF UsedBy, ReportedBy, Found, src
<1>4. audited' = IF Audit \in case'.selected
                 THEN AuditFindings(Unused(Selectors(src), used, case.selected \ {Audit}))'
                 ELSE {}
  BY <1>1 DEF AuditSuppressions, AuditFindings, src
<1>5. QED
  BY <1>1, <1>2, <1>3, <1>4 DEF PassIInv

LEMMA OthersKeep ==
  ASSUME PassIInv, SkipUnselected \/ CheckFails \/ FixNothing \/ FixRefused \/ FixApplied \/ NothingFixed
                     \/ UNCHANGED passVars
  PROVE  PassIInv'
<1>1. /\ case' = case /\ used' = used /\ findings' = findings /\ audited' = audited
      /\ errors \subseteq errors' /\ next' \in Nat \ {0}
      /\ pc' \in {pc, "done"} /\ (pc = "check" => pc' = "check")
  BY DEF SkipUnselected, CheckFails, FixNothing, FixRefused, FixApplied, NothingFixed, passVars,
         NextRule, AtRule, PassIInv
<1>2. errors' = {} => Checked' = Checked
  <2>1. CASE pc # "check"
    BY <1>1, <2>1 DEF Checked, PassIInv
  <2>2. CASE pc = "check" /\ next' = next
    BY <1>1, <2>2 DEF Checked
  <2>3. CASE SkipUnselected /\ pc = "check"
    <3>1. \A j \in DOMAIN Order : j < next + 1 <=> j < next \/ j = next
      BY SuppressedCheckAssumption DEF PassIInv
    <3>2. {j \in DOMAIN Order : j < next + 1} = {j \in DOMAIN Order : j < next} \cup {next}
      BY <2>3, <3>1 DEF SkipUnselected
    <3>3. QED
      BY <2>3, <3>2 DEF SkipUnselected, NextRule, Checked, rule
  <2>4. CASE CheckFails
    BY <2>4 DEF CheckFails
  <2>5. QED
    BY <2>1, <2>2, <2>3, <2>4 DEF FixNothing, FixRefused, FixApplied, NothingFixed, AtRule, passVars
<1>3. \A r : UsedBy(r)' = UsedBy(r) /\ ReportedBy(r)' = ReportedBy(r)
  BY <1>1 DEF UsedBy, ReportedBy, Found, src
<1>4. AuditFindings(Unused(Selectors(src), used, case.selected \ {Audit}))'
        = AuditFindings(Unused(Selectors(src), used, case.selected \ {Audit}))
  BY <1>1 DEF AuditFindings, src
<1>5. errors' = {} => errors = {}
  BY <1>1
<1>6. QED
  BY <1>1, <1>2, <1>3, <1>4, <1>5 DEF PassIInv

LEMMA PassInvariant == PassSpec => []PassIInv
<1>1. PassIInv /\ [PassNext]_passVars => PassIInv'
  BY CheckRuleKeeps, AuditKeeps, OthersKeep DEF PassNext
<1>2. QED
  BY <1>1, PassInitIInv, PTL DEF PassSpec

-----------------------------------------------------------------------------
(* Selectors                                                               *)

\* Selectors of one line that are told apart by their position.
Distinct(selectors, l) ==
    \A s, t \in selectors : s.line = l /\ (s.position = t.position => s = t)

LEMMA SelectorParts ==
  ASSUME NEW line, NEW position, NEW codes, NEW lines, NEW ranges, NEW self
  PROVE  LET s == Selector(line, position, codes, lines)
             i == InvalidSelector(line, position)
             r == [s EXCEPT !.ranges = ranges]
             b == [s EXCEPT !.ranges = ranges, !.self = self]
             a == [s EXCEPT !.audit = FALSE]
         IN  /\ s.line = line /\ s.position = position
             /\ i.line = line /\ i.position = position
             /\ r.line = line /\ r.position = position
             /\ b.line = line /\ b.position = position
             /\ [r EXCEPT !.audit = FALSE].line = line
             /\ [r EXCEPT !.audit = FALSE].position = position
BY DEF Selector, InvalidSelector

LEMMA ListDistinct ==
  ASSUME NEW list, NEW l, NEW covered,
         \A k \in DOMAIN list : covered[k].line = l /\ covered[k].position = k
  PROVE  Distinct(ListSelectors(list, l, covered), l)
<1>1. CASE list = <<>>
  BY <1>1, SelectorParts DEF ListSelectors, Distinct
<1>2. CASE list # <<>>
  <2>. DEFINE one(k) == IF Codes(list[k]) = {} THEN InvalidSelector(l, k) ELSE covered[k]
  <2>1. \A k \in DOMAIN list : one(k).line = l /\ one(k).position = k
    BY SelectorParts
  <2>2. ListSelectors(list, l, covered) = {one(k) : k \in DOMAIN list}
    BY <1>2 DEF ListSelectors
  <2>. HIDE DEF one
  <2>3. QED
    BY <2>1, <2>2 DEF Distinct
<1>3. QED
  BY <1>1, <1>2

LEMMA LineDistinct == ASSUME NEW s, NEW l \in Commented(s) PROVE Distinct(SelectorsOn(s, l), l)
<1>1. Distinct(InlineSelectors(s, l), l)
  <2>. DEFINE list == Retained(s.comments[l])
              covered == [k \in DOMAIN list |-> [Selector(l, k, Codes(list[k]), {l}) EXCEPT
                                                    !.ranges = InlineRanges(s, l)]]
  <2>1. \A k \in DOMAIN list : covered[k].line = l /\ covered[k].position = k
    BY DEF Selector
  <2>2. InlineSelectors(s, l) = ListSelectors(list, l, covered)
    BY DEF InlineSelectors
  <2>. HIDE DEF list, covered
  <2>3. QED
    BY <2>1, <2>2, ListDistinct
<1>2. Distinct(LocalSelectors(s, l), l)
  <2>. DEFINE list == Retained(s.comments[l])
              target == TargetLine(s, l)
              onComments(token) == \E r \in Codes(token) : CategoryOf[r] = CommentCategory
              covered == [k \in DOMAIN list |->
                            [Selector(l, k, Codes(list[k]),
                                      IF onComments(list[k]) THEN CommentTarget(s, target) ELSE {})
                               EXCEPT !.ranges = RangesFrom(s, target), !.self = {l}]]
  <2>1. \A k \in DOMAIN list : covered[k].line = l /\ covered[k].position = k
    BY DEF Selector
  <2>2. LocalSelectors(s, l) = ListSelectors(list, l, covered)
    BY DEF LocalSelectors
  <2>. HIDE DEF list, covered
  <2>3. QED
    BY <2>1, <2>2, ListDistinct
<1>3. Distinct(NoqaSelectors(s, l), l)
  <2>. DEFINE list == s.comments[l].list
              covering(k, codes) == [Selector(l, k, codes, {l}) EXCEPT !.ranges = InlineRanges(s, l)]
              places == {j \in NoqaPositions(list) : NoqaCodes(list[j]) # {}}
              entry(k) == covering(k, NoqaCodes(list[k]))
              blanket == [covering(0, CodesOf[AllTag]) EXCEPT !.audit = FALSE]
  <2>1. NoqaSelectors(s, l) \in {{blanket}, {entry(k) : k \in places}}
    BY DEF NoqaSelectors
  <2>2. \A k : entry(k).line = l /\ entry(k).position = k
    BY DEF Selector
  <2>3. blanket.line = l
    BY DEF Selector
  <2>. HIDE DEF entry, places, blanket
  <2>4. Distinct({blanket}, l)
    BY <2>3 DEF Distinct
  <2>5. Distinct({entry(k) : k \in places}, l)
    BY <2>2 DEF Distinct
  <2>6. QED
    BY <2>1, <2>4, <2>5
<1>4. Distinct(FileSelectors(s, l), l)
  <2>. DEFINE comment == s.comments[l]
              list == Retained(comment)
              all(k, codes) == Selector(l, k, codes, LinesOf(s))
              covered == [k \in DOMAIN list |-> all(k, Codes(list[k]))]
              entry(k) == IF NoqaCodes(comment.list[k]) = {} THEN InvalidSelector(l, k)
                          ELSE all(k, NoqaCodes(comment.list[k]))
  <2>1. FileSelectors(s, l) \in {ListSelectors(list, l, covered), {all(0, CodesOf[AllTag])},
                                {InvalidSelector(l, 0)}, {entry(k) : k \in NoqaPositions(comment.list)}}
    BY DEF FileSelectors
  <2>2. \A k \in DOMAIN list : covered[k].line = l /\ covered[k].position = k
    BY DEF Selector
  <2>3. Distinct(ListSelectors(list, l, covered), l)
    <3>. HIDE DEF list, covered
    <3>1. QED
      BY <2>2, ListDistinct
  <2>4. all(0, CodesOf[AllTag]).line = l /\ InvalidSelector(l, 0).line = l
    BY DEF Selector, InvalidSelector
  <2>5. \A k : entry(k).line = l /\ entry(k).position = k
    BY DEF Selector, InvalidSelector
  <2>. HIDE DEF all, covered, entry, list
  <2>6. QED
    BY <2>1, <2>3, <2>4, <2>5 DEF Distinct
<1>5. SelectorsOn(s, l) \in {InlineSelectors(s, l), NoqaSelectors(s, l), FileSelectors(s, l), LocalSelectors(s, l), {}}
  BY DEF SelectorsOn
<1>6. QED
  BY <1>1, <1>2, <1>3, <1>4, <1>5 DEF Distinct

\* A key stands for one selector of a source.
LEMMA KeysAreDistinct ==
  ASSUME NEW s, NEW t \in Selectors(s), NEW u \in Selectors(s), Key(t) = Key(u)
  PROVE  t = u
<1>1. PICK l \in Commented(s) : t \in SelectorsOn(s, l)
  BY DEF Selectors
<1>2. PICK m \in Commented(s) : u \in SelectorsOn(s, m)
  BY DEF Selectors
<1>3. t.line = u.line /\ t.position = u.position
  BY DEF Key
<1>4. l = m
  BY <1>1, <1>2, <1>3, LineDistinct DEF Distinct
<1>5. QED
  BY <1>1, <1>2, <1>3, <1>4, LineDistinct DEF Distinct

-----------------------------------------------------------------------------
(* Deleting entries                                                        *)

\* Selectors that suppress the same.
SameReach(s, t) ==
    /\ s.valid = t.valid /\ s.codes = t.codes /\ s.lines = t.lines
    /\ s.ranges = t.ranges /\ s.self = t.self

LEMMA SameReachSuppresses ==
  ASSUME NEW s, NEW t, SameReach(s, t), NEW f, NEW active, NEW authorized
  PROVE  Suppresses(s, f, active, authorized) <=> Suppresses(t, f, active, authorized)
BY DEF SameReach, Suppresses, CoverageOptions

\* What suppresses something on a line without some of its selectors is
\* what did before, without these.
KeepsReach(before, after, gone) ==
    /\ \A t \in after : t.valid => \E s \in before : SameReach(s, t)
    /\ \A s \in before \ gone : s.valid => \E t \in after : SameReach(s, t)

\* Of a list with brackets.
LEMMA ListKeepsReach ==
  ASSUME NEW A, NEW list \in Seq(A), NEW K \in SUBSET DOMAIN list, NEW l,
         NEW before, NEW after, NEW gone,
         \A k \in DOMAIN list : before[k].line = l /\ before[k].position = k,
         \A k \in DOMAIN list, j \in DOMAIN Elements(list, K) :
            list[k] = Elements(list, K)[j] => SameReach(before[k], after[j]),
         \A s \in ListSelectors(list, l, before) : s.position \in DOMAIN list \ K => s \in gone
  PROVE  KeepsReach(ListSelectors(list, l, before), ListSelectors(Elements(list, K), l, after), gone)
<1>. DEFINE rest == Elements(list, K)
            one(k) == IF Codes(list[k]) = {} THEN InvalidSelector(l, k) ELSE before[k]
            other(j) == IF Codes(rest[j]) = {} THEN InvalidSelector(l, j) ELSE after[j]
<1>1. /\ \A j \in DOMAIN rest : \E k \in K : rest[j] = list[k]
      /\ \A k \in K : \E j \in DOMAIN rest : rest[j] = list[k]
  BY ElementsAre
<1>2. \A k : InvalidSelector(l, k).valid = FALSE /\ InvalidSelector(l, k).position = k
  BY DEF InvalidSelector, Selector
<1>3. ListSelectors(list, l, before) = IF list = <<>> THEN {InvalidSelector(l, 0)} ELSE {one(k) : k \in DOMAIN list}
  BY DEF ListSelectors
<1>4. ListSelectors(rest, l, after) = IF rest = <<>> THEN {InvalidSelector(l, 0)} ELSE {other(j) : j \in DOMAIN rest}
  BY DEF ListSelectors
<1>5. \A k \in DOMAIN list : one(k).position = k
  BY <1>2
<1>6. \A k \in DOMAIN list, j \in DOMAIN rest :
         rest[j] = list[k] => (one(k).valid => SameReach(one(k), other(j)))
                                /\ (other(j).valid => SameReach(one(k), other(j)))
  BY <1>2
<1>7. DOMAIN list # {} <=> list # <<>>
  OBVIOUS
<1>8. rest \in Seq(A)
  BY ElementsAre
<1>9. DOMAIN rest # {} <=> rest # <<>>
  BY <1>8
<1>. HIDE DEF one, other, rest
<1>10. ASSUME NEW t \in ListSelectors(rest, l, after), t.valid
       PROVE  \E s \in ListSelectors(list, l, before) : SameReach(s, t)
  <2>1. PICK j \in DOMAIN rest : t = other(j)
    BY <1>2, <1>4, <1>10
  <2>2. PICK k \in K : rest[j] = list[k]
    BY <1>1
  <2>3. one(k) \in ListSelectors(list, l, before) /\ k \in DOMAIN list
    BY <1>3, <1>7
  <2>4. QED
    BY <1>6, <1>10, <2>1, <2>2, <2>3
<1>11. ASSUME NEW s \in ListSelectors(list, l, before) \ gone, s.valid
       PROVE  \E t \in ListSelectors(rest, l, after) : SameReach(s, t)
  <2>1. PICK k \in DOMAIN list : s = one(k)
    BY <1>2, <1>3, <1>11
  <2>2. k \in K
    BY <1>5, <2>1
  <2>3. PICK j \in DOMAIN rest : rest[j] = list[k]
    BY <1>1, <2>2
  <2>4. other(j) \in ListSelectors(rest, l, after)
    BY <1>4, <1>9
  <2>5. QED
    BY <1>6, <1>11, <2>1, <2>3, <2>4
<1>12. QED
  BY <1>10, <1>11 DEF KeepsReach, rest

\* Of a noqa list, where a spelling counts once.
LEMMA NoqaKeepsReach ==
  ASSUME NEW list \in Seq(ListTokens), NEW K \in SUBSET DOMAIN list,
         NEW one, NEW other, NEW gone,
         \A k \in DOMAIN list, j \in DOMAIN Elements(list, K) :
            NoqaCodes(list[k]) = NoqaCodes(Elements(list, K)[j]) /\ NoqaCodes(list[k]) # {}
              => SameReach(one[k], other[j]),
         \A k \in DOMAIN list : NoqaCodes(list[k]) = {} => ~one[k].valid,
         \A j \in DOMAIN Elements(list, K) : NoqaCodes(Elements(list, K)[j]) = {} => ~other[j].valid,
         \A k \in NoqaPositions(list) : k \notin K => one[k] \in gone
  PROVE  /\ \A j \in NoqaPositions(Elements(list, K)) : other[j].valid =>
               \E k \in NoqaPositions(list) : NoqaCodes(list[k]) # {} /\ SameReach(one[k], other[j])
         /\ \A k \in NoqaPositions(list) : one[k].valid /\ one[k] \notin gone =>
               \E j \in NoqaPositions(Elements(list, K)) :
                  NoqaCodes(Elements(list, K)[j]) # {} /\ SameReach(one[k], other[j])
<1>. DEFINE rest == Elements(list, K)
            same(i, j) == <<list[j].kind, list[j].of>> = <<list[i].kind, list[i].of>>
<1>1. /\ rest \in Seq(ListTokens)
      /\ \A k \in DOMAIN rest : \E i \in K : Place(K, i) = k /\ rest[k] = list[i]
      /\ \A i, j \in K : i <= j => Place(K, i) <= Place(K, j)
  BY ElementsKeepOrder
<1>2. \A i \in K : Place(K, i) \in DOMAIN rest /\ rest[Place(K, i)] = list[i]
  BY ElementsAre
<1>3. \A s, t : s.kind = t.kind /\ s.of = t.of => NoqaCodes(s) = NoqaCodes(t)
  BY DEF NoqaCodes, Codes
<1>. HIDE DEF rest
<1>4. ASSUME NEW j \in NoqaPositions(rest), other[j].valid
      PROVE  \E k \in NoqaPositions(list) : NoqaCodes(list[k]) # {} /\ SameReach(one[k], other[j])
  <2>1. PICK i \in K : rest[j] = list[i]
    BY <1>1 DEF NoqaPositions, Tokens
  <2>2. i \in Tokens(list)
    BY <2>1 DEF NoqaPositions, Tokens
  <2>3. PICK k \in {m \in Tokens(list) : same(i, m)} : \A m \in {n \in Tokens(list) : same(i, n)} : k <= m
    <3>1. {m \in Tokens(list) : same(i, m)} \in SUBSET Nat /\ i \in {m \in Tokens(list) : same(i, m)}
      BY <2>2 DEF Tokens
    <3>2. QED
      BY <3>1, LeastNat
  <2>4. k \in NoqaPositions(list) /\ list[k].kind = rest[j].kind /\ list[k].of = rest[j].of
    BY <2>1, <2>3 DEF NoqaPositions
  <2>5. NoqaCodes(list[k]) = NoqaCodes(rest[j])
    BY <1>3, <2>4
  <2>6. k \in DOMAIN list /\ j \in DOMAIN rest
    BY <2>3 DEF Tokens, NoqaPositions
  <2>7. NoqaCodes(rest[j]) # {}
    BY <1>4, <2>6 DEF rest
  <2>8. QED
    BY <2>4, <2>5, <2>6, <2>7 DEF rest
<1>5. ASSUME NEW k \in NoqaPositions(list), one[k].valid, one[k] \notin gone
      PROVE  \E j \in NoqaPositions(rest) : NoqaCodes(rest[j]) # {} /\ SameReach(one[k], other[j])
  <2>1. k \in K /\ k \in Tokens(list)
    BY <1>5 DEF NoqaPositions
  <2>. DEFINE j == Place(K, k)
  <2>2. j \in DOMAIN rest /\ rest[j] = list[k]
    BY <1>2, <2>1
  <2>3. ASSUME NEW m \in Tokens(rest), <<rest[m].kind, rest[m].of>> = <<rest[j].kind, rest[j].of>>
        PROVE  j <= m
    <3>1. PICK i \in K : Place(K, i) = m /\ rest[m] = list[i]
      BY <1>1 DEF Tokens
    <3>2. i \in Tokens(list) /\ <<list[i].kind, list[i].of>> = <<list[k].kind, list[k].of>>
      BY <2>2, <2>3, <3>1 DEF Tokens
    <3>3. k <= i
      BY <3>2 DEF NoqaPositions
    <3>4. QED
      BY <1>1, <2>1, <3>1, <3>3
  <2>4. j \in NoqaPositions(rest)
    BY <2>1, <2>2, <2>3 DEF NoqaPositions, Tokens
  <2>5. k \in DOMAIN list /\ NoqaCodes(list[k]) # {}
    BY <1>5 DEF NoqaPositions, Tokens
  <2>6. QED
    BY <2>2, <2>4, <2>5 DEF rest
<1>6. QED
  BY <1>4, <1>5 DEF rest

-----------------------------------------------------------------------------
(* Sources whose comments differ in their lists only                       *)

SameButList(c, d) ==
    /\ d.placement = c.placement /\ d.indent = c.indent /\ d.form = c.form
    /\ d.spaced = c.spaced /\ d.tool = c.tool /\ d.action = c.action

SameShape(s, n) ==
    /\ n.strings = s.strings /\ LinesOf(n) = LinesOf(s) /\ Len(n.comments) = Len(s.comments)
    /\ \A l \in LinesOf(s) :
         /\ n.comments[l] = NoComment <=> s.comments[l] = NoComment
         /\ s.comments[l] # NoComment => SameButList(s.comments[l], n.comments[l])

LEMMA SameKindOfComment ==
  ASSUME NEW c, NEW d, SameButList(c, d)
  PROVE  /\ OnOwnLine(d) <=> OnOwnLine(c)
         /\ IsInline(d) <=> IsInline(c)
         /\ IsNoqa(d) <=> IsNoqa(c)
         /\ IsFileWide(d) <=> IsFileWide(c)
         /\ InRun(d) <=> InRun(c)
         /\ \A tool, action : HasForm(d, tool, action) <=> HasForm(c, tool, action)
BY DEF SameButList, OnOwnLine, IsInline, IsNoqa, IsFileWide, InRun, HasForm

\* What directives cover depends on the shape of the source only.
LEMMA ShapeIsCoverage ==
  ASSUME NEW s, NEW n, SameShape(s, n)
  PROVE  /\ Commented(n) = Commented(s) /\ LocalLines(n) = LocalLines(s)
         /\ \A l \in Commented(s) : InlineRanges(n, l) = InlineRanges(s, l)
         /\ \A l : TargetLine(n, l) = TargetLine(s, l)
         /\ \A t : RangesFrom(n, t) = RangesFrom(s, t) /\ CommentTarget(n, t) = CommentTarget(s, t)
<1>1. Commented(n) = Commented(s)
  BY DEF SameShape, Commented
<1>2. \A l \in Commented(s) : SameButList(s.comments[l], n.comments[l])
  BY DEF SameShape, Commented
<1>3. LocalLines(n) = LocalLines(s)
  BY <1>1, <1>2, SameKindOfComment DEF LocalLines
<1>4. \A l \in Commented(s) : InlineRanges(n, l) = InlineRanges(s, l)
  BY <1>2, SameKindOfComment DEF InlineRanges, SameShape
<1>5. \A l : TargetLine(n, l) = TargetLine(s, l)
  BY <1>3 DEF TargetLine, SameShape
<1>6. \A t : RangesFrom(n, t) = RangesFrom(s, t)
  BY DEF RangesFrom, SameShape
<1>7. ASSUME NEW t PROVE CommentTarget(n, t) = CommentTarget(s, t)
  <2>1. CASE t \notin Commented(s)
    BY <1>1, <2>1 DEF CommentTarget
  <2>2. CASE t \in Commented(s)
    <3>1. \A k : ContinuesRun(n, t, k) <=> ContinuesRun(s, t, k)
      BY <1>1, <1>2, <2>2, SameKindOfComment DEF ContinuesRun, SameButList
    <3>2. InRun(n.comments[t]) <=> InRun(s.comments[t])
      BY <1>2, <2>2, SameKindOfComment
    <3>3. \A l : (l = t \/ InRun(n.comments[t])) /\ (\A k \in (t + 1)..l : ContinuesRun(n, t, k))
                 <=> (l = t \/ InRun(s.comments[t])) /\ (\A k \in (t + 1)..l : ContinuesRun(s, t, k))
      BY <3>1, <3>2
    <3>4. QED
      BY <1>1, <2>2, <3>3 DEF CommentTarget, SameShape
  <2>3. QED
    BY <2>1, <2>2
<1>8. QED
  BY <1>1, <1>3, <1>4, <1>5, <1>6, <1>7

\* A comment, and its list if it has brackets.
IsComment(c) == c \in Comments /\ (c.form = "bracket" => c.list # NoList)

LEMMA CommentsOf ==
  ASSUME NEW s, IsSource(s)
  PROVE  \A l \in Commented(s) : l \in Nat /\ s.comments[l] # NoComment /\ IsComment(s.comments[l])
<1>1. s.comments \in Seq(Comments \cup {NoComment}) /\ LinesOf(s) = DOMAIN s.comments
  BY DEF IsSource, LinesOf
<1>2. \A l \in LinesOf(s) : l \in Nat /\ s.comments[l] \in Comments \cup {NoComment}
  BY <1>1
<1>3. QED
  BY <1>1, <1>2 DEF Commented, IsComment, IsSource

LEMMA ListOf ==
  ASSUME NEW c, IsComment(c)
  PROVE  /\ c.list = NoList \/ c.list \in Seq(ListTokens)
         /\ c.form = "bracket" => c.list \in Seq(ListTokens) /\ Reduced([c EXCEPT !.list = Retained(c)])
<1>1. c \in Comments /\ (c.list = NoList \/ c.list \in Seq(ListTokens))
  BY DEF IsComment, Comments
<1>2. ASSUME NEW list
      PROVE  LET e == [c EXCEPT !.list = list] IN e.list = list /\ e.tool = c.tool /\ e.action = c.action
  BY <1>1 DEF Comments
<1>3. CASE c.form = "bracket"
  <2>1. c.list \in Seq(ListTokens)
    BY <1>1, <1>3 DEF IsComment
  <2>2. QED
    BY <1>1, <1>2, <2>1, RetainedIsReduced
<1>4. QED
  BY <1>1, <1>3

LEMMA EntriesDeleted ==
  ASSUME NEW c, IsComment(c), NEW gone
  PROVE  LET e == WithoutEntries(c, gone)
         IN  /\ e # NoComment /\ SameButList(c, e) /\ Entries(c) \in Seq(ListTokens)
             /\ gone = {} => e = c
             /\ gone # {} => e.list = Elements(Entries(c), DOMAIN Entries(c) \ {s.position : s \in gone})
<1>1. c \in [placement : {"standalone", "trailing"}, indent : Nat, form : Forms, spaced : BOOLEAN,
             tool : STRING, action : STRING, list : Seq(ListTokens) \cup {NoList}]
  BY DEF IsComment, Comments
<1>2. Entries(c) \in Seq(ListTokens)
  <2>1. CASE c.form = "bracket"
    <3>1. Reduced([c EXCEPT !.list = Retained(c)]) /\ [c EXCEPT !.list = Retained(c)].list = Retained(c)
      BY <1>1, <2>1, ListOf
    <3>2. QED
      BY <2>1, <3>1 DEF Entries, Reduced
  <2>2. CASE c.form # "bracket"
    <3>1. <<>> \in Seq(ListTokens)
      OBVIOUS
    <3>2. QED
      BY <2>2, <3>1, ListOf DEF Entries
  <2>3. QED
    BY <2>1, <2>2
<1>. DEFINE kept == DOMAIN Entries(c) \ {s.position : s \in gone}
            rest == Elements(Entries(c), kept)
            e == WithoutEntries(c, gone)
<1>3. rest \in Seq(ListTokens)
  <2>1. kept \in SUBSET DOMAIN Entries(c)
    OBVIOUS
  <2>. HIDE DEF kept
  <2>2. QED
    BY <1>2, <2>1, ElementsAre
<1>4. e = [c EXCEPT !.list = IF gone = {} THEN c.list ELSE rest]
  BY <1>1 DEF WithoutEntries
<1>. HIDE DEF rest, e
<1>5. e \in Comments /\ SameButList(c, e) /\ e.list = IF gone = {} THEN c.list ELSE rest
  BY <1>1, <1>3, <1>4 DEF Comments, SameButList
<1>6. gone = {} => e = c
  BY <1>1, <1>4
<1>7. e # NoComment
  BY <1>5, SuppressionsAssumption
<1>8. QED
  BY <1>2, <1>5, <1>6, <1>7 DEF e, rest

LEMMA WithoutShape ==
  ASSUME IsSource(src), NEW A
  PROVE  /\ SameShape(src, Without(A))
         /\ \A l \in Commented(src) :
              Without(A).comments[l] = WithoutEntries(src.comments[l], {s \in A : s.line = l})
<1>. DEFINE n == Without(A)
            new(l) == WithoutEntries(src.comments[l], {s \in A : s.line = l})
            comments == [l \in LinesOf(src) |-> IF src.comments[l] = NoComment THEN NoComment ELSE new(l)]
<1>1. n.comments = comments /\ n.strings = src.strings
  BY DEF Without, IsSource
<1>2. LinesOf(n) = LinesOf(src) /\ Len(n.comments) = Len(src.comments)
  <2>1. Len(src.comments) \in Nat
    BY DEF IsSource
  <2>2. Len(comments) = Len(src.comments)
    BY <2>1 DEF LinesOf
  <2>3. QED
    BY <1>1, <2>2 DEF LinesOf
<1>3. \A l \in LinesOf(src) : src.comments[l] # NoComment => IsComment(src.comments[l])
  BY CommentsOf DEF Commented
<1>4. ASSUME NEW l \in LinesOf(src), src.comments[l] # NoComment
      PROVE  new(l) # NoComment /\ SameButList(src.comments[l], new(l))
  BY <1>3, <1>4, EntriesDeleted
<1>5. \A l \in LinesOf(src) : n.comments[l] = IF src.comments[l] = NoComment THEN NoComment ELSE new(l)
  BY <1>1
<1>. HIDE DEF n, new, comments
<1>6. SameShape(src, n) /\ \A l \in Commented(src) : n.comments[l] = new(l)
  BY <1>1, <1>2, <1>4, <1>5 DEF SameShape, Commented
<1>7. QED
  BY <1>6 DEF n, new

LEMMA NothingKept == ASSUME NEW P PROVE Elements(<<>>, DOMAIN <<>> \ P) = <<>>
<1>1. DOMAIN <<>> \ P = {}
  OBVIOUS
<1>2. Cardinality({}) = 0
  BY FS_EmptySet
<1>3. QED
  BY <1>1, <1>2 DEF Elements

\* Two sources of the same shape, one line of which has lost entries.
Deleted(s, n, l, A) ==
    LET c == s.comments[l]
        kept == DOMAIN Entries(c) \ {g.position : g \in {t \in A : t.line = l}}
    IN  /\ SameShape(s, n) /\ IsSource(s) /\ l \in Commented(s)
        /\ Entries(c) \in Seq(ListTokens)
        /\ n.comments[l].list = Elements(Entries(c), kept)
        /\ \A t \in SelectorsOn(s, l) : t.position \in DOMAIN Entries(c) \ kept => t \in A
        /\ \E g \in A : g \in SelectorsOn(s, l)

LEMMA BracketDeleted ==
  ASSUME NEW s, NEW n, NEW l, NEW A, Deleted(s, n, l, A), s.comments[l].form = "bracket"
  PROVE  LET list == Retained(s.comments[l])
             kept == DOMAIN list \ {g.position : g \in {t \in A : t.line = l}}
         IN  /\ list \in Seq(ListTokens) /\ Retained(n.comments[l]) = Elements(list, kept)
             /\ \A t \in SelectorsOn(s, l) : t.position \in DOMAIN list \ kept => t \in A
<1>. DEFINE c == s.comments[l]
            d == [c EXCEPT !.list = Retained(c)]
            e == n.comments[l]
            kept == DOMAIN Entries(c) \ {g.position : g \in {t \in A : t.line = l}}
<1>1. IsComment(c) /\ SameButList(c, e)
  BY CommentsOf DEF Deleted, SameShape, Commented
<1>2. Reduced(d) /\ d.list = Retained(c) /\ d.tool = c.tool /\ d.action = c.action
  <2>1. c \in [placement : {"standalone", "trailing"}, indent : Nat, form : Forms, spaced : BOOLEAN,
               tool : STRING, action : STRING, list : Seq(ListTokens) \cup {NoList}]
    BY <1>1 DEF IsComment, Comments
  <2>2. QED
    BY <1>1, <2>1, ListOf
<1>3. Entries(c) = Retained(c)
  BY DEF Entries
<1>4. e.list = Elements(Retained(c), kept) /\ kept \in SUBSET DOMAIN Retained(c)
  BY <1>3 DEF Deleted
<1>5. e.tool = d.tool /\ e.action = d.action
  BY <1>1, <1>2 DEF SameButList
<1>6. Retained(e) = e.list
  <2>. HIDE DEF d, e, kept
  <2>1. Reduced(e)
    BY <1>2, <1>4, <1>5, PartsAreReduced
  <2>2. QED
    BY <2>1, ReducedIsRetained
<1>7. QED
  BY <1>2, <1>3, <1>4, <1>6 DEF Deleted

LEMMA InlineDeleted ==
  ASSUME NEW s, NEW n, NEW l, NEW A, Deleted(s, n, l, A), s.comments[l].form = "bracket",
         SelectorsOn(s, l) = InlineSelectors(s, l)
  PROVE  KeepsReach(InlineSelectors(s, l), InlineSelectors(n, l), A)
<1>. DEFINE list == Retained(s.comments[l])
            kept == DOMAIN list \ {g.position : g \in {t \in A : t.line = l}}
            rest == Elements(list, kept)
            before == [k \in DOMAIN list |-> [Selector(l, k, Codes(list[k]), {l}) EXCEPT
                                                 !.ranges = InlineRanges(s, l)]]
            after == [k \in DOMAIN rest |-> [Selector(l, k, Codes(rest[k]), {l}) EXCEPT
                                                !.ranges = InlineRanges(n, l)]]
<1>0. /\ list \in Seq(ListTokens) /\ Retained(n.comments[l]) = rest
      /\ \A t \in SelectorsOn(s, l) : t.position \in DOMAIN list \ kept => t \in A
  BY BracketDeleted, Zenon
<1>1. /\ list \in Seq(ListTokens) /\ Retained(n.comments[l]) = rest
      /\ \A t \in InlineSelectors(s, l) : t.position \in DOMAIN list \ kept => t \in A
  BY <1>0, Zenon
<1>2. kept \in SUBSET DOMAIN list
  OBVIOUS
<1>3. InlineRanges(n, l) = InlineRanges(s, l)
  BY ShapeIsCoverage DEF Deleted
<1>4. InlineSelectors(s, l) = ListSelectors(list, l, before)
  BY DEF InlineSelectors
<1>5. InlineSelectors(n, l) = ListSelectors(rest, l, after)
  BY <1>1 DEF InlineSelectors
<1>6. \A k \in DOMAIN list : before[k].line = l /\ before[k].position = k
  BY DEF Selector
<1>7. ASSUME NEW k \in DOMAIN list, NEW j \in DOMAIN rest, list[k] = rest[j]
      PROVE  SameReach(before[k], after[j])
  BY <1>3, <1>7 DEF SameReach, Selector
<1>. HIDE DEF list, kept, before, after
<1>8. QED
  BY <1>1, <1>2, <1>4, <1>5, <1>6, <1>7, ListKeepsReach

LEMMA LocalDeleted ==
  ASSUME NEW s, NEW n, NEW l, NEW A, Deleted(s, n, l, A), s.comments[l].form = "bracket",
         SelectorsOn(s, l) = LocalSelectors(s, l)
  PROVE  KeepsReach(LocalSelectors(s, l), LocalSelectors(n, l), A)
<1>. DEFINE list == Retained(s.comments[l])
            kept == DOMAIN list \ {g.position : g \in {t \in A : t.line = l}}
            rest == Elements(list, kept)
            target == TargetLine(s, l)
            onComments(token) == \E r \in Codes(token) : CategoryOf[r] = CommentCategory
            before == [k \in DOMAIN list |->
                         [Selector(l, k, Codes(list[k]),
                                   IF onComments(list[k]) THEN CommentTarget(s, target) ELSE {})
                            EXCEPT !.ranges = RangesFrom(s, target), !.self = {l}]]
            after == [k \in DOMAIN rest |->
                        [Selector(l, k, Codes(rest[k]),
                                  IF onComments(rest[k]) THEN CommentTarget(n, target) ELSE {})
                           EXCEPT !.ranges = RangesFrom(n, target), !.self = {l}]]
<1>0. /\ list \in Seq(ListTokens) /\ Retained(n.comments[l]) = rest
      /\ \A t \in SelectorsOn(s, l) : t.position \in DOMAIN list \ kept => t \in A
  BY BracketDeleted, Zenon
<1>1. /\ list \in Seq(ListTokens) /\ Retained(n.comments[l]) = rest
      /\ \A t \in LocalSelectors(s, l) : t.position \in DOMAIN list \ kept => t \in A
  BY <1>0, Zenon
<1>2. kept \in SUBSET DOMAIN list
  OBVIOUS
<1>3. /\ TargetLine(n, l) = target /\ RangesFrom(n, target) = RangesFrom(s, target)
      /\ CommentTarget(n, target) = CommentTarget(s, target)
  BY ShapeIsCoverage DEF Deleted
<1>4. LocalSelectors(s, l) = ListSelectors(list, l, before)
  BY DEF LocalSelectors
<1>5. LocalSelectors(n, l) = ListSelectors(rest, l, after)
  BY <1>1, <1>3 DEF LocalSelectors
<1>6. \A k \in DOMAIN list : before[k].line = l /\ before[k].position = k
  BY DEF Selector
<1>7. ASSUME NEW k \in DOMAIN list, NEW j \in DOMAIN rest, list[k] = rest[j]
      PROVE  SameReach(before[k], after[j])
  BY <1>3, <1>7 DEF SameReach, Selector
<1>. HIDE DEF list, kept, before, after
<1>8. QED
  BY <1>1, <1>2, <1>4, <1>5, <1>6, <1>7, ListKeepsReach

LEMMA FileBracketDeleted ==
  ASSUME NEW s, NEW n, NEW l, NEW A, Deleted(s, n, l, A), s.comments[l].form = "bracket",
         SelectorsOn(s, l) = FileSelectors(s, l)
  PROVE  KeepsReach(FileSelectors(s, l), FileSelectors(n, l), A)
<1>. DEFINE list == Retained(s.comments[l])
            kept == DOMAIN list \ {g.position : g \in {t \in A : t.line = l}}
            rest == Elements(list, kept)
            before == [k \in DOMAIN list |-> Selector(l, k, Codes(list[k]), LinesOf(s))]
            after == [k \in DOMAIN rest |-> Selector(l, k, Codes(rest[k]), LinesOf(n))]
<1>0. /\ list \in Seq(ListTokens) /\ Retained(n.comments[l]) = rest
      /\ \A t \in SelectorsOn(s, l) : t.position \in DOMAIN list \ kept => t \in A
  BY BracketDeleted, Zenon
<1>1. /\ list \in Seq(ListTokens) /\ Retained(n.comments[l]) = rest
      /\ \A t \in FileSelectors(s, l) : t.position \in DOMAIN list \ kept => t \in A
  BY <1>0, Zenon
<1>2. kept \in SUBSET DOMAIN list
  OBVIOUS
<1>3. LinesOf(n) = LinesOf(s) /\ n.comments[l].form = "bracket"
  BY DEF Deleted, SameShape, SameButList, Commented
<1>4. FileSelectors(s, l) = ListSelectors(list, l, before)
  BY DEF FileSelectors
<1>5. FileSelectors(n, l) = ListSelectors(rest, l, after)
  BY <1>1, <1>3 DEF FileSelectors
<1>6. \A k \in DOMAIN list : before[k].line = l /\ before[k].position = k
  BY DEF Selector
<1>7. ASSUME NEW k \in DOMAIN list, NEW j \in DOMAIN rest, list[k] = rest[j]
      PROVE  SameReach(before[k], after[j])
  BY <1>3, <1>7 DEF SameReach, Selector
<1>. HIDE DEF list, kept, before, after
<1>8. QED
  BY <1>1, <1>2, <1>4, <1>5, <1>6, <1>7, ListKeepsReach

LEMMA NoqaDeleted ==
  ASSUME NEW s, NEW n, NEW l, NEW A, Deleted(s, n, l, A), s.comments[l].form = "noqa",
         SelectorsOn(s, l) = NoqaSelectors(s, l)
  PROVE  KeepsReach(NoqaSelectors(s, l), NoqaSelectors(n, l), A)
<1>. DEFINE list == s.comments[l].list
            kept == DOMAIN list \ {g.position : g \in {t \in A : t.line = l}}
            rest == Elements(list, kept)
            one(k) == [Selector(l, k, NoqaCodes(list[k]), {l}) EXCEPT !.ranges = InlineRanges(s, l)]
            other(j) == [Selector(l, j, NoqaCodes(rest[j]), {l}) EXCEPT !.ranges = InlineRanges(n, l)]
            before == [k \in DOMAIN list |-> IF NoqaCodes(list[k]) = {} THEN InvalidSelector(l, k) ELSE one(k)]
            after == [j \in DOMAIN rest |-> IF NoqaCodes(rest[j]) = {} THEN InvalidSelector(l, j) ELSE other(j)]
<1>1. IsComment(s.comments[l]) /\ n.comments[l].form = "noqa" /\ InlineRanges(n, l) = InlineRanges(s, l)
  BY CommentsOf, ShapeIsCoverage DEF Deleted, SameShape, SameButList, Commented
<1>2. CASE list = NoList
  <2>1. n.comments[l].list = <<>>
    <3>1. Entries(s.comments[l]) = <<>>
      BY <1>2 DEF Entries
    <3>2. n.comments[l].list = Elements(<<>>, DOMAIN <<>> \ {g.position : g \in {t \in A : t.line = l}})
      BY <3>1, Zenon DEF Deleted
    <3>3. QED
      BY <3>2, NothingKept
  <2>2. NoqaSelectors(n, l) = {}
    <3>0. <<>> \in Seq(ListTokens) /\ DOMAIN <<>> = {}
      OBVIOUS
    <3>1. <<>> # NoList /\ DOMAIN <<>> = {}
      BY <3>0, SuppressionsAssumption
    <3>2. NoqaPositions(<<>>) = {}
      BY <3>1 DEF NoqaPositions, Tokens
    <3>3. QED
      BY <2>1, <3>1, <3>2 DEF NoqaSelectors
  <2>3. NoqaSelectors(s, l) \subseteq A
    <3>1. PICK blanket : NoqaSelectors(s, l) = {blanket}
      BY <1>2 DEF NoqaSelectors
    <3>2. QED
      BY <3>1 DEF Deleted
  <2>4. QED
    BY <2>2, <2>3 DEF KeepsReach
<1>3. CASE list # NoList
  <2>0. /\ list \in Seq(ListTokens) /\ n.comments[l].list = rest
        /\ \A t \in SelectorsOn(s, l) : t.position \in DOMAIN list \ kept => t \in A
    <3>1. Entries(s.comments[l]) = list
      BY <1>3 DEF Entries
    <3>2. QED
      BY <3>1, Zenon DEF Deleted
  <2>1. kept \in SUBSET DOMAIN list /\ rest # NoList
    <3>1. kept \in SUBSET DOMAIN list
      OBVIOUS
    <3>. HIDE DEF kept, list
    <3>2. rest \in Seq(ListTokens)
      BY <2>0, <3>1, ElementsAre
    <3>3. QED
      BY <3>1, <3>2, SuppressionsAssumption
  <2>2. NoqaSelectors(s, l) = {one(k) : k \in {j \in NoqaPositions(list) : NoqaCodes(list[j]) # {}}}
    BY <1>3 DEF NoqaSelectors
  <2>3. NoqaSelectors(n, l) = {other(k) : k \in {j \in NoqaPositions(rest) : NoqaCodes(rest[j]) # {}}}
    BY <2>0, <2>1 DEF NoqaSelectors
  <2>4. /\ \A k \in DOMAIN list : NoqaCodes(list[k]) = {} => ~before[k].valid
        /\ \A j \in DOMAIN rest : NoqaCodes(rest[j]) = {} => ~after[j].valid
        /\ \A k : one(k).position = k
    BY DEF InvalidSelector, Selector
  <2>5. ASSUME NEW k \in DOMAIN list, NEW j \in DOMAIN rest,
               NoqaCodes(list[k]) = NoqaCodes(rest[j]), NoqaCodes(list[k]) # {}
        PROVE  SameReach(before[k], after[j])
    BY <1>1, <2>5 DEF SameReach, Selector
  <2>6. NoqaPositions(list) \subseteq DOMAIN list /\ NoqaPositions(rest) \subseteq DOMAIN rest
    BY DEF NoqaPositions, Tokens
  <2>7. \A k \in NoqaPositions(list) : k \notin kept => before[k] \in A \/ ~before[k].valid
    <3>1. SUFFICES ASSUME NEW k \in NoqaPositions(list), k \notin kept, NoqaCodes(list[k]) # {}
                   PROVE  one(k) \in A
      BY <2>4, <2>6
    <3>2. one(k) \in NoqaSelectors(s, l) /\ one(k).position = k
      BY <2>2, <2>4, <3>1
    <3>. HIDE DEF one, kept
    <3>3. QED
      BY <2>0, <2>6, <3>1, <3>2
  <2>. HIDE DEF one, other, kept
  <2>8. /\ \A k \in DOMAIN list : before[k].valid => before[k] = one(k)
        /\ \A j \in DOMAIN rest : after[j].valid => after[j] = other(j)
        /\ \A k \in DOMAIN list : NoqaCodes(list[k]) # {} => before[k] = one(k)
        /\ \A j \in DOMAIN rest : NoqaCodes(rest[j]) # {} => after[j] = other(j)
    BY <2>4
  <2>. DEFINE gone == A \cup {before[k] : k \in {j \in DOMAIN list : ~before[j].valid}}
  <2>9. \A k \in NoqaPositions(list) : k \notin kept => before[k] \in gone
    BY <2>6, <2>7
  <2>. HIDE DEF before, after, list, gone
  <2>10. /\ \A j \in NoqaPositions(rest) : after[j].valid =>
              \E k \in NoqaPositions(list) : NoqaCodes(list[k]) # {} /\ SameReach(before[k], after[j])
         /\ \A k \in NoqaPositions(list) : before[k].valid /\ before[k] \notin gone =>
              \E j \in NoqaPositions(rest) : NoqaCodes(rest[j]) # {} /\ SameReach(before[k], after[j])
    <3>1. \A k \in DOMAIN list, j \in DOMAIN rest :
             NoqaCodes(list[k]) = NoqaCodes(rest[j]) /\ NoqaCodes(list[k]) # {}
               => SameReach(before[k], after[j])
      BY <2>5
    <3>2. /\ \A k \in DOMAIN list : NoqaCodes(list[k]) = {} => ~before[k].valid
          /\ \A j \in DOMAIN rest : NoqaCodes(rest[j]) = {} => ~after[j].valid
      BY <2>4
    <3>3. list \in Seq(ListTokens) /\ kept \in SUBSET DOMAIN list
      BY <2>0, <2>1
    <3>4. QED
      BY <2>9, <3>1, <3>2, <3>3, NoqaKeepsReach, Zenon
  <2>11. ASSUME NEW t \in NoqaSelectors(n, l), t.valid
         PROVE  \E u \in NoqaSelectors(s, l) : SameReach(u, t)
    <3>1. PICK j \in NoqaPositions(rest) : t = other(j) /\ NoqaCodes(rest[j]) # {}
      BY <2>3
    <3>2. after[j] = t
      BY <2>6, <2>8, <3>1
    <3>3. PICK k \in NoqaPositions(list) : NoqaCodes(list[k]) # {} /\ SameReach(before[k], after[j])
      BY <2>10, <2>11, <3>2
    <3>4. before[k] = one(k) /\ one(k) \in NoqaSelectors(s, l)
      BY <2>2, <2>6, <2>8, <3>3
    <3>5. QED
      BY <3>2, <3>3, <3>4
  <2>12. ASSUME NEW u \in NoqaSelectors(s, l) \ A, u.valid
         PROVE  \E t \in NoqaSelectors(n, l) : SameReach(u, t)
    <3>1. PICK k \in NoqaPositions(list) : u = one(k) /\ NoqaCodes(list[k]) # {}
      BY <2>2
    <3>2. before[k] = u
      BY <2>6, <2>8, <3>1
    <3>3. before[k] \notin gone
      BY <2>12, <3>2 DEF gone
    <3>4. PICK j \in NoqaPositions(rest) : NoqaCodes(rest[j]) # {} /\ SameReach(before[k], after[j])
      BY <2>10, <2>12, <3>2, <3>3
    <3>5. after[j] = other(j) /\ other(j) \in NoqaSelectors(n, l)
      BY <2>3, <2>6, <2>8, <3>4
    <3>6. QED
      BY <3>2, <3>4, <3>5
  <2>13. QED
    BY <2>11, <2>12 DEF KeepsReach
<1>4. QED
  BY <1>2, <1>3

LEMMA FileNoqaDeleted ==
  ASSUME NEW s, NEW n, NEW l, NEW A, Deleted(s, n, l, A), s.comments[l].form = "pynoqa",
         SelectorsOn(s, l) = FileSelectors(s, l)
  PROVE  KeepsReach(FileSelectors(s, l), FileSelectors(n, l), A)
<1>. DEFINE list == s.comments[l].list
            kept == DOMAIN list \ {g.position : g \in {t \in A : t.line = l}}
            rest == Elements(list, kept)
            one(k) == Selector(l, k, NoqaCodes(list[k]), LinesOf(s))
            other(j) == Selector(l, j, NoqaCodes(rest[j]), LinesOf(n))
            before == [k \in DOMAIN list |-> IF NoqaCodes(list[k]) = {} THEN InvalidSelector(l, k) ELSE one(k)]
            after == [j \in DOMAIN rest |-> IF NoqaCodes(rest[j]) = {} THEN InvalidSelector(l, j) ELSE other(j)]
<1>1. IsComment(s.comments[l]) /\ n.comments[l].form = "pynoqa" /\ LinesOf(n) = LinesOf(s)
  BY CommentsOf, ShapeIsCoverage DEF Deleted, SameShape, SameButList, Commented
<1>2. CASE list = NoList
  <2>1. n.comments[l].list = <<>>
    <3>1. Entries(s.comments[l]) = <<>>
      BY <1>2 DEF Entries
    <3>2. n.comments[l].list = Elements(<<>>, DOMAIN <<>> \ {g.position : g \in {t \in A : t.line = l}})
      BY <3>1, Zenon DEF Deleted
    <3>3. QED
      BY <3>2, NothingKept
  <2>2. FileSelectors(n, l) = {InvalidSelector(l, 0)} /\ ~InvalidSelector(l, 0).valid
    <3>0. <<>> \in Seq(ListTokens) /\ DOMAIN <<>> = {}
      OBVIOUS
    <3>1. <<>> # NoList /\ DOMAIN <<>> = {}
      BY <3>0, SuppressionsAssumption
    <3>2. NoqaPositions(<<>>) = {}
      BY <3>1 DEF NoqaPositions, Tokens
    <3>3. QED
      BY <1>1, <2>1, <3>1, <3>2 DEF FileSelectors, InvalidSelector
  <2>3. FileSelectors(s, l) \subseteq A
    <3>1. PICK blanket : FileSelectors(s, l) = {blanket}
      BY <1>2 DEF FileSelectors
    <3>2. QED
      BY <3>1 DEF Deleted
  <2>4. QED
    BY <2>2, <2>3 DEF KeepsReach
<1>3. CASE list # NoList
  <2>0. /\ list \in Seq(ListTokens) /\ n.comments[l].list = rest
        /\ \A t \in SelectorsOn(s, l) : t.position \in DOMAIN list \ kept => t \in A
    <3>1. Entries(s.comments[l]) = list
      BY <1>3 DEF Entries
    <3>2. QED
      BY <3>1, Zenon DEF Deleted
  <2>1. kept \in SUBSET DOMAIN list /\ rest # NoList
    <3>1. kept \in SUBSET DOMAIN list
      OBVIOUS
    <3>. HIDE DEF kept, list
    <3>2. rest \in Seq(ListTokens)
      BY <2>0, <3>1, ElementsAre
    <3>3. QED
      BY <3>1, <3>2, SuppressionsAssumption
  <2>4. /\ \A k \in DOMAIN list : NoqaCodes(list[k]) = {} => ~before[k].valid
        /\ \A j \in DOMAIN rest : NoqaCodes(rest[j]) = {} => ~after[j].valid
        /\ \A k : one(k).position = k
    BY DEF InvalidSelector, Selector
  <2>6. NoqaPositions(list) \subseteq DOMAIN list /\ NoqaPositions(rest) \subseteq DOMAIN rest
    BY DEF NoqaPositions, Tokens
  <2>2. /\ \A u \in FileSelectors(s, l) : u.valid =>
              \E k \in NoqaPositions(list) : u = one(k) /\ NoqaCodes(list[k]) # {}
        /\ \A k \in NoqaPositions(list) : NoqaCodes(list[k]) # {} => one(k) \in FileSelectors(s, l)
    <3>1. FileSelectors(s, l) = IF NoqaPositions(list) = {} THEN {InvalidSelector(l, 0)}
                                ELSE {before[k] : k \in NoqaPositions(list)}
      BY <1>3, <2>6 DEF FileSelectors
    <3>2. ~InvalidSelector(l, 0).valid
      BY DEF InvalidSelector
    <3>3. \A k \in NoqaPositions(list) : before[k] = one(k) \/ ~before[k].valid
      BY <2>4, <2>6
    <3>4. \A k \in NoqaPositions(list) : NoqaCodes(list[k]) # {} => before[k] = one(k)
      BY <2>6
    <3>. HIDE DEF one, before, list
    <3>5. QED
      BY <2>4, <2>6, <3>1, <3>2, <3>3, <3>4
  <2>3. /\ \A u \in FileSelectors(n, l) : u.valid =>
              \E k \in NoqaPositions(rest) : u = other(k) /\ NoqaCodes(rest[k]) # {}
        /\ \A k \in NoqaPositions(rest) : NoqaCodes(rest[k]) # {} => other(k) \in FileSelectors(n, l)
    <3>1. FileSelectors(n, l) = IF NoqaPositions(rest) = {} THEN {InvalidSelector(l, 0)}
                                ELSE {after[k] : k \in NoqaPositions(rest)}
      BY <1>1, <2>0, <2>1, <2>6 DEF FileSelectors
    <3>2. ~InvalidSelector(l, 0).valid
      BY DEF InvalidSelector
    <3>3. \A k \in NoqaPositions(rest) : after[k] = other(k) \/ ~after[k].valid
      BY <2>4, <2>6
    <3>4. \A k \in NoqaPositions(rest) : NoqaCodes(rest[k]) # {} => after[k] = other(k)
      BY <2>6
    <3>. HIDE DEF other, after, rest
    <3>5. QED
      BY <2>4, <2>6, <3>1, <3>2, <3>3, <3>4
  <2>5. ASSUME NEW k \in DOMAIN list, NEW j \in DOMAIN rest,
               NoqaCodes(list[k]) = NoqaCodes(rest[j]), NoqaCodes(list[k]) # {}
        PROVE  SameReach(before[k], after[j])
    BY <1>1, <2>5 DEF SameReach, Selector
  <2>7. \A k \in NoqaPositions(list) : k \notin kept => before[k] \in A \/ ~before[k].valid
    <3>1. SUFFICES ASSUME NEW k \in NoqaPositions(list), k \notin kept, NoqaCodes(list[k]) # {}
                   PROVE  one(k) \in A
      BY <2>4, <2>6
    <3>2. one(k) \in FileSelectors(s, l) /\ one(k).position = k
      <4>. HIDE DEF one, list, kept
      <4>1. QED
        BY <2>2, <2>4, <3>1
    <3>. HIDE DEF one, kept
    <3>3. QED
      BY <2>0, <2>6, <3>1, <3>2
  <2>. HIDE DEF one, other, kept
  <2>8. /\ \A k \in DOMAIN list : before[k].valid => before[k] = one(k)
        /\ \A j \in DOMAIN rest : after[j].valid => after[j] = other(j)
        /\ \A k \in DOMAIN list : NoqaCodes(list[k]) # {} => before[k] = one(k)
        /\ \A j \in DOMAIN rest : NoqaCodes(rest[j]) # {} => after[j] = other(j)
    BY <2>4
  <2>. DEFINE gone == A \cup {before[k] : k \in {j \in DOMAIN list : ~before[j].valid}}
  <2>9. \A k \in NoqaPositions(list) : k \notin kept => before[k] \in gone
    BY <2>6, <2>7
  <2>. HIDE DEF before, after, list, gone
  <2>10. /\ \A j \in NoqaPositions(rest) : after[j].valid =>
              \E k \in NoqaPositions(list) : NoqaCodes(list[k]) # {} /\ SameReach(before[k], after[j])
         /\ \A k \in NoqaPositions(list) : before[k].valid /\ before[k] \notin gone =>
              \E j \in NoqaPositions(rest) : NoqaCodes(rest[j]) # {} /\ SameReach(before[k], after[j])
    <3>1. \A k \in DOMAIN list, j \in DOMAIN rest :
             NoqaCodes(list[k]) = NoqaCodes(rest[j]) /\ NoqaCodes(list[k]) # {}
               => SameReach(before[k], after[j])
      BY <2>5
    <3>2. /\ \A k \in DOMAIN list : NoqaCodes(list[k]) = {} => ~before[k].valid
          /\ \A j \in DOMAIN rest : NoqaCodes(rest[j]) = {} => ~after[j].valid
      BY <2>4
    <3>3. list \in Seq(ListTokens) /\ kept \in SUBSET DOMAIN list
      BY <2>0, <2>1
    <3>4. QED
      BY <2>9, <3>1, <3>2, <3>3, NoqaKeepsReach, Zenon
  <2>11. ASSUME NEW t \in FileSelectors(n, l), t.valid
         PROVE  \E u \in FileSelectors(s, l) : SameReach(u, t)
    <3>1. PICK j \in NoqaPositions(rest) : t = other(j) /\ NoqaCodes(rest[j]) # {}
      BY <2>3, <2>11
    <3>2. after[j] = t
      BY <2>6, <2>8, <3>1
    <3>3. PICK k \in NoqaPositions(list) : NoqaCodes(list[k]) # {} /\ SameReach(before[k], after[j])
      BY <2>10, <2>11, <3>2
    <3>4. before[k] = one(k)
      BY <2>6, <2>8, <3>3
    <3>44. one(k) \in FileSelectors(s, l)
      BY <2>2, <3>3
    <3>5. QED
      BY <3>2, <3>3, <3>4, <3>44
  <2>12. ASSUME NEW u \in FileSelectors(s, l) \ A, u.valid
         PROVE  \E t \in FileSelectors(n, l) : SameReach(u, t)
    <3>1. PICK k \in NoqaPositions(list) : u = one(k) /\ NoqaCodes(list[k]) # {}
      BY <2>2, <2>12
    <3>2. before[k] = u
      BY <2>6, <2>8, <3>1
    <3>3. before[k] \notin gone
      BY <2>12, <3>2 DEF gone
    <3>4. PICK j \in NoqaPositions(rest) : NoqaCodes(rest[j]) # {} /\ SameReach(before[k], after[j])
      BY <2>10, <2>12, <3>2, <3>3
    <3>5. after[j] = other(j)
      BY <2>6, <2>8, <3>4
    <3>55. other(j) \in FileSelectors(n, l)
      BY <2>3, <3>4
    <3>6. QED
      BY <3>2, <3>4, <3>5, <3>55
  <2>13. QED
    BY <2>11, <2>12 DEF KeepsReach
<1>4. QED
  BY <1>2, <1>3

\* Deleting entries of a source keeps what the other entries of a line cover.
LEMMA LineKeepsReach ==
  ASSUME IsSource(src), NEW A \in SUBSET Selectors(src), NEW l \in Commented(src)
  PROVE  KeepsReach(SelectorsOn(src, l), SelectorsOn(Without(A), l), A)
<1>. DEFINE n == Without(A)
            c == src.comments[l]
            e == n.comments[l]
            gone == {t \in A : t.line = l}
<1>1. /\ SameShape(src, n) /\ e = WithoutEntries(c, gone) /\ IsComment(c)
      /\ l \in Commented(n) /\ LocalLines(n) = LocalLines(src)
  BY WithoutShape, ShapeIsCoverage, CommentsOf
<1>2. /\ IsInline(e) <=> IsInline(c)
      /\ IsNoqa(e) <=> IsNoqa(c)
      /\ IsFileWide(e) <=> IsFileWide(c)
  <2>1. SameButList(c, e)
    BY <1>1 DEF SameShape, Commented
  <2>2. QED
    BY <2>1, SameKindOfComment
<1>3. ASSUME NEW g \in A, g.line = l PROVE g \in SelectorsOn(src, l)
  <2>1. PICK m \in Commented(src) : g \in SelectorsOn(src, m)
    BY DEF Selectors
  <2>2. m = l
    BY <1>3, <2>1, LineDistinct DEF Distinct
  <2>3. QED
    BY <2>1, <2>2
<1>4. CASE gone = {}
  <2>1. e = c
    BY <1>1, <1>4, EntriesDeleted
  <2>2. /\ InlineRanges(n, l) = InlineRanges(src, l) /\ LinesOf(n) = LinesOf(src)
        /\ TargetLine(n, l) = TargetLine(src, l)
        /\ \A t : RangesFrom(n, t) = RangesFrom(src, t) /\ CommentTarget(n, t) = CommentTarget(src, t)
    BY <1>1, ShapeIsCoverage DEF SameShape
  <2>. HIDE DEF n
  <2>3. InlineSelectors(n, l) = InlineSelectors(src, l)
    BY <2>1, <2>2 DEF InlineSelectors
  <2>4. NoqaSelectors(n, l) = NoqaSelectors(src, l)
    BY <2>1, <2>2 DEF NoqaSelectors
  <2>5. FileSelectors(n, l) = FileSelectors(src, l)
    BY <2>1, <2>2 DEF FileSelectors
  <2>6. LocalSelectors(n, l) = LocalSelectors(src, l)
    BY <2>1, <2>2 DEF LocalSelectors
  <2>7. SelectorsOn(n, l) = SelectorsOn(src, l)
    BY <1>1, <2>1, <2>3, <2>4, <2>5, <2>6 DEF SelectorsOn
  <2>8. \A t : SameReach(t, t)
    BY DEF SameReach
  <2>9. QED
    BY <2>7, <2>8 DEF KeepsReach, n
<1>5. CASE gone # {}
  <2>. DEFINE kept == DOMAIN Entries(c) \ {g.position : g \in gone}
  <2>1. Entries(c) \in Seq(ListTokens) /\ e.list = Elements(Entries(c), kept)
    BY <1>1, <1>5, EntriesDeleted
  <2>2. \E g \in A : g \in SelectorsOn(src, l)
    BY <1>3, <1>5
  <2>3. ASSUME NEW t \in SelectorsOn(src, l), t.position \in DOMAIN Entries(c) \ kept PROVE t \in A
    <3>1. PICK g \in gone : g.position = t.position
      BY <2>3
    <3>2. QED
      BY <1>3, <3>1, LineDistinct DEF Distinct
  <2>4. Deleted(src, n, l, A)
    BY <1>1, <2>1, <2>2, <2>3, Zenon DEF Deleted
  <2>. HIDE DEF n, kept
  <2>5. CASE IsInline(c)
    <3>1. SelectorsOn(src, l) = InlineSelectors(src, l) /\ SelectorsOn(n, l) = InlineSelectors(n, l)
      BY <1>2, <2>5 DEF SelectorsOn, IsInline, IsNoqa, IsFileWide, LocalLines, OnOwnLine, HasForm
    <3>2. QED
      BY <2>4, <2>5, <3>1, InlineDeleted DEF IsInline, HasForm, n
  <2>6. CASE IsNoqa(c)
    <3>1. SelectorsOn(src, l) = NoqaSelectors(src, l) /\ SelectorsOn(n, l) = NoqaSelectors(n, l)
      BY <1>1, <1>2, <2>6 DEF SelectorsOn, IsInline, IsNoqa, IsFileWide, LocalLines, OnOwnLine, HasForm
    <3>2. QED
      BY <2>4, <2>6, <3>1, NoqaDeleted DEF IsNoqa, n
  <2>7. CASE IsFileWide(c)
    <3>1. SelectorsOn(src, l) = FileSelectors(src, l) /\ SelectorsOn(n, l) = FileSelectors(n, l)
      BY <1>1, <1>2, <2>7 DEF SelectorsOn, IsInline, IsNoqa, IsFileWide, LocalLines, OnOwnLine, HasForm
    <3>2. c.form \in {"bracket", "pynoqa"}
      BY <2>7 DEF IsFileWide, HasForm
    <3>3. QED
      BY <2>4, <3>1, <3>2, FileBracketDeleted, FileNoqaDeleted DEF n
  <2>8. CASE l \in LocalLines(src)
    <3>1. SelectorsOn(src, l) = LocalSelectors(src, l) /\ SelectorsOn(n, l) = LocalSelectors(n, l)
      BY <1>1, <1>2, <2>8 DEF SelectorsOn, IsInline, IsNoqa, IsFileWide, LocalLines, OnOwnLine, HasForm
    <3>2. QED
      BY <2>4, <2>8, <3>1, LocalDeleted DEF LocalLines, HasForm, n
  <2>9. CASE ~(IsInline(c) \/ IsNoqa(c) \/ IsFileWide(c) \/ l \in LocalLines(src))
    <3>1. SelectorsOn(src, l) = {} /\ SelectorsOn(n, l) = {}
      BY <1>1, <1>2, <2>9 DEF SelectorsOn
    <3>2. QED
      BY <3>1 DEF KeepsReach, n
  <2>10. QED
    BY <2>5, <2>6, <2>7, <2>8, <2>9
<1>6. QED
  BY <1>4, <1>5

\* What suppresses nothing of some findings can be deleted as far as these
\* are concerned.
LEMMA WithoutInert ==
  ASSUME IsSource(src), NEW A \in SUBSET Selectors(src), NEW found, NEW active, NEW authorized,
         \A a \in A, f \in found : ~Suppresses(a, f, active, authorized)
  PROVE  Unsuppressed(Selectors(Without(A)), found, active, authorized)
           = Unsuppressed(Selectors(src), found, active, authorized)
<1>1. Commented(Without(A)) = Commented(src)
  BY WithoutShape, ShapeIsCoverage
<1>2. ASSUME NEW f \in found, NEW t \in Selectors(Without(A)), Suppresses(t, f, active, authorized)
      PROVE  \E s \in Selectors(src) : Suppresses(s, f, active, authorized)
  <2>1. PICK l \in Commented(src) : t \in SelectorsOn(Without(A), l)
    BY <1>1 DEF Selectors
  <2>2. t.valid
    BY <1>2 DEF Suppresses
  <2>3. PICK s \in SelectorsOn(src, l) : SameReach(s, t)
    BY <2>1, <2>2, LineKeepsReach DEF KeepsReach
  <2>4. QED
    BY <1>2, <2>3, SameReachSuppresses DEF Selectors
<1>3. ASSUME NEW f \in found, NEW s \in Selectors(src), Suppresses(s, f, active, authorized)
      PROVE  \E t \in Selectors(Without(A)) : Suppresses(t, f, active, authorized)
  <2>1. PICK l \in Commented(src) : s \in SelectorsOn(src, l)
    BY DEF Selectors
  <2>2. s.valid /\ s \notin A
    BY <1>3 DEF Suppresses
  <2>3. PICK t \in SelectorsOn(Without(A), l) : SameReach(s, t)
    BY <2>1, <2>2, LineKeepsReach DEF KeepsReach
  <2>4. QED
    BY <1>1, <1>3, <2>3, SameReachSuppresses DEF Selectors
<1>4. QED
  BY <1>2, <1>3 DEF Unsuppressed

-----------------------------------------------------------------------------
(* The audit                                                               *)

\* What PCF101 spares is needed: an entry of a selected rule that it does not
\* report suppresses some violation even if it were the only entry, whatever
\* the source, the comments and the violations are (suppressions.py,
\* filter_violations, unused_findings).
THEOREM AuditSparesTheUsed == PassSpec => []UsedIsNeeded
<1>1. PassIInv => UsedIsNeeded
  <2>1. SUFFICES ASSUME PassIInv, pc = "done", errors = {}, Audit \in case.selected,
                        NEW s \in AuditFindings(Selectors(src)) \ audited,
                        s.audit, s.codes \cap (case.selected \ {Audit}) # {}
                 PROVE  ReportWith({s}) # ReportWith({})
    BY DEF UsedIsNeeded
  <2>2. Checked = {Order[i] : i \in DOMAIN Order} \cap case.selected
    BY <2>1 DEF Checked
  <2>3. s \in Selectors(src) /\ s \notin Unused(Selectors(src), used, case.selected \ {Audit})
    BY <2>1 DEF PassIInv, AuditFindings
  <2>4. s.valid /\ Key(s) \in used
    BY <2>1, <2>3 DEF Unused
  <2>5. PICK r \in Checked : Key(s) \in UsedBy(r)
    BY <2>1, <2>4 DEF PassIInv
  <2>6. PICK t \in Selectors(src), f \in Found(r) :
           Key(t) = Key(s) /\ Suppresses(t, f, CategoryOf[r], case.authorized[CategoryOf[r]])
    BY <2>5 DEF UsedBy, UsedKeys
  <2>7. Suppresses(s, f, CategoryOf[r], case.authorized[CategoryOf[r]])
    BY <2>3, <2>6, KeysAreDistinct
  <2>. DEFINE reported(selectors, q) ==
                Unsuppressed(selectors, Found(q), CategoryOf[q], case.authorized[CategoryOf[q]])
  <2>8. \A selectors : ReportWith(selectors) = UNION {reported(selectors, q) : q \in Checked}
    BY <2>2 DEF ReportWith, Found
  <2>9. f \in reported({}, r)
    BY <2>6 DEF Unsuppressed
  <2>10. \A q \in Checked : f \in Found(q) => q = r
    BY <2>1, <2>6 DEF PassIInv, Found, Finding
  <2>11. \A q \in Checked : f \notin reported({s}, q)
    BY <2>7, <2>10 DEF Unsuppressed
  <2>. HIDE DEF reported
  <2>12. QED
    BY <2>8, <2>9, <2>11
<1>2. QED
  BY <1>1, PassInvariant, PTL

\* All entries that PCF101 reports can be deleted at once: the other rules
\* report the same without them, whatever the source, the comments and the
\* violations are (runner.py, _run_check_pass; suppressions.py).
THEOREM AuditedIsRemovable == PassSpec => []UnusedIsRemovable
<1>1. PassIInv => UnusedIsRemovable
  <2>1. SUFFICES ASSUME PassIInv, pc = "done", errors = {}
                 PROVE  ReportWith(Selectors(Without(audited))) = findings
    BY DEF UnusedIsRemovable
  <2>. DEFINE authorized(r) == case.authorized[CategoryOf[r]]
  <2>2. Checked = {Order[i] : i \in DOMAIN Order} \cap case.selected
    BY <2>1 DEF Checked
  <2>3. audited \subseteq Unused(Selectors(src), used, case.selected \ {Audit})
    BY <2>1 DEF PassIInv, AuditFindings
  <2>4. audited \in SUBSET Selectors(src)
    BY <2>3 DEF Unused
  <2>5. IsSource(src)
    BY <2>1, SuppressedCheckAssumption DEF PassIInv, src
  <2>6. ASSUME NEW r \in Checked, NEW a \in audited, NEW f \in Found(r)
        PROVE  ~Suppresses(a, f, CategoryOf[r], authorized(r))
    <3>1. SUFFICES ASSUME Suppresses(a, f, CategoryOf[r], authorized(r)) PROVE FALSE
      OBVIOUS
    <3>2. Key(a) \in UsedBy(r)
      BY <2>4, <2>6, <3>1 DEF UsedBy, UsedKeys
    <3>3. Key(a) \in used
      BY <2>1, <2>6, <3>2 DEF PassIInv
    <3>4. a.valid
      BY <3>1 DEF Suppresses
    <3>5. QED
      BY <2>3, <2>6, <3>3, <3>4 DEF Unused
  <2>7. \A r \in Checked :
          Unsuppressed(Selectors(Without(audited)), Found(r), CategoryOf[r], authorized(r)) = ReportedBy(r)
    BY <2>4, <2>5, <2>6, WithoutInert DEF ReportedBy
  <2>8. ReportWith(Selectors(Without(audited)))
          = UNION {Unsuppressed(Selectors(Without(audited)), Found(r), CategoryOf[r], authorized(r)) : r \in Checked}
    BY <2>2 DEF ReportWith, Found
  <2>9. findings = UNION {ReportedBy(r) : r \in Checked}
    BY <2>1 DEF PassIInv
  <2>. HIDE DEF authorized
  <2>10. QED
    BY <2>7, <2>8, <2>9
<1>2. QED
  BY <1>1, PassInvariant, PTL

-----------------------------------------------------------------------------
(* Rewriting lists                                                         *)

LEMMA OffendingIs == ASSUME NEW p \in ExactKinds PROVE Offending(p) \in ExactKinds /\ Offending(p) # p
<1>1. \E kind \in ExactKinds : kind # p
  BY DEF ExactKinds
<1>2. QED
  BY <1>1 DEF Offending

LEMMA TokenNormalized ==
  ASSUME NEW t \in ListTokens
  PROVE  LET u == NormalizedToken(t)
         IN  /\ u \in ListTokens /\ u.kind = t.kind /\ u.of = t.of
             /\ Codes(u) = Codes(t) /\ NormalizedToken(u) = u
             /\ t.kind # "blank" => Identity(u) = Identity(t)
<1>. DEFINE u == NormalizedToken(t)
<1>1. t \in [kind : LocalKinds \cup RuffKinds \cup {"unknown", "invalid", "blank"},
             of : Texts, canonical : BOOLEAN]
  BY DEF ListTokens
<1>2. /\ u \in ListTokens /\ u.kind = t.kind /\ u.of = t.of
      /\ u.canonical = (t.canonical \/ t.kind \notin RuffKinds \cup {"invalid"})
  BY <1>1 DEF NormalizedToken, ListTokens
<1>3. Codes(u) = Codes(t)
  BY <1>2 DEF Codes
<1>4. ASSUME t.kind \in ExactKinds \cup {"broad-code", "unknown", "blank"}
      PROVE  t.kind # "blank" => Identity(u) = Identity(t)
  BY <1>2, <1>4 DEF Identity, ExactKinds
<1>5. ASSUME t.kind \in RuffKinds \cup {"invalid"}
      PROVE  t.kind # "blank" => Identity(u) = Identity(t)
  <2>1. u.canonical = t.canonical
    BY <1>1, <1>2, <1>5
  <2>2. QED
    BY <1>2, <1>5, <2>1 DEF Identity
<1>6. NormalizedToken(u) = u
  <2>1. u \in [kind : LocalKinds \cup RuffKinds \cup {"unknown", "invalid", "blank"},
               of : Texts, canonical : BOOLEAN]
    BY <1>2 DEF ListTokens
  <2>. HIDE DEF u
  <2>2. (u.canonical \/ u.kind \notin RuffKinds \cup {"invalid"}) = u.canonical
    BY <1>1, <1>2, <2>1
  <2>3. QED
    BY <2>1, <2>2 DEF NormalizedToken
<1>7. t.kind # "blank" => Identity(u) = Identity(t)
  <2>1. t.kind \in ExactKinds \cup {"broad-code", "unknown", "blank"} \/ t.kind \in RuffKinds \cup {"invalid"}
    BY <1>1 DEF LocalKinds
  <2>2. QED
    BY <1>4, <1>5, <2>1
<1>. HIDE DEF u
<1>8. QED
  BY <1>2, <1>3, <1>6, <1>7 DEF u

\* The code and the name of a rule are the same entry.
LEMMA ExactToken ==
  ASSUME NEW t, t.kind \in ExactKinds
  PROVE  Codes(t) = {t.of} /\ Identity(t) = <<"rule", t.of, TRUE>>
BY DEF Codes, Identity, ExactKinds

LEMMA CanonicalToken ==
  ASSUME NEW t \in ListTokens, t.canonical PROVE NormalizedToken(t) = t
<1>1. t \in [kind : LocalKinds \cup RuffKinds \cup {"unknown", "invalid", "blank"},
             of : Texts, canonical : BOOLEAN]
  BY DEF ListTokens
<1>2. (t.canonical \/ t.kind \notin RuffKinds \cup {"invalid"}) = t.canonical
  BY <1>1
<1>3. QED
  BY <1>1, <1>2 DEF NormalizedToken

LEMMA TokenRespelled ==
  ASSUME NEW t \in ListTokens, NEW p \in ExactKinds
  PROVE  LET u == Respelled(t, p)
         IN  /\ u \in ListTokens /\ u.of = t.of /\ u.kind # Offending(p)
             /\ u.kind = "blank" <=> t.kind = "blank"
             /\ t.kind # Offending(p) => u = t
             /\ Codes(u) = Codes(t) /\ Identity(u) = Identity(t)
             /\ NormalizedToken(u) = Respelled(NormalizedToken(t), p)
<1>0. Offending(p) \in ExactKinds /\ Offending(p) # p
  BY OffendingIs
<1>1. t \in [kind : LocalKinds \cup RuffKinds \cup {"unknown", "invalid", "blank"},
             of : Texts, canonical : BOOLEAN]
  BY DEF ListTokens
<1>2. CASE t.kind # Offending(p)
  <2>1. Respelled(t, p) = t
    BY <1>2 DEF Respelled
  <2>2. NormalizedToken(t).kind # Offending(p)
    BY <1>2, TokenNormalized
  <2>3. Respelled(NormalizedToken(t), p) = NormalizedToken(t)
    BY <2>2 DEF Respelled
  <2>4. QED
    BY <1>2, <2>1, <2>3
<1>3. CASE t.kind = Offending(p)
  <2>. DEFINE u == Token(p, t.of)
  <2>1. Respelled(t, p) = u /\ u = [kind |-> p, of |-> t.of, canonical |-> TRUE]
    BY <1>3 DEF Respelled, Token
  <2>2. u \in ListTokens
    BY <1>1, <2>1 DEF ListTokens, LocalKinds
  <2>3. u.kind = p /\ u.of = t.of /\ u.canonical
    BY <2>1
  <2>. HIDE DEF u
  <2>4. Codes(u) = Codes(t) /\ Identity(u) = Identity(t)
    BY <1>0, <1>3, <2>3, ExactToken
  <2>5. NormalizedToken(u) = u
    BY <2>2, <2>3, CanonicalToken
  <2>6. Respelled(NormalizedToken(t), p) = u
    BY <1>3, <2>1, TokenNormalized DEF Respelled, u
  <2>7. p # "blank" /\ t.kind # "blank"
    BY <1>0, <1>3 DEF ExactKinds
  <2>8. QED
    BY <1>0, <1>3, <2>1, <2>2, <2>3, <2>4, <2>5, <2>6, <2>7
<1>4. QED
  BY <1>2, <1>3

\* Lists with the same entries mean the same.
SameEntries(c, d) ==
    /\ Retained(c) \in Seq(ListTokens) /\ Retained(d) \in Seq(ListTokens)
    /\ DOMAIN Retained(d) = DOMAIN Retained(c)
    /\ \A k \in DOMAIN Retained(c) : Codes(Retained(d)[k]) = Codes(Retained(c)[k])

\* A directive with another list.
LEMMA OtherList ==
  ASSUME NEW c, IsComment(c), NEW list \in Seq(ListTokens), NEW d, d = [c EXCEPT !.list = list]
  PROVE  /\ d.list = list /\ IsComment(d) /\ SameButList(c, d) /\ d # NoComment
         /\ d.tool = c.tool /\ d.action = c.action /\ d.form = c.form
         /\ \A other : [d EXCEPT !.list = other] = [c EXCEPT !.list = other]
         /\ IsSuppression(d) <=> IsSuppression(c)
<1>1. c \in [placement : {"standalone", "trailing"}, indent : Nat, form : Forms, spaced : BOOLEAN,
             tool : STRING, action : STRING, list : Seq(ListTokens) \cup {NoList}]
  BY DEF IsComment, Comments
<1>2. /\ d.list = list /\ d \in Comments /\ SameButList(c, d)
      /\ \A other : [d EXCEPT !.list = other] = [c EXCEPT !.list = other]
  BY <1>1 DEF Comments, SameButList
<1>3. d # NoComment /\ d.list # NoList
  BY <1>2, SuppressionsAssumption
<1>4. QED
  BY <1>2, <1>3 DEF IsComment, SameButList, IsSuppression

LEMMA SameList == ASSUME NEW c, IsComment(c) PROVE [c EXCEPT !.list = c.list] = c
BY DEF IsComment, Comments

LEMMA NothingRetained ==
  ASSUME NEW d, d.list = <<Blank>>
  PROVE  Retained(d) = <<>> /\ SafeList(d.list) /\ d.list \in Seq(ListTokens) /\ Tokens(d.list) = {}
<1>1. Blank.kind = "blank" /\ Blank \in ListTokens
  <2>1. "blank" \in LocalKinds \cup RuffKinds \cup {"unknown", "invalid", "blank"}
    OBVIOUS
  <2>2. "" \in Texts
    BY DEF Texts
  <2>3. Blank = [kind |-> "blank", of |-> "", canonical |-> TRUE]
    BY DEF Blank, Token
  <2>4. QED
    BY <2>1, <2>2, <2>3, Zenon DEF ListTokens
<1>2. d.list \in Seq(ListTokens) /\ DOMAIN d.list = 1..1 /\ d.list[1] = Blank /\ Len(d.list) = 1
  BY <1>1
<1>3. Tokens(d.list) = {}
  BY <1>1, <1>2 DEF Tokens
<1>5. Retained(d) = <<>>
  <2>1. Cardinality({}) = 0
    BY FS_EmptySet
  <2>3. Elements(d.list, {}) = <<>>
    BY <2>1 DEF Elements
  <2>2. {i \in Tokens(d.list) : Survives(d, i)} = {}
    BY <1>3
  <2>4. QED
    BY <2>2, <2>3 DEF Retained
<1>6. SafeList(d.list)
  BY <1>2, <1>3 DEF SafeList
<1>7. QED
  BY <1>2, <1>3, <1>5, <1>6

\* What a list of tokens with brackets selects depends on what its retained
\* tokens match.
LEMMA SameCodesSelect ==
  ASSUME NEW c, NEW d, SameEntries(c, d), NEW l, NEW old, NEW new,
         \A k \in DOMAIN Retained(c) : new[k] = old[k]
  PROVE  ListSelectors(Retained(d), l, new) = ListSelectors(Retained(c), l, old)
<1>. DEFINE R == Retained(c)
            T == Retained(d)
<1>1. /\ R \in Seq(ListTokens) /\ T \in Seq(ListTokens) /\ DOMAIN T = DOMAIN R
      /\ \A k \in DOMAIN R : Codes(T[k]) = Codes(R[k])
      /\ \A k \in DOMAIN R : new[k] = old[k]
  BY DEF SameEntries
<1>. HIDE DEF R, T
<1>2. T = <<>> <=> R = <<>>
  BY <1>1
<1>3. ListSelectors(T, l, new) = ListSelectors(R, l, old)
  BY <1>1, <1>2 DEF ListSelectors
<1>4. QED
  BY <1>3 DEF R, T

LEMMA SameMeaning ==
  ASSUME NEW s, NEW n, IsSource(s), SameShape(s, n),
         \A l \in Commented(s) :
            IF s.comments[l].form = "bracket" THEN SameEntries(s.comments[l], n.comments[l])
            ELSE n.comments[l] = s.comments[l]
  PROVE  Selectors(n) = Selectors(s)
<1>1. /\ Commented(n) = Commented(s) /\ LocalLines(n) = LocalLines(s) /\ LinesOf(n) = LinesOf(s)
      /\ \A l \in Commented(s) : InlineRanges(n, l) = InlineRanges(s, l)
      /\ \A l : TargetLine(n, l) = TargetLine(s, l)
      /\ \A t : RangesFrom(n, t) = RangesFrom(s, t) /\ CommentTarget(n, t) = CommentTarget(s, t)
  BY ShapeIsCoverage DEF SameShape
<1>2. SUFFICES ASSUME NEW l \in Commented(s) PROVE SelectorsOn(n, l) = SelectorsOn(s, l)
  BY <1>1 DEF Selectors
<1>. DEFINE c == s.comments[l]
            d == n.comments[l]
<1>3. SameButList(c, d)
  BY DEF SameShape, Commented
<1>4. /\ IsInline(d) <=> IsInline(c)
      /\ IsNoqa(d) <=> IsNoqa(c)
      /\ IsFileWide(d) <=> IsFileWide(c)
  BY <1>3, SameKindOfComment
<1>5. CASE c.form # "bracket"
  <2>1. d = c
    BY <1>5
  <2>2. InlineSelectors(n, l) = InlineSelectors(s, l)
    BY <1>1, <2>1 DEF InlineSelectors
  <2>3. NoqaSelectors(n, l) = NoqaSelectors(s, l)
    BY <1>1, <2>1 DEF NoqaSelectors
  <2>4. FileSelectors(n, l) = FileSelectors(s, l)
    BY <1>1, <2>1 DEF FileSelectors
  <2>5. LocalSelectors(n, l) = LocalSelectors(s, l)
    BY <1>1, <2>1 DEF LocalSelectors
  <2>6. QED
    BY <1>1, <2>1, <2>2, <2>3, <2>4, <2>5 DEF SelectorsOn
<1>6. CASE c.form = "bracket"
  <2>. DEFINE R == Retained(c)
              T == Retained(d)
  <2>1. SameEntries(c, d)
    BY <1>6
  <2>2. DOMAIN T = DOMAIN R /\ \A k \in DOMAIN R : Codes(T[k]) = Codes(R[k])
    BY <2>1 DEF SameEntries
  <2>. HIDE DEF R, T
  <2>3. InlineSelectors(n, l) = InlineSelectors(s, l)
    <3>. DEFINE old == [k \in DOMAIN R |-> [Selector(l, k, Codes(R[k]), {l}) EXCEPT !.ranges = InlineRanges(s, l)]]
                new == [k \in DOMAIN T |-> [Selector(l, k, Codes(T[k]), {l}) EXCEPT !.ranges = InlineRanges(n, l)]]
    <3>1. \A k \in DOMAIN R : new[k] = old[k]
      BY <1>1, <2>2
    <3>2. InlineSelectors(s, l) = ListSelectors(R, l, old) /\ InlineSelectors(n, l) = ListSelectors(T, l, new)
      BY DEF InlineSelectors, R, T
    <3>. HIDE DEF old, new
    <3>3. ListSelectors(T, l, new) = ListSelectors(R, l, old)
      BY <2>1, <3>1, SameCodesSelect DEF R, T
    <3>4. QED
      BY <3>2, <3>3
  <2>4. LocalSelectors(n, l) = LocalSelectors(s, l)
    <3>. DEFINE on(k, list) == \E r \in Codes(list[k]) : CategoryOf[r] = CommentCategory
                old == [k \in DOMAIN R |->
                          [Selector(l, k, Codes(R[k]),
                                    IF on(k, R) THEN CommentTarget(s, TargetLine(s, l)) ELSE {})
                             EXCEPT !.ranges = RangesFrom(s, TargetLine(s, l)), !.self = {l}]]
                new == [k \in DOMAIN T |->
                          [Selector(l, k, Codes(T[k]),
                                    IF on(k, T) THEN CommentTarget(n, TargetLine(n, l)) ELSE {})
                             EXCEPT !.ranges = RangesFrom(n, TargetLine(n, l)), !.self = {l}]]
    <3>1. \A k \in DOMAIN R : new[k] = old[k]
      BY <1>1, <2>2
    <3>2. LocalSelectors(s, l) = ListSelectors(R, l, old) /\ LocalSelectors(n, l) = ListSelectors(T, l, new)
      BY DEF LocalSelectors, R, T
    <3>. HIDE DEF old, new
    <3>3. ListSelectors(T, l, new) = ListSelectors(R, l, old)
      BY <2>1, <3>1, SameCodesSelect DEF R, T
    <3>4. QED
      BY <3>2, <3>3
  <2>5. FileSelectors(n, l) = FileSelectors(s, l)
    <3>. DEFINE old == [k \in DOMAIN R |-> Selector(l, k, Codes(R[k]), LinesOf(s))]
                new == [k \in DOMAIN T |-> Selector(l, k, Codes(T[k]), LinesOf(n))]
    <3>1. \A k \in DOMAIN R : new[k] = old[k]
      BY <1>1, <2>2
    <3>2. FileSelectors(s, l) = ListSelectors(R, l, old) /\ FileSelectors(n, l) = ListSelectors(T, l, new)
      BY <1>3, <1>6 DEF FileSelectors, R, T, SameButList
    <3>. HIDE DEF old, new
    <3>3. ListSelectors(T, l, new) = ListSelectors(R, l, old)
      BY <2>1, <3>1, SameCodesSelect DEF R, T
    <3>4. QED
      BY <3>2, <3>3
  <2>6. ~IsNoqa(c)
    BY <1>6 DEF IsNoqa
  <2>7. QED
    BY <1>1, <1>4, <2>3, <2>4, <2>5, <2>6 DEF SelectorsOn
<1>7. QED
  BY <1>5, <1>6

LEMMA RetainedAre ==
  ASSUME NEW c, c.list \in Seq(ListTokens)
  PROVE  /\ Retained(c) \in Seq(ListTokens)
         /\ \A k \in DOMAIN Retained(c) : \E i \in Tokens(c.list) : Retained(c)[k] = c.list[i]
<1>. DEFINE P == {i \in Tokens(c.list) : Survives(c, i)}
<1>1. P \in SUBSET DOMAIN c.list /\ P \subseteq Tokens(c.list)
  BY DEF Tokens
<1>2. Retained(c) = Elements(c.list, P)
  BY DEF Retained
<1>. HIDE DEF P
<1>3. QED
  BY <1>1, <1>2, ElementsKeepOrder

\* The entries of a list in their normal form.
NormalEntries(c) == [k \in DOMAIN Retained(c) |-> NormalizedToken(Retained(c)[k])]

IsNormalizable(c) == SafeList(c.list) /\ (c.tool = "pydocfmt" => IsSuppression(c))

LEMMA NormalEntriesAre ==
  ASSUME NEW c, IsComment(c), c.form = "bracket"
  PROVE  /\ NormalEntries(c) \in Seq(ListTokens) /\ DOMAIN NormalEntries(c) = DOMAIN Retained(c)
         /\ \A k \in DOMAIN Retained(c) :
              LET t == Retained(c)[k]
                  u == NormalEntries(c)[k]
              IN  /\ t \in ListTokens /\ t.kind # "blank" /\ u = NormalizedToken(t)
                  /\ u.kind = t.kind /\ u.of = t.of /\ Codes(u) = Codes(t)
                  /\ Identity(u) = Identity(t) /\ NormalizedToken(u) = u
         /\ \A d : d.tool = c.tool /\ d.action = c.action /\ d.list = NormalEntries(c) => Reduced(d)
<1>. DEFINE R == Retained(c)
            M == NormalEntries(c)
            e == [c EXCEPT !.list = R]
<1>1. Reduced(e) /\ c.list \in Seq(ListTokens)
  BY ListOf
<1>2. R \in Seq(ListTokens)
  BY <1>1, RetainedAre
<1>3. e.list = R /\ e.tool = c.tool /\ e.action = c.action
  <2>1. e = [c EXCEPT !.list = R]
    OBVIOUS
  <2>. HIDE DEF e, R
  <2>2. QED
    BY <1>2, <2>1, OtherList
<1>4. M = [k \in DOMAIN R |-> NormalizedToken(R[k])]
  BY DEF NormalEntries
<1>. HIDE DEF R, M, e
<1>5. \A k \in DOMAIN R : R[k] \in ListTokens /\ R[k].kind # "blank"
  BY <1>1, <1>2, <1>3 DEF Reduced
<1>6. \A k \in DOMAIN R :
        /\ M[k] = NormalizedToken(R[k]) /\ M[k] \in ListTokens
        /\ M[k].kind = R[k].kind /\ M[k].of = R[k].of /\ Codes(M[k]) = Codes(R[k])
        /\ Identity(M[k]) = Identity(R[k]) /\ NormalizedToken(M[k]) = M[k]
  BY <1>4, <1>5, TokenNormalized
<1>7. M \in Seq(ListTokens) /\ DOMAIN M = DOMAIN R
  <2>1. DOMAIN R = 1..Len(R) /\ Len(R) \in Nat
    BY <1>2
  <2>2. M \in [1..Len(R) -> ListTokens]
    BY <1>4, <1>6, <2>1
  <2>3. QED
    BY <1>4, <2>1, <2>2
<1>8. ASSUME NEW d, d.tool = c.tool, d.action = c.action, d.list = M PROVE Reduced(d)
  <2>1. \A k \in DOMAIN M : M[k].kind # "blank"
    BY <1>5, <1>6, <1>7
  <2>2. \/ \A j, k \in DOMAIN M : Identity(M[j]) = Identity(M[k]) => j = k
        \/ d.tool = "ruff" /\ d.action \in {"disable", "enable"}
    BY <1>1, <1>3, <1>6, <1>7, <1>8 DEF Reduced
  <2>3. QED
    BY <1>7, <1>8, <2>1, <2>2 DEF Reduced
<1>9. QED
  BY <1>5, <1>6, <1>7, <1>8 DEF R, M

\* PCF100 leaves the entries of a list, in their normal form.
LEMMA Normalized ==
  ASSUME NEW c, IsComment(c), c.form = "bracket", IsNormalizable(c)
  PROVE  LET n == Normalize(c)
         IN  /\ n = [c EXCEPT !.list = OrBlank(NormalEntries(c))]
             /\ n.list = OrBlank(NormalEntries(c)) /\ n.list \in Seq(ListTokens)
             /\ Retained(n) = NormalEntries(c) /\ SafeList(n.list)
             /\ \/ n.list = <<Blank>> /\ Retained(c) = <<>>
                \/ n.list = NormalEntries(c) /\ Reduced(n)
<1>. DEFINE M == NormalEntries(c)
            n == Normalize(c)
<1>1. M \in Seq(ListTokens) /\ DOMAIN M = DOMAIN Retained(c) /\ Retained(c) \in Seq(ListTokens)
  BY NormalEntriesAre, RetainedAre, ListOf
<1>2. n = [c EXCEPT !.list = OrBlank(M)]
  BY DEF Normalize, NormalizedList, IsNormalizable, NormalEntries
<1>3. <<Blank>> \in Seq(ListTokens)
  <2>. DEFINE d == [list |-> <<Blank>>]
  <2>1. d.list = <<Blank>>
    OBVIOUS
  <2>. HIDE DEF d
  <2>2. QED
    BY <2>1, NothingRetained
<1>4. OrBlank(M) \in Seq(ListTokens)
  BY <1>1, <1>3 DEF OrBlank
<1>. HIDE DEF M, n
<1>5. n.list = OrBlank(M) /\ n.tool = c.tool /\ n.action = c.action
  BY <1>2, <1>4, OtherList
<1>6. CASE M = <<>>
  <2>1. n.list = <<Blank>>
    BY <1>5, <1>6 DEF OrBlank
  <2>2. Retained(c) = <<>>
    BY <1>1, <1>6
  <2>3. Retained(n) = <<>> /\ SafeList(n.list)
    BY <2>1, NothingRetained
  <2>4. /\ n = [c EXCEPT !.list = OrBlank(M)]
        /\ n.list = OrBlank(M) /\ n.list \in Seq(ListTokens)
        /\ Retained(n) = M /\ SafeList(n.list)
        /\ n.list = <<Blank>> /\ Retained(c) = <<>>
    BY <1>2, <1>4, <1>5, <1>6, <2>1, <2>2, <2>3
  <2>5. QED
    BY <2>4 DEF M, n
<1>7. CASE M # <<>>
  <2>1. n.list = M
    BY <1>5, <1>7 DEF OrBlank
  <2>2. Reduced(n)
    BY <1>5, <2>1, NormalEntriesAre DEF M
  <2>3. Retained(n) = M
    BY <2>1, <2>2, ReducedIsRetained
  <2>4. \A k \in DOMAIN M : M[k].of \notin UnsafeTexts
    <3>1. SUFFICES ASSUME NEW k \in DOMAIN M PROVE M[k].of \notin UnsafeTexts
      OBVIOUS
    <3>2. M[k].of = Retained(c)[k].of
      BY <1>1, NormalEntriesAre DEF M
    <3>3. PICK i \in Tokens(c.list) : Retained(c)[k] = c.list[i]
      BY <1>1, RetainedAre, ListOf
    <3>4. QED
      BY <3>2, <3>3 DEF IsNormalizable, SafeList
  <2>5. \A k \in DOMAIN M : M[k].kind # "blank"
    BY <2>1, <2>2 DEF Reduced
  <2>6. SafeList(n.list)
    <3>1. \A i \in 1..(Len(M) - 1) : i \in DOMAIN M
      BY <1>1
    <3>2. QED
      BY <2>1, <2>4, <2>5, <3>1 DEF SafeList, Tokens
  <2>7. QED
    BY <1>2, <1>4, <1>5, <2>1, <2>2, <2>3, <2>6 DEF M, n
<1>8. QED
  BY <1>6, <1>7

LEMMA NotNormalized == ASSUME NEW c, IsComment(c), ~IsNormalizable(c) PROVE Normalize(c) = c
BY SameList DEF IsNormalizable, Normalize, NormalizedList, IsSuppression

LEMMA NormalizeKeeps ==
  ASSUME NEW c, IsComment(c), c.form = "bracket"
  PROVE  LET n == Normalize(c)
         IN  /\ IsComment(n) /\ SameButList(c, n) /\ n # NoComment /\ n.list \in Seq(ListTokens)
             /\ SameEntries(c, n) /\ Normalize(n) = n
<1>. DEFINE n == Normalize(c)
<1>1. Retained(c) \in Seq(ListTokens) /\ c.list \in Seq(ListTokens)
  BY RetainedAre, ListOf
<1>2. CASE ~IsNormalizable(c)
  <2>1. n = c
    BY <1>2, NotNormalized
  <2>2. c # NoComment
    BY SuppressionsAssumption DEF IsComment
  <2>3. SameButList(c, c) /\ SameEntries(c, c)
    BY <1>1 DEF SameButList, SameEntries
  <2>. HIDE DEF n
  <2>4. QED
    BY <1>1, <2>1, <2>2, <2>3 DEF n
<1>3. CASE IsNormalizable(c)
  <2>1. /\ n = [c EXCEPT !.list = OrBlank(NormalEntries(c))]
        /\ n.list = OrBlank(NormalEntries(c)) /\ n.list \in Seq(ListTokens)
        /\ Retained(n) = NormalEntries(c) /\ SafeList(n.list)
    BY <1>3, Normalized
  <2>. DEFINE list == n.list
  <2>. HIDE DEF n, list
  <2>2. /\ IsComment(n) /\ SameButList(c, n) /\ n # NoComment
        /\ n.tool = c.tool /\ n.action = c.action /\ n.form = c.form
        /\ \A other : [n EXCEPT !.list = other] = [c EXCEPT !.list = other]
        /\ IsSuppression(n) <=> IsSuppression(c)
    <3>1. list \in Seq(ListTokens) /\ n = [c EXCEPT !.list = list]
      BY <2>1 DEF list
    <3>2. IsComment(n) /\ SameButList(c, n) /\ n # NoComment
      BY <3>1, OtherList
    <3>3. n.tool = c.tool /\ n.action = c.action /\ n.form = c.form
      BY <3>1, OtherList
    <3>4. \A other : [n EXCEPT !.list = other] = [c EXCEPT !.list = other]
      BY <3>1, OtherList
    <3>5. IsSuppression(n) <=> IsSuppression(c)
      BY <3>1, OtherList
    <3>6. QED
      BY <3>2, <3>3, <3>4, <3>5
  <2>3. SameEntries(c, n)
    BY <1>1, <2>1, NormalEntriesAre DEF SameEntries
  <2>4. IsNormalizable(n)
    BY <1>3, <2>1, <2>2 DEF IsNormalizable
  <2>5. NormalEntries(n) = NormalEntries(c)
    <3>. DEFINE M == NormalEntries(c)
    <3>1. \A k \in DOMAIN M : NormalizedToken(M[k]) = M[k]
      BY NormalEntriesAre
    <3>2. NormalEntries(n) = [k \in DOMAIN M |-> NormalizedToken(M[k])]
      BY <2>1 DEF NormalEntries
    <3>3. M = [k \in DOMAIN M |-> M[k]]
      BY NormalEntriesAre
    <3>. HIDE DEF M
    <3>4. NormalEntries(n) = M
      BY <3>1, <3>2, <3>3
    <3>5. QED
      BY <3>4 DEF M
  <2>6. Normalize(n) = [n EXCEPT !.list = OrBlank(NormalEntries(n))]
    BY <1>3, <2>2, <2>4, Normalized DEF IsComment
  <2>7. Normalize(n) = n
    BY <2>1, <2>2, <2>5, <2>6
  <2>8. QED
    BY <2>1, <2>2, <2>3, <2>7 DEF n
<1>4. QED
  BY <1>2, <1>3

\* The entries of a list as a policy spells them.
RespelledEntries(c, p) == [k \in DOMAIN Retained(c) |-> Respelled(Retained(c)[k], p)]

\* PCF102 and PCF103 leave the entries of a list, spelled as they require.
LEMMA Represented ==
  ASSUME NEW c, IsComment(c), c.form = "bracket", NEW p \in ExactKinds, PolicyFixes(c, p),
         NEW m, m = Represent(c, p)
  PROVE  /\ m = [c EXCEPT !.list = m.list] /\ m.list \in Seq(ListTokens)
         /\ Retained(m) = RespelledEntries(c, p) /\ ~PolicyFixes(m, p)
         /\ SafeList(c.list) => SafeList(m.list)
<1>. DEFINE L == c.list
            K == KeptByPolicy(c, p)
            E == Elements(L, K)
            T == TargetedList(c, p)
            P == {i \in Tokens(L) : FirstOfIdentity(L, i)}
            Q == {k \in Tokens(T) : FirstOfIdentity(T, k)}
<1>1. L \in Seq(ListTokens) /\ K \in SUBSET DOMAIN L
  BY ListOf DEF KeptByPolicy
<1>2. /\ \A i \in P : i \in K /\ i \in DOMAIN L /\ L[i].kind # "blank" /\ FirstOfIdentity(L, i)
      /\ \A i \in DOMAIN L : L[i].kind # "blank" /\ FirstOfIdentity(L, i) => i \in P
      /\ \A k \in Q : k \in DOMAIN T /\ T[k].kind # "blank" /\ FirstOfIdentity(T, k)
      /\ \A k \in DOMAIN T : T[k].kind # "blank" /\ FirstOfIdentity(T, k) => k \in Q
      /\ P \in SUBSET DOMAIN L /\ Q \in SUBSET DOMAIN T
  BY DEF KeptByPolicy, Tokens
<1>3. T = [k \in DOMAIN E |-> Respelled(E[k], p)]
  BY DEF TargetedList
<1>4. m = [c EXCEPT !.list = T] /\ IsSuppression(c)
  BY DEF Represent, PolicyFixes
<1>. HIDE DEF K, T, E, P, Q
<1>5. /\ E \in Seq(ListTokens)
      /\ \A k \in DOMAIN E : \E i \in K : Place(K, i) = k /\ E[k] = L[i]
      /\ \A i, j \in K : Place(K, i) <= Place(K, j) <=> i <= j
      /\ \A i \in K : Place(K, i) \in DOMAIN E /\ E[Place(K, i)] = L[i]
  <2>1. /\ E \in Seq(ListTokens)
        /\ \A k \in DOMAIN E : \E i \in K : Place(K, i) = k /\ E[k] = L[i]
        /\ \A i, j \in K : Place(K, i) <= Place(K, j) => i <= j
        /\ \A i, j \in K : i <= j => Place(K, i) <= Place(K, j)
    BY <1>1, ElementsKeepOrder DEF E
  <2>2. \A i \in K : Place(K, i) \in DOMAIN E /\ E[Place(K, i)] = L[i]
    BY <1>1, ElementsAre DEF E
  <2>3. QED
    BY <2>1, <2>2
<1>6. T \in Seq(ListTokens) /\ DOMAIN T = DOMAIN E /\ Len(T) = Len(E)
  <2>1. DOMAIN E = 1..Len(E) /\ Len(E) \in Nat
    BY <1>5
  <2>2. T \in [1..Len(E) -> ListTokens]
    BY <1>3, <1>5, <2>1, TokenRespelled
  <2>3. QED
    BY <1>3, <2>1, <2>2
<1>7. ASSUME NEW i \in K
      PROVE  LET t == T[Place(K, i)]
             IN  /\ Place(K, i) \in DOMAIN T /\ t = Respelled(L[i], p)
                 /\ t.of = L[i].of /\ t.kind # Offending(p) /\ Identity(t) = Identity(L[i])
                 /\ t.kind = "blank" <=> L[i].kind = "blank"
  <2>1. Place(K, i) \in DOMAIN T /\ T[Place(K, i)] = Respelled(L[i], p) /\ L[i] \in ListTokens
    BY <1>1, <1>3, <1>5, <1>6
  <2>2. QED
    BY <2>1, TokenRespelled
<1>8. \A k \in DOMAIN T : \E i \in K : Place(K, i) = k
  BY <1>5, <1>6
<1>9. m.list = T /\ m.tool = c.tool /\ m.action = c.action
  BY <1>4, <1>6, OtherList
<1>10. Retained(c) = Elements(L, P) /\ Retained(m) = Elements(T, Q)
  <2>1. c.tool # "ruff"
    BY <1>4 DEF IsSuppression
  <2>2. QED
    BY <1>9, <2>1 DEF Retained, Survives, P, Q
<1>11. ASSUME NEW i \in P PROVE Place(K, i) \in Q
  <2>1. i \in K /\ L[i].kind # "blank" /\ FirstOfIdentity(L, i)
    BY <1>2
  <2>2. ASSUME NEW k \in Tokens(T), Identity(T[k]) = Identity(T[Place(K, i)]) PROVE Place(K, i) <= k
    <3>1. PICK j \in K : Place(K, j) = k
      BY <1>8 DEF Tokens
    <3>2. j \in Tokens(L) /\ Identity(L[j]) = Identity(L[i])
      BY <1>1, <1>7, <2>1, <2>2, <3>1 DEF Tokens
    <3>3. i <= j
      BY <2>1, <3>2 DEF FirstOfIdentity
    <3>4. QED
      BY <1>5, <2>1, <3>1, <3>3
  <2>3. QED
    BY <1>2, <1>7, <2>1, <2>2 DEF FirstOfIdentity
<1>12. ASSUME NEW k \in Q PROVE \E i \in P : Place(K, i) = k
  <2>1. k \in DOMAIN T /\ T[k].kind # "blank" /\ FirstOfIdentity(T, k)
    BY <1>2
  <2>2. PICK i \in K : Place(K, i) = k
    BY <1>8, <2>1
  <2>3. L[i].kind # "blank" /\ i \in DOMAIN L /\ Identity(T[k]) = Identity(L[i])
    BY <1>1, <1>7, <2>1, <2>2
  <2>. DEFINE same == {j \in Tokens(L) : Identity(L[j]) = Identity(L[i])}
  <2>4. same \in SUBSET Nat /\ same # {}
    BY <1>1, <2>3 DEF Tokens
  <2>5. PICK j \in same : \A h \in same : j <= h
    <3>. HIDE DEF same
    <3>1. QED
      BY <2>4, LeastNat
  <2>6. j \in DOMAIN L /\ L[j].kind # "blank" /\ FirstOfIdentity(L, j) /\ j <= i
    BY <2>3, <2>5 DEF Tokens, FirstOfIdentity
  <2>7. j \in P /\ j \in K /\ Identity(L[j]) = Identity(L[i])
    BY <1>2, <2>5, <2>6
  <2>. HIDE DEF same
  <2>8. Place(K, j) \in Tokens(T) /\ Identity(T[Place(K, j)]) = Identity(T[k])
    BY <1>7, <2>3, <2>6, <2>7 DEF Tokens
  <2>9. k <= Place(K, j)
    BY <2>1, <2>8 DEF FirstOfIdentity
  <2>10. i <= j
    BY <1>5, <2>2, <2>7, <2>9
  <2>11. i \in Int /\ j \in Int
    BY <1>1, <2>3, <2>6
  <2>12. i = j
    BY <2>6, <2>10, <2>11
  <2>13. QED
    BY <2>2, <2>7, <2>12
<1>. DEFINE f == [i \in P |-> Place(K, i)]
<1>13. /\ P \in SUBSET Nat /\ IsFiniteSet(P) /\ Q \in SUBSET Nat /\ IsFiniteSet(Q)
       /\ Elements(L, P) \in Seq(ListTokens) /\ Elements(T, Q) \in Seq(ListTokens)
       /\ \A i \in P : Place(P, i) \in DOMAIN Elements(L, P) /\ Elements(L, P)[Place(P, i)] = L[i]
       /\ \A k \in Q : Elements(T, Q)[Place(Q, k)] = T[k]
       /\ \A k \in DOMAIN Elements(L, P) : \E i \in P : Place(P, i) = k
       /\ Len(Elements(L, P)) = Cardinality(P) /\ Len(Elements(T, Q)) = Cardinality(Q)
  BY <1>1, <1>2, <1>6, ElementsAre
<1>14. Cardinality(Q) = Cardinality(P) /\ \A i \in P : Place(Q, Place(K, i)) = Place(P, i)
  <2>1. f \in [P -> Q]
    BY <1>11
  <2>2. \A i, j \in P : i < j => f[i] < f[j]
    <3>1. SUFFICES ASSUME NEW i \in P, NEW j \in P, i < j PROVE Place(K, i) < Place(K, j)
      OBVIOUS
    <3>2. i \in K /\ j \in K /\ i \in Nat /\ j \in Nat /\ Place(K, i) \in Nat /\ Place(K, j) \in Nat
      BY <1>2, <1>11, <1>13
    <3>3. ~(j <= i)
      BY <3>1, <3>2
    <3>4. ~(Place(K, j) <= Place(K, i))
      BY <1>5, <3>2, <3>3
    <3>5. QED
      BY <3>2, <3>4
  <2>3. \A k \in Q : \E i \in P : f[i] = k
    BY <1>12
  <2>4. \A i \in P : f[i] = Place(K, i)
    OBVIOUS
  <2>. HIDE DEF f
  <2>5. P \in SUBSET Nat /\ IsFiniteSet(P) /\ Q \in SUBSET Nat /\ IsFiniteSet(Q)
    BY <1>13
  <2>6. Cardinality(P) = Cardinality(Q) /\ \A i \in P : Place(Q, f[i]) = Place(P, i)
    BY <2>1, <2>2, <2>3, <2>5, SamePlaces
  <2>7. QED
    BY <2>4, <2>6
<1>15. Retained(m) = RespelledEntries(c, p)
  <2>. DEFINE R == Retained(c)
              S == Retained(m)
  <2>1. R = Elements(L, P) /\ S = Elements(T, Q)
    BY <1>10
  <2>2. RespelledEntries(c, p) = [k \in DOMAIN R |-> Respelled(R[k], p)]
    BY DEF RespelledEntries
  <2>. HIDE DEF R, S
  <2>3. DOMAIN S = DOMAIN R /\ S = [k \in DOMAIN S |-> S[k]]
    BY <1>13, <1>14, <2>1
  <2>4. \A k \in DOMAIN R : S[k] = Respelled(R[k], p)
    <3>1. SUFFICES ASSUME NEW k \in DOMAIN R PROVE S[k] = Respelled(R[k], p)
      OBVIOUS
    <3>2. PICK i \in P : Place(P, i) = k
      BY <1>13, <2>1
    <3>3. R[k] = L[i] /\ S[k] = T[Place(K, i)]
      BY <1>11, <1>13, <1>14, <2>1, <3>2
    <3>4. QED
      BY <1>2, <1>7, <3>3
  <2>5. S = [k \in DOMAIN R |-> Respelled(R[k], p)]
    BY <2>3, <2>4
  <2>6. QED
    BY <2>2, <2>5 DEF S
<1>16. ~PolicyFixes(m, p)
  <2>1. \A k \in DOMAIN T : T[k].kind # Offending(p)
    BY <1>7, <1>8
  <2>2. QED
    BY <1>9, <2>1 DEF PolicyFixes, Offenders, Tokens
<1>17. ASSUME SafeList(L) PROVE SafeList(T)
  <2>1. ASSUME NEW k \in 1..(Len(T) - 1) PROVE T[k].kind # "blank"
    <3>1. k \in DOMAIN T /\ k + 1 \in DOMAIN T /\ ~(k + 1 <= k)
      BY <1>6
    <3>2. PICK i \in K : Place(K, i) = k
      BY <1>8, <3>1
    <3>3. PICK j \in K : Place(K, j) = k + 1
      BY <1>8, <3>1
    <3>4. ~(j <= i)
      BY <1>5, <3>1, <3>2, <3>3
    <3>5. i \in 1..(Len(L) - 1)
      BY <1>1, <3>4
    <3>6. QED
      BY <1>7, <1>17, <3>2, <3>5 DEF SafeList
  <2>2. ASSUME NEW k \in Tokens(T) PROVE T[k].of \notin UnsafeTexts
    <3>1. PICK i \in K : Place(K, i) = k
      BY <1>8 DEF Tokens
    <3>2. i \in Tokens(L) /\ T[k].of = L[i].of
      BY <1>1, <1>7, <3>1 DEF Tokens
    <3>3. QED
      BY <1>17, <3>2 DEF SafeList
  <2>3. QED
    BY <2>1, <2>2 DEF SafeList
<1>18. QED
  BY <1>4, <1>6, <1>9, <1>15, <1>16, <1>17

LEMMA RepresentKeeps ==
  ASSUME NEW c, IsComment(c), c.form = "bracket", NEW p \in ExactKinds, NEW m, m = Represent(c, p)
  PROVE  /\ IsComment(m) /\ SameButList(c, m) /\ m # NoComment /\ m.list \in Seq(ListTokens)
         /\ m.form = c.form /\ m.tool = c.tool /\ m.action = c.action
         /\ \E list \in Seq(ListTokens) : m = [c EXCEPT !.list = list]
         /\ IsSuppression(m) <=> IsSuppression(c)
         /\ SameEntries(c, m) /\ ~PolicyFixes(m, p) /\ Represent(m, p) = m
<1>1. Retained(c) \in Seq(ListTokens) /\ c.list \in Seq(ListTokens)
  BY RetainedAre, ListOf
<1>2. ~PolicyFixes(m, p) => Represent(m, p) = m
  BY DEF Represent
<1>3. CASE PolicyFixes(c, p)
  <2>1. /\ m = [c EXCEPT !.list = m.list] /\ m.list \in Seq(ListTokens)
        /\ Retained(m) = RespelledEntries(c, p) /\ ~PolicyFixes(m, p)
    BY <1>3, Represented
  <2>2. IsComment(m) /\ SameButList(c, m) /\ m # NoComment
    BY <2>1, OtherList
  <2>3. m.tool = c.tool /\ m.action = c.action /\ m.form = c.form
    BY <2>1, OtherList
  <2>4. \E list \in Seq(ListTokens) : m = [c EXCEPT !.list = list]
    BY <2>1
  <2>5. IsSuppression(m) <=> IsSuppression(c)
    BY <2>3 DEF IsSuppression
  <2>6. SameEntries(c, m)
    <3>. DEFINE R == Retained(c)
                S == Retained(m)
    <3>1. S = [k \in DOMAIN R |-> Respelled(R[k], p)]
      BY <2>1 DEF RespelledEntries
    <3>2. R \in Seq(ListTokens) /\ S \in Seq(ListTokens)
      BY <1>1, <2>1, RetainedAre
    <3>. HIDE DEF R, S
    <3>3. \A k \in DOMAIN R : R[k] \in ListTokens /\ Codes(S[k]) = Codes(R[k])
      BY <3>1, <3>2, TokenRespelled
    <3>4. DOMAIN S = DOMAIN R
      BY <3>1
    <3>5. QED
      BY <3>2, <3>3, <3>4 DEF SameEntries, R, S
  <2>7. QED
    BY <1>2, <2>1, <2>2, <2>3, <2>4, <2>5, <2>6
<1>4. CASE ~PolicyFixes(c, p)
  <2>1. m = c
    BY <1>4 DEF Represent
  <2>2. c # NoComment
    BY SuppressionsAssumption DEF IsComment
  <2>3. \E list \in Seq(ListTokens) : m = [c EXCEPT !.list = list]
    BY <1>1, <2>1, SameList
  <2>4. QED
    BY <1>1, <1>2, <1>4, <2>1, <2>2, <2>3 DEF SameButList, SameEntries
<1>5. QED
  BY <1>3, <1>4

\* A normalized list has no spelling that the list had not.
LEMMA NormalizeKeepsPolicy ==
  ASSUME NEW c, IsComment(c), c.form = "bracket", NEW p, ~PolicyFixes(c, p)
  PROVE  ~PolicyFixes(Normalize(c), p)
<1>1. CASE ~IsNormalizable(c)
  BY <1>1, NotNormalized
<1>2. CASE IsNormalizable(c)
  <2>. DEFINE n == Normalize(c)
              M == NormalEntries(c)
              R == Retained(c)
  <2>1. n.list = <<Blank>> \/ n.list = M
    BY <1>2, Normalized
  <2>2. SameButList(c, n)
    BY NormalizeKeeps
  <2>3. DOMAIN M = DOMAIN R /\ \A k \in DOMAIN R : M[k].kind = R[k].kind /\ R[k].kind # "blank"
    BY NormalEntriesAre
  <2>4. \A k \in DOMAIN R : \E i \in Tokens(c.list) : R[k] = c.list[i]
    BY RetainedAre, ListOf
  <2>. HIDE DEF n, M, R
  <2>5. IsSuppression(n) <=> IsSuppression(c)
    BY <2>2 DEF SameButList, IsSuppression
  <2>6. CASE n.list = <<Blank>>
    <3>1. Tokens(n.list) = {}
      BY <2>6, NothingRetained
    <3>2. QED
      BY <3>1 DEF PolicyFixes, Offenders, n
  <2>7. CASE n.list = M
    <3>1. ASSUME NEW k \in Offenders(n, p) PROVE Offenders(c, p) # {}
      <4>1. k \in DOMAIN R /\ R[k].kind = Offending(p)
        BY <2>3, <2>7, <3>1 DEF Offenders, Tokens
      <4>2. PICK i \in Tokens(c.list) : R[k] = c.list[i]
        BY <2>4, <4>1
      <4>3. QED
        BY <4>1, <4>2 DEF Offenders
    <3>2. QED
      BY <2>5, <3>1 DEF PolicyFixes, n
  <2>8. QED
    BY <2>1, <2>6, <2>7
<1>3. QED
  BY <1>1, <1>2

\* In a reduced list every entry stays, whatever the policy.
LEMMA ReducedTargets ==
  ASSUME NEW n, Reduced(n), NEW p, IsSuppression(n)
  PROVE  TargetedList(n, p) = [k \in DOMAIN n.list |-> Respelled(n.list[k], p)]
<1>1. n.tool # "ruff" /\ DOMAIN n.list = 1..Len(n.list) /\ Len(n.list) \in Nat
  BY DEF IsSuppression, Reduced
<1>2. \A i \in DOMAIN n.list : FirstOfIdentity(n.list, i)
  BY <1>1 DEF Reduced, Tokens, FirstOfIdentity
<1>3. KeptByPolicy(n, p) = DOMAIN n.list
  BY <1>2 DEF KeptByPolicy
<1>4. Elements(n.list, DOMAIN n.list) = n.list
  BY WholeElements DEF Reduced
<1>5. QED
  BY <1>3, <1>4 DEF TargetedList

\* PCF100 and the policies commute on lists that can be rendered.
LEMMA RewritesCommute ==
  ASSUME NEW c, IsComment(c), c.form = "bracket", NEW p \in ExactKinds, SafeList(c.list)
  PROVE  Normalize(Represent(c, p)) = Represent(Normalize(c), p)
<1>. DEFINE n == Normalize(c)
            m == Represent(c, p)
            R == Retained(c)
            M == NormalEntries(c)
            W == [k \in DOMAIN R |-> Respelled(NormalizedToken(R[k]), p)]
<1>1. /\ IsComment(n) /\ SameButList(c, n) /\ n.list \in Seq(ListTokens)
      /\ IsSuppression(n) <=> IsSuppression(c)
  BY NormalizeKeeps DEF SameButList, IsSuppression
<1>2. /\ IsComment(m) /\ m.form = "bracket" /\ m.list \in Seq(ListTokens)
      /\ m.form = c.form /\ m.tool = c.tool /\ m.action = c.action
      /\ \A other : [m EXCEPT !.list = other] = [c EXCEPT !.list = other]
      /\ IsSuppression(m) <=> IsSuppression(c)
  <2>1. m = Represent(c, p)
    OBVIOUS
  <2>. HIDE DEF m
  <2>2. /\ IsComment(m) /\ m.form = "bracket" /\ m.list \in Seq(ListTokens)
        /\ m.form = c.form /\ m.tool = c.tool /\ m.action = c.action
        /\ IsSuppression(m) <=> IsSuppression(c)
    BY <2>1, RepresentKeeps
  <2>3. \A other : [m EXCEPT !.list = other] = [c EXCEPT !.list = other]
    <3>1. PICK list \in Seq(ListTokens) : m = [c EXCEPT !.list = list]
      BY <2>1, RepresentKeeps
    <3>2. QED
      BY <3>1, OtherList
  <2>4. QED
    BY <2>2, <2>3 DEF m
<1>3. CASE ~IsSuppression(c)
  BY <1>1, <1>3 DEF Represent, PolicyFixes
<1>4. CASE IsSuppression(c)
  <2>1. R \in Seq(ListTokens) /\ DOMAIN M = DOMAIN R /\ \A k \in DOMAIN R : M[k] = NormalizedToken(R[k])
    BY RetainedAre, ListOf, NormalEntriesAre
  <2>2. \A k \in DOMAIN R : R[k] \in ListTokens
    BY <2>1
  <2>3. Retained(m) = [k \in DOMAIN R |-> Respelled(R[k], p)] /\ SafeList(m.list)
    <3>1. CASE PolicyFixes(c, p)
      BY <3>1, Represented DEF RespelledEntries
    <3>2. CASE ~PolicyFixes(c, p)
      <4>1. m = c
        BY <3>2 DEF Represent
      <4>2. \A i \in Tokens(c.list) : c.list[i].kind # Offending(p)
        BY <1>4, <3>2 DEF PolicyFixes, Offenders
      <4>3. \A k \in DOMAIN R : \E i \in Tokens(c.list) : R[k] = c.list[i]
        BY RetainedAre, ListOf
      <4>. HIDE DEF R, m
      <4>4. \A k \in DOMAIN R : Respelled(R[k], p) = R[k]
        BY <4>2, <4>3 DEF Respelled
      <4>5. R = [k \in DOMAIN R |-> R[k]]
        BY <2>1
      <4>6. R = [k \in DOMAIN R |-> Respelled(R[k], p)]
        BY <4>4, <4>5
      <4>7. Retained(m) = R
        BY <4>1 DEF R
      <4>8. QED
        BY <4>1, <4>6, <4>7
    <3>3. QED
      BY <3>1, <3>2
  <2>4. IsNormalizable(c) /\ IsNormalizable(m)
    BY <1>2, <1>4, <2>3 DEF IsNormalizable
  <2>5. NormalEntries(m) = W
    <3>. DEFINE S == Retained(m)
    <3>1. NormalEntries(m) = [k \in DOMAIN S |-> NormalizedToken(S[k])]
      BY DEF NormalEntries
    <3>2. S = [k \in DOMAIN R |-> Respelled(R[k], p)]
      BY <2>3
    <3>. HIDE DEF R, S
    <3>3. \A k \in DOMAIN R : NormalizedToken(Respelled(R[k], p)) = Respelled(NormalizedToken(R[k]), p)
      BY <2>2, TokenRespelled
    <3>4. QED
      BY <3>1, <3>2, <3>3
  <2>6. Normalize(m) = [c EXCEPT !.list = OrBlank(W)]
    <3>. HIDE DEF m, W
    <3>1. Normalize(m) = [m EXCEPT !.list = OrBlank(NormalEntries(m))]
      BY <1>2, <2>4, Normalized
    <3>2. QED
      BY <1>2, <2>5, <3>1
  <2>7. /\ n = [c EXCEPT !.list = OrBlank(M)] /\ n.list = OrBlank(M)
        /\ \/ n.list = <<Blank>> /\ R = <<>>
           \/ n.list = M /\ Reduced(n)
    BY <2>4, Normalized
  <2>8. n.tool = c.tool /\ n.action = c.action /\ \A other : [n EXCEPT !.list = other] = [c EXCEPT !.list = other]
    <3>. DEFINE list == n.list
    <3>. HIDE DEF n, list
    <3>1. list \in Seq(ListTokens) /\ n = [c EXCEPT !.list = list]
      BY <1>1, <2>7 DEF list
    <3>2. n.tool = c.tool /\ n.action = c.action
      BY <3>1, OtherList
    <3>3. \A other : [n EXCEPT !.list = other] = [c EXCEPT !.list = other]
      BY <3>1, OtherList
    <3>4. QED
      BY <3>2, <3>3
  <2>9. W = [k \in DOMAIN M |-> Respelled(M[k], p)]
    <3>. HIDE DEF M, R
    <3>1. QED
      BY <2>1
  <2>. HIDE DEF n, m, R, M, W
  <2>10. CASE n.list = <<Blank>> /\ R = <<>>
    <3>1. W = <<>>
      BY <2>1, <2>9, <2>10
    <3>2. Tokens(n.list) = {}
      BY <2>10, NothingRetained
    <3>3. Represent(n, p) = n
      BY <3>2 DEF Represent, PolicyFixes, Offenders
    <3>4. OrBlank(W) = n.list
      BY <2>10, <3>1 DEF OrBlank
    <3>5. OrBlank(M) = OrBlank(W)
      BY <2>7, <3>4
    <3>6. QED
      BY <2>6, <2>7, <3>3, <3>5 DEF n, m
  <2>11. CASE n.list = M /\ Reduced(n)
    <3>1. M # <<>>
      <4>1. SUFFICES ASSUME M = <<>> PROVE FALSE
        OBVIOUS
      <4>2. n.list = <<Blank>>
        BY <2>7, <4>1 DEF OrBlank
      <4>3. n.list = <<>>
        BY <2>11, <4>1
      <4>4. Len(<<Blank>>) = 1 /\ Len(<<>>) = 0
        OBVIOUS
      <4>5. QED
        BY <4>2, <4>3, <4>4
    <3>2. DOMAIN W = DOMAIN M /\ M \in Seq(ListTokens)
      BY <1>1, <2>9, <2>11
    <3>3. W # <<>>
      BY <3>1, <3>2
    <3>4. OrBlank(W) = W
      BY <3>3 DEF OrBlank
    <3>5. CASE PolicyFixes(n, p)
      <4>1. TargetedList(n, p) = W
        BY <1>1, <1>4, <2>9, <2>11, ReducedTargets
      <4>2. Represent(n, p) = [n EXCEPT !.list = W]
        BY <3>5, <4>1 DEF Represent
      <4>3. QED
        BY <2>6, <2>8, <3>4, <4>2 DEF n, m
    <3>6. CASE ~PolicyFixes(n, p)
      <4>1. Represent(n, p) = n
        BY <3>6 DEF Represent
      <4>2. \A k \in DOMAIN M : M[k].kind # Offending(p)
        BY <1>1, <1>4, <2>11, <3>6 DEF PolicyFixes, Offenders, Tokens, Reduced
      <4>3. \A k \in DOMAIN M : Respelled(M[k], p) = M[k]
        BY <4>2 DEF Respelled
      <4>4. W = [k \in DOMAIN M |-> M[k]] /\ M = [k \in DOMAIN M |-> M[k]]
        BY <2>9, <3>2, <4>3
      <4>5. OrBlank(M) = OrBlank(W)
        BY <4>4
      <4>6. QED
        BY <2>6, <2>7, <4>1, <4>5 DEF n, m
    <3>7. QED
      BY <3>5, <3>6
  <2>12. QED
    BY <2>7, <2>10, <2>11
<1>5. QED
  BY <1>3, <1>4

\* Whichever comes first, PCF100 or a policy, the second pass at the latest
\* comes to the same comment, which no pass rewrites.
LEMMA RewritesSettle ==
  ASSUME NEW c, IsComment(c), c.form = "bracket", NEW p \in ExactKinds
  PROVE  LET both(d) == Represent(Normalize(d), p)
             swapped == Normalize(Represent(c, p))
         IN  /\ both(both(c)) = swapped /\ both(swapped) = swapped
             /\ SafeList(c.list) => both(c) = swapped
<1>. DEFINE both(d) == Represent(Normalize(d), p)
            m == Represent(c, p)
            swapped == Normalize(m)
<1>1. IsComment(m) /\ m.form = "bracket" /\ ~PolicyFixes(m, p)
  BY RepresentKeeps
<1>. HIDE DEF m
<1>2. Normalize(swapped) = swapped /\ ~PolicyFixes(swapped, p)
  BY <1>1, NormalizeKeeps, NormalizeKeepsPolicy
<1>. HIDE DEF swapped
<1>3. both(swapped) = swapped
  BY <1>2 DEF Represent
<1>4. SafeList(c.list) => both(c) = swapped
  BY RewritesCommute DEF swapped, m
<1>5. CASE SafeList(c.list)
  BY <1>3, <1>4, <1>5 DEF swapped, m
<1>6. CASE ~SafeList(c.list)
  <2>1. both(c) = m
    BY <1>6, NotNormalized DEF IsNormalizable, m
  <2>2. both(m) = Represent(swapped, p)
    BY DEF swapped
  <2>3. Represent(swapped, p) = swapped
    BY <1>2 DEF Represent
  <2>4. QED
    BY <1>3, <1>4, <2>1, <2>2, <2>3 DEF swapped, m
<1>7. QED
  BY <1>5, <1>6

\* What is proved of a rewrite of every comment holds of the source.
LEMMA RewrittenShape ==
  ASSUME IsSource(src), NEW f, NEW n,
         n = [src EXCEPT !.comments =
                [l \in LinesOf(src) |->
                   IF src.comments[l] = NoComment \/ src.comments[l].form # "bracket"
                   THEN src.comments[l] ELSE f[l]]],
         \A l \in Commented(src) : src.comments[l].form = "bracket" =>
            /\ f[l] # NoComment /\ SameButList(src.comments[l], f[l])
            /\ SameEntries(src.comments[l], f[l])
  PROVE  Meaning(n) = Meaning(src)
<1>. DEFINE comments == [l \in LinesOf(src) |->
                           IF src.comments[l] = NoComment \/ src.comments[l].form # "bracket"
                           THEN src.comments[l] ELSE f[l]]
<1>1. n.comments = comments /\ n.strings = src.strings
  BY DEF IsSource
<1>2. LinesOf(n) = LinesOf(src) /\ Len(n.comments) = Len(src.comments)
  <2>1. Len(src.comments) \in Nat
    BY DEF IsSource
  <2>2. Len(comments) = Len(src.comments)
    BY <2>1 DEF LinesOf
  <2>3. QED
    BY <1>1, <2>2 DEF LinesOf
<1>3. \A l \in LinesOf(src) :
        n.comments[l] = IF src.comments[l] = NoComment \/ src.comments[l].form # "bracket"
                        THEN src.comments[l] ELSE f[l]
  BY <1>1
<1>. HIDE DEF comments
<1>4. SameShape(src, n)
  BY <1>1, <1>2, <1>3 DEF SameShape, SameButList, Commented
<1>5. \A l \in Commented(src) :
        IF src.comments[l].form = "bracket" THEN SameEntries(src.comments[l], n.comments[l])
        ELSE n.comments[l] = src.comments[l]
  BY <1>3 DEF Commented
<1>6. Selectors(n) = Selectors(src)
  BY <1>4, <1>5, SameMeaning
<1>7. QED
  BY <1>6 DEF Meaning

\* PCF100, PCF102 and PCF103 keep the meaning of every list and settle: in
\* either order the second pass comes to the same lists and the third leaves
\* them, and no entry is left that a policy reports
\* (directives.py, BracketDirective.retained_tokens, targeted_selectors).
THEOREM RewritesAreSafe == PassSpec => []RewritesKeepMeaning
<1>1. PassIInv => RewritesKeepMeaning
  <2>1. SUFFICES ASSUME PassIInv, NEW p \in ExactKinds
                 PROVE  LET both(c) == Represent(Normalize(c), p)
                            twice(c) == both(both(c))
                            swapped(c) == Normalize(Represent(c, p))
                            policyOnly(c) == Represent(c, p)
                        IN  /\ Meaning(Rewritten(both)) = Meaning(src)
                            /\ Meaning(Rewritten(policyOnly)) = Meaning(src)
                            /\ Rewritten(swapped) = Rewritten(twice)
                            /\ \A l \in Commented(src) :
                                  src.comments[l].form = "bracket" =>
                                     /\ SafeList(src.comments[l].list)
                                          => both(src.comments[l]) = swapped(src.comments[l])
                                     /\ both(twice(src.comments[l])) = twice(src.comments[l])
                                     /\ ~PolicyFixes(policyOnly(src.comments[l]), p)
    BY DEF RewritesKeepMeaning
  <2>. DEFINE both(c) == Represent(Normalize(c), p)
              twice(c) == both(both(c))
              swapped(c) == Normalize(Represent(c, p))
              policyOnly(c) == Represent(c, p)
              at(l) == src.comments[l]
              bracket(l) == ~(at(l) = NoComment \/ at(l).form # "bracket")
  <2>2. IsSource(src)
    BY <2>1, SuppressedCheckAssumption DEF PassIInv, src
  <2>3. \A l \in LinesOf(src) : bracket(l) => IsComment(at(l)) /\ at(l).form = "bracket"
    BY <2>2, CommentsOf DEF Commented
  <2>. HIDE DEF at
  <2>4. ASSUME NEW l \in LinesOf(src), bracket(l)
        PROVE  /\ policyOnly(at(l)) # NoComment /\ SameButList(at(l), policyOnly(at(l)))
               /\ SameEntries(at(l), policyOnly(at(l))) /\ ~PolicyFixes(policyOnly(at(l)), p)
    BY <2>3, <2>4, RepresentKeeps
  <2>5. ASSUME NEW l \in LinesOf(src), bracket(l)
        PROVE  /\ both(at(l)) # NoComment /\ SameButList(at(l), both(at(l)))
               /\ SameEntries(at(l), both(at(l)))
    <3>1. /\ IsComment(Normalize(at(l))) /\ SameButList(at(l), Normalize(at(l)))
          /\ SameEntries(at(l), Normalize(at(l)))
      BY <2>3, <2>5, NormalizeKeeps
    <3>2. Normalize(at(l)).form = "bracket"
      BY <2>3, <2>5, <3>1 DEF SameButList
    <3>3. /\ both(at(l)) # NoComment /\ SameButList(Normalize(at(l)), both(at(l)))
          /\ SameEntries(Normalize(at(l)), both(at(l)))
      BY <3>1, <3>2, RepresentKeeps
    <3>4. QED
      BY <3>1, <3>3 DEF SameButList, SameEntries
  <2>6. ASSUME NEW l \in LinesOf(src), bracket(l)
        PROVE  /\ twice(at(l)) = swapped(at(l)) /\ both(twice(at(l))) = twice(at(l))
               /\ SafeList(at(l).list) => both(at(l)) = swapped(at(l))
    BY <2>3, <2>6, RewritesSettle
  <2>7. Meaning(Rewritten(both)) = Meaning(src)
    <3>. DEFINE f == [l \in LinesOf(src) |-> both(src.comments[l])]
    <3>1. Rewritten(both) = [src EXCEPT !.comments =
                [l \in LinesOf(src) |->
                   IF src.comments[l] = NoComment \/ src.comments[l].form # "bracket"
                   THEN src.comments[l] ELSE f[l]]]
      BY DEF Rewritten
    <3>2. \A l \in Commented(src) : src.comments[l].form = "bracket" =>
            /\ f[l] # NoComment /\ SameButList(src.comments[l], f[l])
            /\ SameEntries(src.comments[l], f[l])
      BY <2>5 DEF Commented, at
    <3>. HIDE DEF f, both
    <3>3. QED
      BY <2>2, <3>1, <3>2, RewrittenShape
  <2>8. Meaning(Rewritten(policyOnly)) = Meaning(src)
    <3>. DEFINE f == [l \in LinesOf(src) |-> policyOnly(src.comments[l])]
    <3>1. Rewritten(policyOnly) = [src EXCEPT !.comments =
                [l \in LinesOf(src) |->
                   IF src.comments[l] = NoComment \/ src.comments[l].form # "bracket"
                   THEN src.comments[l] ELSE f[l]]]
      BY DEF Rewritten
    <3>2. \A l \in Commented(src) : src.comments[l].form = "bracket" =>
            /\ f[l] # NoComment /\ SameButList(src.comments[l], f[l])
            /\ SameEntries(src.comments[l], f[l])
      BY <2>4 DEF Commented, at
    <3>. HIDE DEF f, policyOnly
    <3>3. QED
      BY <2>2, <3>1, <3>2, RewrittenShape
  <2>9. Rewritten(swapped) = Rewritten(twice)
    <3>1. \A l \in LinesOf(src) : bracket(l) => swapped(at(l)) = twice(at(l))
      BY <2>6
    <3>. HIDE DEF both, swapped
    <3>2. QED
      BY <3>1 DEF Rewritten, at
  <2>10. \A l \in Commented(src) : src.comments[l].form = "bracket" =>
           /\ SafeList(src.comments[l].list) => both(src.comments[l]) = swapped(src.comments[l])
           /\ both(twice(src.comments[l])) = twice(src.comments[l])
           /\ ~PolicyFixes(policyOnly(src.comments[l]), p)
    BY <2>4, <2>6 DEF Commented, at
  <2>11. QED
    BY <2>7, <2>8, <2>9, <2>10
<1>2. QED
  BY <1>1, PassInvariant, PTL

-----------------------------------------------------------------------------
(* Recursion over numbers, and sequences of sequences                      *)

Solves(f, start, step, n) ==
    f[0] = start /\ \A k \in 1..n : f[k] = step[<<k, f[k - 1]>>]

\* A recursive definition over the numbers up to n has a solution.
LEMMA RecursionExists ==
  ASSUME NEW n \in Nat, NEW V, NEW start \in V, NEW step \in [(1..n) \X V -> V]
  PROVE  \E f \in [0..n -> V] : Solves(f, start, step, n)
<1>. DEFINE Open == {m \in 0..n : ~ \E f \in [0..m -> V] : Solves(f, start, step, m)}
<1>1. SUFFICES ASSUME ~ \E f \in [0..n -> V] : Solves(f, start, step, n)
               PROVE  FALSE
  OBVIOUS
<1>2. PICK m \in Open : \A k \in Open : m <= k
  <2>1. n \in Open
    BY <1>1
  <2>2. Open \in SUBSET Nat
    OBVIOUS
  <2>. HIDE DEF Open
  <2>3. QED
    BY <2>1, <2>2, LeastNat
<1>3. m \in 0..n /\ ~ \E f \in [0..m -> V] : Solves(f, start, step, m)
  OBVIOUS
<1>4. CASE m = 0
  <2>. DEFINE g == [k \in 0..0 |-> start]
  <2>1. g \in [0..0 -> V] /\ Solves(g, start, step, 0)
    BY DEF Solves
  <2>. HIDE DEF g
  <2>2. QED
    BY <2>1, <1>3, <1>4
<1>5. CASE m # 0
  <2>1. m - 1 \in 0..n /\ ~(m <= m - 1)
    BY <1>3, <1>5
  <2>2. PICK f \in [0..(m - 1) -> V] : Solves(f, start, step, m - 1)
    BY <2>1, <1>2
  <2>. DEFINE g == [k \in 0..m |-> IF k = m THEN step[<<m, f[m - 1]>>] ELSE f[k]]
  <2>3. m \in 1..n /\ f[m - 1] \in V
    BY <2>1, <2>2, <1>3, <1>5
  <2>4. step[<<m, f[m - 1]>>] \in V
    BY <2>3
  <2>5. g \in [0..m -> V]
    <3>1. \A k \in 0..m : k # m => k \in 0..(m - 1)
      BY <1>3
    <3>2. QED
      BY <2>2, <2>4, <3>1
  <2>6. g[0] = start
    BY <2>1, <2>2, <1>3, <1>5 DEF Solves
  <2>7. ASSUME NEW k \in 1..m PROVE g[k] = step[<<k, g[k - 1]>>]
    <3>1. k - 1 \in 0..m /\ k - 1 # m /\ k \in 0..m
      BY <1>3
    <3>2. g[k - 1] = f[k - 1]
      BY <3>1
    <3>3. CASE k = m
      BY <3>1, <3>2, <3>3
    <3>4. CASE k # m
      <4>1. k \in 1..(m - 1) /\ g[k] = f[k]
        BY <3>1, <3>4, <1>3
      <4>2. QED
        BY <4>1, <3>2, <2>2 DEF Solves
    <3>5. QED
      BY <3>3, <3>4
  <2>. HIDE DEF g
  <2>8. Solves(g, start, step, m)
    BY <2>6, <2>7 DEF Solves
  <2>9. QED
    BY <2>5, <2>8, <1>3
<1>6. QED
  BY <1>4, <1>5

SameSteps(f, g, m) ==
    f[0] = g[0] /\ \A k \in 1..m : f[k - 1] = g[k - 1] => f[k] = g[k]

\* Two solutions that go on in the same way are the same.
LEMMA RecursionUnique ==
  ASSUME NEW m \in Nat, NEW f, NEW g, SameSteps(f, g, m)
  PROVE  \A k \in 0..m : f[k] = g[k]
<1>. DEFINE Apart == {k \in 0..m : f[k] # g[k]}
<1>1. SUFFICES ASSUME Apart # {}
               PROVE  FALSE
  OBVIOUS
<1>2. PICK k \in Apart : \A j \in Apart : k <= j
  <2>1. Apart \in SUBSET Nat
    OBVIOUS
  <2>. HIDE DEF Apart
  <2>2. QED
    BY <2>1, <1>1, LeastNat
<1>3. k # 0 => k \in 1..m /\ k - 1 \in 0..m /\ ~(k <= k - 1)
  OBVIOUS
<1>4. k # 0 => k - 1 \notin Apart
  BY <1>2, <1>3
<1>5. k # 0 => f[k] = g[k]
  BY <1>3, <1>4 DEF SameSteps
<1>6. QED
  BY <1>5 DEF SameSteps

\* How FlattenSeq goes through the sequences it puts together.
Flattens(f, c, n) ==
    f[0] = <<>> /\ \A k \in 1..n : f[k] = f[k - 1] \o c[k]

LEMMA FlattenIs ==
  ASSUME NEW X, NEW n \in Nat, NEW c \in [1..n -> Seq(X)]
  PROVE  \E f \in [0..n -> Seq(X)] : Flattens(f, c, n) /\ FlattenSeq(c) = f[n]
<1>1. c \in Seq(Seq(X)) /\ Len(c) = n
  OBVIOUS
<1>. DEFINE step == [p \in (1..n) \X Seq(X) |-> p[2] \o c[p[1]]]
<1>2. PICK f \in [0..n -> Seq(X)] : Solves(f, <<>>, step, n)
  <2>1. step \in [(1..n) \X Seq(X) -> Seq(X)]
    BY ConcatProperties
  <2>2. <<>> \in Seq(X)
    OBVIOUS
  <2>. HIDE DEF step
  <2>3. QED
    BY <2>1, <2>2, RecursionExists
<1>3. ASSUME NEW k \in 1..n PROVE k - 1 \in 0..n /\ f[k - 1] \in Seq(X) /\ f[k] = f[k - 1] \o c[k]
  <2>1. k - 1 \in 0..n
    OBVIOUS
  <2>2. f[k - 1] \in Seq(X) /\ <<k, f[k - 1]>> \in (1..n) \X Seq(X)
    BY <2>1
  <2>3. QED
    BY <1>2, <2>1, <2>2 DEF Solves
<1>4. f[0] = <<>> /\ Flattens(f, c, n)
  BY <1>2, <1>3 DEF Flattens, Solves
<1>5. CASE n = 0
  <2>1. c = <<>>
    BY <1>5, <1>1
  <2>2. QED
    BY <2>1, <1>1, <1>2, <1>4, <1>5 DEF FlattenSeq
<1>6. CASE n # 0
  <2>. DEFINE Goes(h) == h = [i \in 1..n |-> IF i = 1 THEN c[i] ELSE h[i - 1] \o c[i]]
              h0 == CHOOSE h : Goes(h)
              g0 == [i \in 1..n |-> f[i]]
  <2>1. FlattenSeq(c) = h0[n]
    BY <1>1, <1>6, Zenon DEF FlattenSeq
  <2>2. Goes(g0)
    <3>1. ASSUME NEW i \in 1..n PROVE f[i] = IF i = 1 THEN c[i] ELSE g0[i - 1] \o c[i]
      <4>1. CASE i = 1
        <5>1. c[i] \in Seq(X) /\ f[i] = f[i - 1] \o c[i]
          BY <1>3
        <5>2. i - 1 = 0
          BY <4>1
        <5>3. f[i] = <<>> \o c[i]
          BY <5>1, <5>2, <1>4
        <5>4. QED
          BY <4>1, <5>1, <5>3, ConcatEmptySeq
      <4>2. CASE i # 1
        <5>1. i - 1 \in 1..n
          BY <4>2
        <5>2. QED
          BY <5>1, <4>2, <1>3
      <4>3. QED
        BY <4>1, <4>2
    <3>2. QED
      BY <3>1
  <2>3. Goes(h0)
    <3>. HIDE DEF Goes
    <3>1. QED
      BY <2>2, Zenon
  <2>. DEFINE h1 == [i \in 0..n |-> IF i = 0 THEN <<>> ELSE h0[i]]
  <2>. HIDE DEF h0
  <2>4. \A i \in 1..n : h0[i] = IF i = 1 THEN c[i] ELSE h0[i - 1] \o c[i]
    BY <2>3
  <2>. HIDE DEF Goes, g0
  <2>5. ASSUME NEW k \in 1..n, h1[k - 1] = f[k - 1] PROVE h1[k] = f[k]
    <3>1. h1[k] = h0[k]
      OBVIOUS
    <3>2. CASE k = 1
      <4>1. c[k] \in Seq(X) /\ f[k] = f[k - 1] \o c[k]
        BY <1>3
      <4>2. k - 1 = 0 /\ h0[k] = c[k]
        BY <3>2, <2>4
      <4>3. f[k] = <<>> \o c[k]
        BY <4>1, <4>2, <1>4
      <4>4. QED
        BY <3>1, <4>1, <4>2, <4>3, ConcatEmptySeq
    <3>3. CASE k # 1
      <4>1. k - 1 \in 0..n /\ k - 1 # 0
        BY <3>3
      <4>2. h1[k - 1] = h0[k - 1]
        BY <4>1
      <4>3. QED
        BY <4>2, <3>1, <3>3, <2>4, <2>5, <1>3
    <3>4. QED
      BY <3>2, <3>3
  <2>6. h1[0] = f[0] /\ h1[n] = h0[n]
    BY <1>4, <1>6
  <2>. HIDE DEF h1
  <2>7. \A k \in 0..n : h1[k] = f[k]
    <3>1. SameSteps(h1, f, n)
      BY <2>5, <2>6 DEF SameSteps
    <3>2. QED
      BY <3>1, RecursionUnique
  <2>8. QED
    BY <2>1, <2>6, <2>7, <1>4
<1>7. QED
  BY <1>5, <1>6

LEMMA FlattenNone == FlattenSeq(<<>>) = <<>>
BY DEF FlattenSeq

\* One sequence more.
LEMMA FlattenNext ==
  ASSUME NEW X, NEW n \in Nat \ {0}, NEW c \in [1..n -> Seq(X)]
  PROVE  /\ FlattenSeq(c) \in Seq(X)
         /\ FlattenSeq([i \in 1..(n - 1) |-> c[i]]) \in Seq(X)
         /\ FlattenSeq(c) = FlattenSeq([i \in 1..(n - 1) |-> c[i]]) \o c[n]
<1>. DEFINE d == [i \in 1..(n - 1) |-> c[i]]
<1>1. n \in Nat /\ n - 1 \in Nat /\ n \in 1..n
  OBVIOUS
<1>2. d \in [1..(n - 1) -> Seq(X)]
  OBVIOUS
<1>3. PICK f \in [0..n -> Seq(X)] : Flattens(f, c, n) /\ FlattenSeq(c) = f[n]
  BY <1>1, FlattenIs
<1>4. \A k \in 1..(n - 1) : d[k] = c[k] /\ k \in 1..n
  OBVIOUS
<1>. HIDE DEF d
<1>5. PICK g \in [0..(n - 1) -> Seq(X)] : Flattens(g, d, n - 1) /\ FlattenSeq(d) = g[n - 1]
  BY <1>1, <1>2, FlattenIs
<1>6. ASSUME NEW k \in 1..(n - 1), f[k - 1] = g[k - 1] PROVE f[k] = g[k]
  BY <1>3, <1>4, <1>5, <1>6 DEF Flattens
<1>7. f[0] = g[0]
  BY <1>3, <1>5 DEF Flattens
<1>8. f[n - 1] = g[n - 1]
  <2>. DEFINE m == n - 1
  <2>1. m \in Nat /\ SameSteps(f, g, m)
    BY <1>6, <1>7 DEF SameSteps
  <2>. HIDE DEF m
  <2>2. \A k \in 0..m : f[k] = g[k]
    <3>1. \A h, e : SameSteps(h, e, m) => \A k \in 0..m : h[k] = e[k]
      BY <2>1, RecursionUnique, Zenon
    <3>2. QED
      BY <2>1, <3>1, Zenon
  <2>3. m \in 0..m
    BY <2>1
  <2>4. QED
    BY <2>2, <2>3 DEF m
<1>9. f[n] = f[n - 1] \o c[n]
  BY <1>1, <1>3 DEF Flattens
<1>10. FlattenSeq(c) \in Seq(X) /\ FlattenSeq(d) \in Seq(X)
  BY <1>1, <1>3, <1>5
<1>11. QED
  BY <1>3, <1>5, <1>8, <1>9, <1>10 DEF d

-----------------------------------------------------------------------------
(* Slices                                                                  *)

LEMMA SliceIs ==
  ASSUME NEW X, NEW s \in Seq(X), NEW a \in Nat, NEW b \in 0..Len(s)
  PROVE  /\ Slice(s, a, b) \in Seq(X)
         /\ Len(Slice(s, a, b)) = IF a <= b THEN b - a ELSE 0
         /\ \A i \in 1..(b - a) : Slice(s, a, b)[i] = s[a + i]
<1>1. \A i \in (a + 1)..b : s[i] \in X
  BY ElementOfSeq
<1>2. a + 1 \in Int /\ b \in Int
  OBVIOUS
<1>3. /\ SubSeq(s, a + 1, b) \in Seq(X)
      /\ Len(SubSeq(s, a + 1, b)) = IF a + 1 <= b THEN b - (a + 1) + 1 ELSE 0
      /\ \A i \in 1..(b - (a + 1) + 1) : SubSeq(s, a + 1, b)[i] = s[(a + 1) + i - 1]
  BY <1>1, <1>2, SubSeqProperties
<1>4. (a + 1 <= b <=> a < b) /\ b - (a + 1) + 1 = b - a /\ \A i \in Int : (a + 1) + i - 1 = a + i
  BY <1>2
<1>5. QED
  BY <1>2, <1>3, <1>4 DEF Slice

LEMMA SliceWhole ==
  ASSUME NEW X, NEW s \in Seq(X)
  PROVE  Slice(s, 0, Len(s)) = s
BY SubSeqFull DEF Slice

\* Slices that meet.
LEMMA SlicesMeet ==
  ASSUME NEW X, NEW s \in Seq(X), NEW c \in 0..Len(s), NEW b \in 0..c, NEW a \in 0..b
  PROVE  Slice(s, a, b) \o Slice(s, b, c) = Slice(s, a, c)
<1>1. a + 1 \in 1..(Len(s) + 1) /\ b \in ((a + 1) - 1)..Len(s) /\ c \in b..Len(s)
  BY LenProperties
<1>2. QED
  BY <1>1, ConcatAdjacentSubSeq DEF Slice

LEMMA SliceOfSlice ==
  ASSUME NEW X, NEW s \in Seq(X), NEW b \in 0..Len(s), NEW e \in 0..b, NEW a \in 0..e
  PROVE  Slice(Slice(s, 0, b), a, e) = Slice(s, a, e)
<1>. DEFINE p == Slice(s, 0, b)
<1>1. Len(s) \in Nat
  BY LenProperties
<1>2. a \in Nat /\ e \in 0..Len(s) /\ 0 \in Nat /\ b \in Nat /\ e \in Nat
  BY <1>1
<1>3. p \in Seq(X) /\ Len(p) = b /\ \A i \in 1..b : p[i] = s[i]
  <2>1. /\ p \in Seq(X) /\ Len(p) = IF 0 <= b THEN b - 0 ELSE 0
        /\ \A i \in 1..(b - 0) : p[i] = s[0 + i]
    BY <1>2, SliceIs
  <2>2. b - 0 = b /\ 0 <= b /\ \A i \in 1..b : 0 + i = i
    BY <1>2
  <2>. HIDE DEF p
  <2>3. QED
    BY <2>1, <2>2
<1>. HIDE DEF p
<1>4. e \in 0..Len(p)
  BY <1>3
<1>5. /\ Slice(p, a, e) \in Seq(X) /\ Len(Slice(p, a, e)) = IF a <= e THEN e - a ELSE 0
      /\ \A i \in 1..(e - a) : Slice(p, a, e)[i] = p[a + i]
  <2>1. p \in Seq(X) /\ a \in Nat /\ e \in 0..Len(p)
    BY <1>2, <1>3, <1>4
  <2>2. Slice(p, a, e) \in Seq(X)
    BY <2>1, SliceIs
  <2>3. Len(Slice(p, a, e)) = IF a <= e THEN e - a ELSE 0
    BY <2>1, SliceIs
  <2>4. \A i \in 1..(e - a) : Slice(p, a, e)[i] = p[a + i]
    BY <2>1, SliceIs
  <2>5. QED
    BY <2>2, <2>3, <2>4
<1>6. /\ Slice(s, a, e) \in Seq(X) /\ Len(Slice(s, a, e)) = IF a <= e THEN e - a ELSE 0
      /\ \A i \in 1..(e - a) : Slice(s, a, e)[i] = s[a + i]
  BY <1>2, SliceIs
<1>7. \A i \in 1..(e - a) : a + i \in 1..b
  BY <1>2
<1>8. \A i \in 1..Len(Slice(p, a, e)) : i \in 1..(e - a)
  BY <1>2, <1>5
<1>9. \A i \in 1..Len(Slice(p, a, e)) : Slice(p, a, e)[i] = Slice(s, a, e)[i]
  BY <1>3, <1>5, <1>6, <1>7, <1>8
<1>10. Slice(p, a, e) = Slice(s, a, e)
  BY <1>5, <1>6, <1>9, SeqEqual
<1>11. QED
  BY <1>10 DEF p

\* What is before and behind some place in the first of two sequences.
LEMMA SliceOfBoth ==
  ASSUME NEW X, NEW s \in Seq(X), NEW t \in Seq(X), NEW e \in 0..Len(s)
  PROVE  /\ s \o t \in Seq(X)
         /\ Slice(s \o t, 0, e) = Slice(s, 0, e)
         /\ Slice(s \o t, e, Len(s \o t)) = Slice(s, e, Len(s)) \o t
<1>1. Len(s) \in Nat /\ Len(t) \in Nat
  BY LenProperties
<1>2. s \o t \in Seq(X) /\ Len(s \o t) = Len(s) + Len(t)
  BY ConcatProperties
<1>3. \A i \in 1..(Len(s) + Len(t)) : (s \o t)[i] = IF i <= Len(s) THEN s[i] ELSE t[i - Len(s)]
  BY ConcatProperties
<1>. DEFINE b == s \o t
<1>. HIDE DEF b
<1>4. e \in Nat /\ 0 \in Nat /\ Len(s) \in 0..Len(s) /\ e \in 0..Len(b) /\ Len(b) \in 0..Len(b)
  BY <1>1, <1>2 DEF b
<1>5. Slice(b, 0, e) = Slice(s, 0, e)
  <2>1. /\ Slice(b, 0, e) \in Seq(X) /\ Len(Slice(b, 0, e)) = IF 0 <= e THEN e - 0 ELSE 0
        /\ \A i \in 1..(e - 0) : Slice(b, 0, e)[i] = b[0 + i]
    BY <1>2, <1>4, SliceIs DEF b
  <2>2. /\ Slice(s, 0, e) \in Seq(X) /\ Len(Slice(s, 0, e)) = IF 0 <= e THEN e - 0 ELSE 0
        /\ \A i \in 1..(e - 0) : Slice(s, 0, e)[i] = s[0 + i]
    BY <1>4, SliceIs
  <2>3. \A i \in 1..(e - 0) : b[0 + i] = s[0 + i]
    BY <1>1, <1>3, <1>4 DEF b
  <2>4. \A i \in 1..Len(Slice(b, 0, e)) : Slice(b, 0, e)[i] = Slice(s, 0, e)[i]
    BY <1>4, <2>1, <2>2, <2>3
  <2>5. QED
    BY <2>1, <2>2, <2>4, SeqEqual
<1>6. Slice(b, e, Len(b)) = Slice(s, e, Len(s)) \o t
  <2>. DEFINE l == Slice(b, e, Len(b))
              r == Slice(s, e, Len(s))
  <2>1. /\ l \in Seq(X) /\ Len(l) = IF e <= Len(b) THEN Len(b) - e ELSE 0
        /\ \A i \in 1..(Len(b) - e) : l[i] = b[e + i]
    BY <1>2, <1>4, SliceIs DEF b
  <2>2. /\ r \in Seq(X) /\ Len(r) = IF e <= Len(s) THEN Len(s) - e ELSE 0
        /\ \A i \in 1..(Len(s) - e) : r[i] = s[e + i]
    BY <1>4, SliceIs
  <2>. HIDE DEF l, r
  <2>3. Len(r) = Len(s) - e /\ Len(l) = (Len(s) - e) + Len(t)
    BY <1>1, <1>2, <1>4, <2>1, <2>2 DEF b
  <2>4. /\ r \o t \in Seq(X) /\ Len(r \o t) = Len(l)
        /\ \A i \in 1..Len(l) : (r \o t)[i] = IF i <= Len(r) THEN r[i] ELSE t[i - Len(r)]
    BY <2>2, <2>3, ConcatProperties
  <2>5. ASSUME NEW i \in 1..Len(l) PROVE l[i] = (r \o t)[i]
    <3>1. e + i \in 1..(Len(s) + Len(t)) /\ i \in 1..(Len(b) - e)
      BY <1>1, <1>2, <1>4, <2>3 DEF b
    <3>2. l[i] = b[e + i]
      BY <3>1, <2>1
    <3>3. CASE i <= Len(r)
      <4>1. e + i <= Len(s) /\ i \in 1..(Len(s) - e)
        BY <3>1, <3>3, <1>1, <1>4, <2>3
      <4>2. b[e + i] = s[e + i]
        BY <4>1, <3>1, <1>3 DEF b
      <4>3. QED
        BY <3>2, <3>3, <4>1, <4>2, <2>2, <2>4
    <3>4. CASE ~(i <= Len(r))
      <4>1. ~(e + i <= Len(s)) /\ (e + i) - Len(s) = i - Len(r)
        BY <3>1, <3>4, <1>1, <1>4, <2>3
      <4>2. b[e + i] = t[i - Len(r)]
        BY <4>1, <3>1, <1>3 DEF b
      <4>3. QED
        BY <3>2, <3>4, <4>2, <2>4
    <3>5. QED
      BY <3>3, <3>4
  <2>6. l = r \o t
    BY <2>1, <2>4, <2>5, SeqEqual
  <2>7. QED
    BY <2>6 DEF l, r
<1>7. QED
  BY <1>2, <1>5, <1>6 DEF b

-----------------------------------------------------------------------------
(* Positions of a text                                                     *)

\* A text put together line by line.
LEMMA BeforeIs ==
  ASSUME NEW text \in Seq(Seq(Characters))
  PROVE  /\ \A l \in 1..(Len(text) + 1) : Before(text, l) \in Seq(Characters)
         /\ Before(text, 1) = <<>>
         /\ \A l \in 1..Len(text) : /\ Append(text[l], EndOfLine) \in Seq(Characters)
                                    /\ Len(Append(text[l], EndOfLine)) = Len(text[l]) + 1
                                    /\ Len(text[l]) \in Nat /\ text[l] \in Seq(Characters)
                                    /\ Before(text, l + 1) = Before(text, l) \o Append(text[l], EndOfLine)
<1>0. Len(text) \in Nat
  BY LenProperties
<1>1. ASSUME NEW l \in 1..Len(text)
      PROVE  /\ Append(text[l], EndOfLine) \in Seq(Characters)
             /\ Len(Append(text[l], EndOfLine)) = Len(text[l]) + 1
             /\ Len(text[l]) \in Nat /\ text[l] \in Seq(Characters)
  <2>1. text[l] \in Seq(Characters)
    BY ElementOfSeq
  <2>2. QED
    BY <2>1, AppendProperties, LenProperties, SourceEditsAssumption
<1>2. Before(text, 1) = <<>>
  <2>1. [k \in 1..(1 - 1) |-> Append(text[k], EndOfLine)] = <<>>
    OBVIOUS
  <2>2. QED
    BY <2>1, FlattenNone DEF Before
<1>3. ASSUME NEW l \in 1..Len(text)
      PROVE  /\ Before(text, l + 1) \in Seq(Characters)
             /\ Before(text, l + 1) = Before(text, l) \o Append(text[l], EndOfLine)
  <2>. DEFINE c == [k \in 1..l |-> Append(text[k], EndOfLine)]
  <2>1. l \in Nat \ {0} /\ (l + 1) - 1 = l
    BY <1>0
  <2>2. c \in [1..l -> Seq(Characters)] /\ c[l] = Append(text[l], EndOfLine)
    BY <1>0, <1>1
  <2>3. Before(text, l + 1) = FlattenSeq(c)
    BY <2>1 DEF Before
  <2>4. [i \in 1..(l - 1) |-> c[i]] = [k \in 1..(l - 1) |-> Append(text[k], EndOfLine)]
    BY <2>1
  <2>5. Before(text, l) = FlattenSeq([i \in 1..(l - 1) |-> c[i]])
    BY <2>4 DEF Before
  <2>. HIDE DEF c
  <2>6. FlattenSeq(c) \in Seq(Characters) /\ FlattenSeq(c) = FlattenSeq([i \in 1..(l - 1) |-> c[i]]) \o c[l]
    BY <2>1, <2>2, FlattenNext
  <2>7. QED
    BY <2>2, <2>3, <2>5, <2>6
<1>4. ASSUME NEW l \in 1..(Len(text) + 1)
      PROVE  Before(text, l) \in Seq(Characters)
  <2>1. CASE l = 1
    BY <2>1, <1>2, EmptySeq
  <2>2. CASE l # 1
    <3>1. l - 1 \in 1..Len(text) /\ (l - 1) + 1 = l
      BY <2>2, <1>0
    <3>2. QED
      BY <3>1, <1>3
  <2>3. QED
    BY <2>1, <2>2
<1>5. QED
  BY <1>1, <1>2, <1>3, <1>4

\* What is before a line is before every later one, at the same place, and the
\* line behind it.
LEMMA BeforeIsPrefix ==
  ASSUME NEW text \in Seq(Seq(Characters)), NEW l \in 1..(Len(text) + 1), NEW m \in l..(Len(text) + 1)
  PROVE  /\ LineStart(text, l) \in Nat /\ LineStart(text, m) \in Nat
         /\ LineStart(text, l) <= LineStart(text, m)
         /\ Before(text, l) = Slice(Before(text, m), 0, LineStart(text, l))
<1>0. Len(text) \in Nat
  BY LenProperties
<1>. DEFINE n == (Len(text) + 1) - l
            Wrong == {d \in 0..n :
                        ~ /\ LineStart(text, l) <= LineStart(text, l + d)
                          /\ Before(text, l) = Slice(Before(text, l + d), 0, LineStart(text, l))}
<1>1. \A k \in 1..(Len(text) + 1) : Before(text, k) \in Seq(Characters) /\ LineStart(text, k) \in Nat
  BY BeforeIs, LenProperties DEF LineStart
<1>2. SUFFICES ASSUME Wrong # {}
               PROVE  FALSE
  <2>1. m - l \in 0..n /\ l + (m - l) = m /\ l \in 1..(Len(text) + 1) /\ m \in 1..(Len(text) + 1)
    BY <1>0
  <2>2. m - l \notin Wrong
    BY <1>2
  <2>3. QED
    BY <2>1, <2>2, <1>1
<1>3. PICK d \in Wrong : \A k \in Wrong : d <= k
  <2>1. Wrong \in SUBSET Nat
    BY <1>0
  <2>. HIDE DEF Wrong
  <2>2. QED
    BY <2>1, <1>2, LeastNat
<1>4. d \in 0..n
  OBVIOUS
<1>5. CASE d = 0
  <2>1. l + d = l /\ l \in 1..(Len(text) + 1)
    BY <1>5, <1>0
  <2>2. Before(text, l) = Slice(Before(text, l), 0, LineStart(text, l))
    BY <1>1, SliceWhole DEF LineStart
  <2>3. QED
    BY <2>1, <2>2, <1>1
<1>6. CASE d # 0
  <2>. DEFINE k == l + (d - 1)
  <2>1. d - 1 \in 0..n /\ ~(d <= d - 1) /\ k \in 1..Len(text) /\ k + 1 = l + d
    BY <1>0, <1>4, <1>6
  <2>2. d - 1 \notin Wrong
    BY <2>1, <1>3
  <2>3. /\ LineStart(text, l) <= LineStart(text, k)
        /\ Before(text, l) = Slice(Before(text, k), 0, LineStart(text, l))
    BY <2>1, <2>2
  <2>4. ~ /\ LineStart(text, l) <= LineStart(text, k + 1)
          /\ Before(text, l) = Slice(Before(text, k + 1), 0, LineStart(text, l))
    BY <2>1
  <2>5. k \in 1..(Len(text) + 1) /\ k + 1 \in 1..(Len(text) + 1)
    BY <1>0, <2>1
  <2>. HIDE DEF k, Wrong
  <2>6. /\ Append(text[k], EndOfLine) \in Seq(Characters)
        /\ Before(text, k + 1) = Before(text, k) \o Append(text[k], EndOfLine)
    BY <2>1, BeforeIs
  <2>7. LineStart(text, k + 1) >= LineStart(text, k)
    <3>1. Len(Before(text, k + 1)) = Len(Before(text, k)) + Len(Append(text[k], EndOfLine))
      BY <2>5, <2>6, <1>1, ConcatProperties
    <3>2. Len(Append(text[k], EndOfLine)) \in Nat
      BY <2>6, LenProperties
    <3>3. QED
      BY <3>1, <3>2, <2>5, <1>1 DEF LineStart
  <2>8. LineStart(text, l) \in 0..Len(Before(text, k))
    BY <2>3, <2>5, <1>1 DEF LineStart
  <2>9. Slice(Before(text, k + 1), 0, LineStart(text, l)) = Slice(Before(text, k), 0, LineStart(text, l))
    <3>1. Before(text, k) \in Seq(Characters)
      BY <2>5, <1>1
    <3>2. Slice(Before(text, k) \o Append(text[k], EndOfLine), 0, LineStart(text, l))
            = Slice(Before(text, k), 0, LineStart(text, l))
      BY <3>1, <2>6, <2>8, SliceOfBoth
    <3>3. QED
      BY <3>2, <2>6
  <2>10. LineStart(text, l) <= LineStart(text, k + 1)
    <3>1. LineStart(text, l) \in Nat /\ LineStart(text, k) \in Nat /\ LineStart(text, k + 1) \in Nat
      BY <2>5, <1>1
    <3>2. QED
      BY <3>1, <2>3, <2>7
  <2>11. QED
    BY <2>3, <2>4, <2>9, <2>10
<1>7. QED
  BY <1>5, <1>6

\* Where the positions of a text are.
LEMMA OffsetIs ==
  ASSUME NEW text \in Seq(Seq(Characters)), NEW p, IsPosition(text, p)
  PROVE  /\ Offset(text, p) \in Nat
         /\ \A l \in 1..p.line : LineStart(text, l) <= Offset(text, p)
         /\ \A l \in (p.line + 1)..(Len(text) + 1) : Offset(text, p) < LineStart(text, l)
         /\ Offset(text, p) <= Len(Flat(text))
<1>0. Len(text) \in Nat /\ p.line \in 1..Len(text) /\ Len(text[p.line]) \in Nat
  BY LenProperties, BeforeIs DEF IsPosition
<1>. DEFINE k == p.line
<1>1. k \in 1..(Len(text) + 1) /\ k + 1 \in 1..(Len(text) + 1) /\ p.column \in 0..Len(text[k])
  BY <1>0 DEF IsPosition
<1>2. LineStart(text, k) \in Nat /\ LineStart(text, k + 1) = LineStart(text, k) + Len(text[k]) + 1
  <2>1. /\ Before(text, k) \in Seq(Characters)
        /\ Append(text[k], EndOfLine) \in Seq(Characters)
        /\ Len(Append(text[k], EndOfLine)) = Len(text[k]) + 1
        /\ Before(text, k + 1) = Before(text, k) \o Append(text[k], EndOfLine)
    BY <1>0, <1>1, BeforeIs
  <2>. HIDE DEF k
  <2>2. Len(Before(text, k) \o Append(text[k], EndOfLine)) = Len(Before(text, k)) + (Len(text[k]) + 1)
    BY <2>1, ConcatProperties
  <2>3. Len(Before(text, k)) \in Nat
    BY <2>1, LenProperties
  <2>4. Len(text[k]) \in Nat
    BY <1>0 DEF k
  <2>5. QED
    BY <2>1, <2>2, <2>3, <2>4 DEF LineStart
<1>3. Offset(text, p) = LineStart(text, k) + p.column
  BY DEF Offset
<1>4. Offset(text, p) \in Nat /\ LineStart(text, k) <= Offset(text, p) /\ Offset(text, p) < LineStart(text, k + 1)
  BY <1>0, <1>1, <1>2, <1>3
<1>5. ASSUME NEW l \in 1..k PROVE LineStart(text, l) <= Offset(text, p)
  <2>1. l \in 1..(Len(text) + 1) /\ k \in l..(Len(text) + 1)
    BY <1>0
  <2>2. LineStart(text, l) \in Nat /\ LineStart(text, l) <= LineStart(text, k)
    BY <2>1, BeforeIsPrefix
  <2>3. QED
    BY <2>2, <1>2, <1>4
<1>6. ASSUME NEW l \in (k + 1)..(Len(text) + 1) PROVE LineStart(text, l) \in Nat /\ Offset(text, p) < LineStart(text, l)
  <2>1. LineStart(text, l) \in Nat /\ LineStart(text, k + 1) <= LineStart(text, l) /\ LineStart(text, k + 1) \in Nat
    BY <1>1, BeforeIsPrefix
  <2>2. QED
    BY <2>1, <1>4
<1>7. Len(text) + 1 \in (k + 1)..(Len(text) + 1) /\ LineStart(text, Len(text) + 1) = Len(Flat(text))
  BY <1>0 DEF Flat, LineStart
<1>8. Offset(text, p) <= Len(Flat(text))
  BY <1>4, <1>6, <1>7
<1>9. QED
  BY <1>4, <1>5, <1>6, <1>8

LEMMA FlatIs ==
  ASSUME NEW text \in Seq(Seq(Characters))
  PROVE  Flat(text) \in Seq(Characters) /\ Len(Flat(text)) \in Nat
<1>1. Len(text) + 1 \in 1..(Len(text) + 1)
  BY LenProperties
<1>2. Flat(text) \in Seq(Characters)
  BY <1>1, BeforeIs DEF Flat
<1>3. QED
  BY <1>2, LenProperties

-----------------------------------------------------------------------------
(* Edits in order                                                          *)

Placed(text, edit) == IsPosition(text, edit.from) /\ IsPosition(text, edit.to)

LEMMA PlacedIs ==
  ASSUME NEW text \in Seq(Seq(Characters)), NEW edit, Placed(text, edit)
  PROVE  /\ Start(text, edit) \in Nat /\ Start(text, edit) <= Len(Flat(text))
         /\ End(text, edit) \in Nat /\ End(text, edit) <= Len(Flat(text))
BY OffsetIs DEF Placed, Start, End

\* The edits that come no later than the i-th.
NoLater(text, edits, i) ==
    {j \in DOMAIN edits : /\ Precedes(text, edits[j], edits[i])
                          /\ Precedes(text, edits[i], edits[j]) => j <= i}

\* Every edit has a rank of its own.
LEMMA RanksAre ==
  ASSUME NEW text \in Seq(Seq(Characters)), NEW n \in Nat, NEW edits, DOMAIN edits = 1..n,
         \A i \in 1..n : Placed(text, edits[i])
  PROVE  /\ \A i \in 1..n : Rank(text, edits, i) \in 1..n
         /\ \A i, j \in 1..n : Rank(text, edits, i) = Rank(text, edits, j) => i = j
         /\ \A k \in 1..n : \E i \in 1..n : Rank(text, edits, i) = k
<1>. DEFINE first(i) == NoLater(text, edits, i)
<1>1. IsFiniteSet(1..n) /\ Cardinality(1..n) = n
  BY FS_Interval
<1>2. ASSUME NEW i \in 1..n
      PROVE  /\ Rank(text, edits, i) = Cardinality(first(i)) /\ first(i) \subseteq 1..n /\ i \in first(i)
             /\ IsFiniteSet(first(i)) /\ Cardinality(first(i)) \in 1..n
  <2>1. Rank(text, edits, i) = Cardinality(first(i)) /\ first(i) \subseteq 1..n
    BY DEF Rank, NoLater
  <2>2. i \in first(i)
    BY PlacedIs DEF Precedes, NoLater
  <2>. HIDE DEF first
  <2>3. IsFiniteSet(first(i)) /\ Cardinality(first(i)) <= n
    BY <1>1, <2>1, FS_Subset
  <2>4. Cardinality(first(i)) \in Nat /\ Cardinality(first(i)) # 0
    BY <2>2, <2>3, FS_CardinalityType, FS_EmptySet
  <2>5. QED
    BY <2>1, <2>2, <2>3, <2>4
<1>3. ASSUME NEW i \in 1..n, NEW j \in 1..n, i # j, i \in first(j)
      PROVE  Rank(text, edits, i) # Rank(text, edits, j)
  <2>1. \A k \in 1..n : Start(text, edits[k]) \in Nat /\ End(text, edits[k]) \in Nat
    BY PlacedIs
  <2>2. first(i) \subseteq first(j)
    <3>1. SUFFICES ASSUME NEW k \in first(i)
                   PROVE  k \in first(j)
      OBVIOUS
    <3>2. k \in 1..n
      BY <1>2
    <3>3. QED
      BY <1>3, <2>1, <3>2 DEF NoLater, Precedes
  <2>3. j \notin first(i)
    BY <1>3, <2>1 DEF NoLater, Precedes
  <2>4. j \in first(j) /\ IsFiniteSet(first(j))
    BY <1>2
  <2>. HIDE DEF first
  <2>5. Cardinality(first(i)) # Cardinality(first(j))
    BY <2>2, <2>3, <2>4, FS_Subset
  <2>6. QED
    BY <1>2, <2>5
<1>4. ASSUME NEW i \in 1..n, NEW j \in 1..n, Rank(text, edits, i) = Rank(text, edits, j) PROVE i = j
  <2>1. i \in first(j) \/ j \in first(i)
    <3>1. \A k \in 1..n : Start(text, edits[k]) \in Nat /\ End(text, edits[k]) \in Nat
      BY PlacedIs
    <3>2. QED
      BY <3>1 DEF NoLater, Precedes
  <2>2. QED
    BY <1>3, <1>4, <2>1
<1>. HIDE DEF first
<1>5. ASSUME NEW k \in 1..n PROVE \E i \in 1..n : Rank(text, edits, i) = k
  <2>. DEFINE f == [i \in 1..n |-> Rank(text, edits, i)]
  <2>1. f \in [1..n -> 1..n]
    BY <1>2
  <2>2. \A i, j \in 1..n : f[i] = f[j] => i = j
    BY <1>4
  <2>. HIDE DEF f
  <2>3. f \in Injection(1..n, 1..n)
    BY <2>1, <2>2 DEF Injection, IsInjective
  <2>4. f \in Surjection(1..n, 1..n)
    BY <1>1, <2>3, FS_Injection
  <2>5. \E i \in 1..n : f[i] = k
    BY <2>4 DEF Surjection
  <2>6. QED
    BY <2>5 DEF f
<1>6. QED
  BY <1>2, <1>4, <1>5

LEMMA InOrderRanks ==
  ASSUME NEW text \in Seq(Seq(Characters)), NEW n \in Nat, NEW edits, DOMAIN edits = 1..n,
         \A i \in 1..n : Placed(text, edits[i])
  PROVE  /\ DOMAIN InOrder(text, edits) = 1..n
         /\ \A i \in 1..n : InOrder(text, edits)[Rank(text, edits, i)] = edits[i]
<1>1. ASSUME NEW i \in 1..n
      PROVE  InOrder(text, edits)[Rank(text, edits, i)] = edits[i]
  <2>. DEFINE k == Rank(text, edits, i)
              c == CHOOSE j \in 1..n : Rank(text, edits, j) = k
  <2>1. k \in 1..n
    BY RanksAre
  <2>2. InOrder(text, edits)[k] = edits[c]
    BY <2>1 DEF InOrder
  <2>3. c \in 1..n /\ Rank(text, edits, c) = k
    <3>. HIDE DEF k
    <3>1. \E j \in 1..n : Rank(text, edits, j) = k
      BY DEF k
    <3>2. QED
      BY <3>1, Zenon
  <2>. HIDE DEF c
  <2>4. c = i
    <3>1. \A a, b \in 1..n : Rank(text, edits, a) = Rank(text, edits, b) => a = b
      BY RanksAre
    <3>2. QED
      BY <2>3, <3>1
  <2>5. QED
    BY <2>2, <2>4
<1>2. QED
  BY <1>1 DEF InOrder

\* Edits of a text, one after the other, that Applicable accepts.
Successive(text, sorted, n) ==
    /\ DOMAIN sorted = 1..n
    /\ \A k \in 1..n : /\ Placed(text, sorted[k]) /\ sorted[k].with \in Seq(Characters)
                       /\ Start(text, sorted[k]) <= End(text, sorted[k])
    /\ \A k \in 2..n : FollowsOn(text, sorted[k - 1], sorted[k])

LEMMA SuccessiveAscend ==
  ASSUME NEW text \in Seq(Seq(Characters)), NEW n \in Nat, NEW s, Successive(text, s, n),
         NEW i \in 1..n, NEW j \in 1..n, i < j
  PROVE  /\ End(text, s[i]) <= Start(text, s[j])
         /\ Start(text, s[i]) < Start(text, s[j])
<1>. DEFINE Right(k) == End(text, s[i]) <= Start(text, s[k]) /\ Start(text, s[i]) < Start(text, s[k])
            Wrong == {k \in (i + 1)..n : ~Right(k)}
<1>1. \A k \in 1..n : /\ Start(text, s[k]) \in Nat /\ End(text, s[k]) \in Nat
                      /\ Start(text, s[k]) <= End(text, s[k])
  BY PlacedIs DEF Successive
<1>2. \A k \in 2..n : End(text, s[k - 1]) <= Start(text, s[k]) /\ Start(text, s[k - 1]) # Start(text, s[k])
  BY DEF Successive, FollowsOn
<1>3. SUFFICES ASSUME Wrong # {}
               PROVE  FALSE
  <2>1. j \in (i + 1)..n
    OBVIOUS
  <2>2. QED
    BY <2>1, <1>3
<1>4. PICK k \in Wrong : \A m \in Wrong : k <= m
  <2>1. Wrong \in SUBSET Nat
    OBVIOUS
  <2>. HIDE DEF Wrong
  <2>2. QED
    BY <2>1, <1>3, LeastNat
<1>5. k \in (i + 1)..n /\ k \in 2..n /\ k - 1 \in 1..n /\ ~(k <= k - 1)
  OBVIOUS
<1>6. ~Right(k)
  OBVIOUS
<1>7. /\ End(text, s[k - 1]) <= Start(text, s[k]) /\ Start(text, s[k - 1]) < Start(text, s[k])
      /\ Start(text, s[k - 1]) \in Nat /\ End(text, s[k - 1]) \in Nat /\ Start(text, s[k]) \in Nat
      /\ Start(text, s[k - 1]) <= End(text, s[k - 1])
  <2>1. /\ End(text, s[k - 1]) <= Start(text, s[k]) /\ Start(text, s[k - 1]) # Start(text, s[k])
    BY <1>2, <1>5
  <2>2. /\ Start(text, s[k - 1]) \in Nat /\ End(text, s[k - 1]) \in Nat /\ Start(text, s[k - 1]) <= End(text, s[k - 1])
    BY <1>1, <1>5
  <2>3. Start(text, s[k]) \in Nat
    BY <1>1, <1>5
  <2>4. QED
    BY <2>1, <2>2, <2>3
<1>8. CASE k - 1 = i
  BY <1>6, <1>7, <1>8
<1>9. CASE k - 1 # i
  <2>1. k - 1 \in (i + 1)..n
    BY <1>5, <1>9
  <2>2. Right(k - 1)
    BY <2>1, <1>4, <1>5
  <2>3. Start(text, s[i]) \in Nat /\ End(text, s[i]) \in Nat
    BY <1>1
  <2>4. QED
    BY <2>2, <2>3, <1>6, <1>7
<1>10. QED
  BY <1>8, <1>9

FirstEdits(s, m) == [k \in 1..m |-> s[k]]

\* Putting edits in order finds the order there is.
LEMMA InOrderIs ==
  ASSUME NEW text \in Seq(Seq(Characters)), NEW n \in Nat, NEW s, Successive(text, s, n),
         NEW edits, DOMAIN edits = 1..n, NEW f \in Bijection(1..n, 1..n),
         \A i \in 1..n : edits[i] = s[f[i]]
  PROVE  InOrder(text, edits) = FirstEdits(s, n)
<1>1. /\ f \in [1..n -> 1..n]
      /\ \A i, j \in 1..n : f[i] = f[j] => i = j
      /\ \A k \in 1..n : \E i \in 1..n : f[i] = k
  BY DEF Bijection, Injection, Surjection, IsInjective
<1>2. \A i \in 1..n : f[i] \in 1..n /\ Placed(text, edits[i])
  BY <1>1 DEF Successive
<1>3. ASSUME NEW i \in 1..n PROVE Rank(text, edits, i) = f[i]
  <2>. DEFINE P == NoLater(text, edits, i)
              g == [j \in P |-> f[j]]
  <2>1. ASSUME NEW j \in 1..n PROVE j \in P <=> f[j] <= f[i]
    <3>0. f[i] \in Int /\ f[j] \in Int
      BY <1>2
    <3>1. /\ Start(text, edits[i]) \in Nat /\ End(text, edits[i]) \in Nat
          /\ Start(text, edits[j]) \in Nat /\ End(text, edits[j]) \in Nat
      BY <1>2, PlacedIs
    <3>2. j \in P <=> /\ Precedes(text, edits[j], edits[i])
                      /\ Precedes(text, edits[i], edits[j]) => j <= i
      BY DEF NoLater
    <3>3. CASE f[j] < f[i]
      <4>1. Start(text, edits[j]) < Start(text, edits[i])
        BY <3>3, <1>2, SuccessiveAscend
      <4>2. QED
        BY <4>1, <3>0, <3>1, <3>2, <3>3 DEF Precedes
    <3>4. CASE f[i] < f[j]
      <4>1. Start(text, edits[i]) < Start(text, edits[j])
        BY <3>4, <1>2, SuccessiveAscend
      <4>2. ~(f[j] <= f[i])
        BY <3>4, <1>2
      <4>3. QED
        BY <4>1, <4>2, <3>1, <3>2 DEF Precedes
    <3>5. CASE f[i] = f[j]
      <4>1. i = j
        BY <3>5, <1>1
      <4>2. QED
        BY <4>1, <3>1, <3>2, <1>2 DEF Precedes
    <3>6. QED
      BY <3>0, <3>3, <3>4, <3>5
  <2>2. P \subseteq 1..n /\ Rank(text, edits, i) = Cardinality(P)
    BY DEF NoLater, Rank
  <2>. HIDE DEF P
  <2>3. f[i] \in 1..n
    BY <1>2
  <2>4. g \in [P -> 1..f[i]]
    BY <1>2, <2>1, <2>2, <2>3
  <2>5. \A j, k \in P : g[j] = g[k] => j = k
    BY <1>1, <2>2
  <2>6. ASSUME NEW k \in 1..f[i] PROVE \E j \in P : g[j] = k
    <3>1. k \in 1..n /\ k <= f[i]
      BY <2>3
    <3>2. PICK j \in 1..n : f[j] = k
      BY <3>1, <1>1
    <3>3. j \in P
      BY <3>1, <3>2, <2>1
    <3>4. QED
      BY <3>2, <3>3
  <2>. HIDE DEF g
  <2>7. g \in Bijection(P, 1..f[i])
    BY <2>4, <2>5, <2>6 DEF Bijection, Injection, Surjection, IsInjective
  <2>8. IsFiniteSet(P)
    <3>1. IsFiniteSet(1..n)
      BY FS_Interval
    <3>2. QED
      BY <2>2, <3>1, FS_Subset
  <2>9. ExistsBijection(P, 1..f[i])
    BY <2>7 DEF ExistsBijection
  <2>10. Cardinality(1..f[i]) = Cardinality(P)
    BY <2>8, <2>9, FS_Bijection
  <2>11. Cardinality(1..f[i]) = f[i]
    BY <2>3, FS_Interval
  <2>12. QED
    BY <2>2, <2>10, <2>11
<1>4. ASSUME NEW k \in 1..n PROVE InOrder(text, edits)[k] = s[k]
  <2>1. PICK i \in 1..n : f[i] = k
    BY <1>1
  <2>2. InOrder(text, edits)[Rank(text, edits, i)] = edits[i]
    BY <1>2, InOrderRanks
  <2>3. QED
    BY <2>1, <2>2, <1>3
<1>5. DOMAIN InOrder(text, edits) = 1..n
  BY DEF InOrder
<1>6. InOrder(text, edits) = [k \in 1..n |-> InOrder(text, edits)[k]]
  BY <1>5 DEF InOrder
<1>7. QED
  BY <1>4, <1>6 DEF FirstEdits

\* What Applicable accepts.
LEMMA ApplicableIs ==
  ASSUME NEW text \in Seq(Seq(Characters)), NEW n \in Nat, NEW edits, DOMAIN edits = 1..n,
         \A i \in 1..n : edits[i].with \in Seq(Characters),
         Applicable(text, edits)
  PROVE  /\ Successive(text, InOrder(text, edits), n)
         /\ \E f \in Bijection(1..n, 1..n) : \A i \in 1..n : edits[i] = InOrder(text, edits)[f[i]]
<1>. DEFINE s == InOrder(text, edits)
            f == [i \in 1..n |-> Rank(text, edits, i)]
<1>1. \A i \in 1..n : Placed(text, edits[i])
  BY DEF Applicable, Placed
<1>2. f \in Bijection(1..n, 1..n)
  <2>1. f \in [1..n -> 1..n]
    BY <1>1, RanksAre
  <2>2. \A i, j \in 1..n : f[i] = f[j] => i = j
    <3>1. \A i, j \in 1..n : Rank(text, edits, i) = Rank(text, edits, j) => i = j
      BY <1>1, RanksAre
    <3>2. QED
      BY <3>1
  <2>3. \A k \in 1..n : \E i \in 1..n : Rank(text, edits, i) = k
    BY <1>1, RanksAre
  <2>4. \A k \in 1..n : \E i \in 1..n : f[i] = k
    BY <2>3
  <2>. HIDE DEF f
  <2>5. QED
    BY <2>1, <2>2, <2>4 DEF Bijection, Injection, Surjection, IsInjective
<1>3. DOMAIN s = 1..n /\ \A i \in 1..n : edits[i] = s[f[i]]
  BY <1>1, InOrderRanks
<1>4. \A k \in 1..n : \E i \in 1..n : s[k] = edits[i]
  <2>1. \A k \in 1..n : \E i \in 1..n : f[i] = k
    BY <1>2 DEF Bijection, Surjection
  <2>2. QED
    BY <2>1, <1>3
<1>5. /\ \A k \in 1..n : Start(text, s[k]) <= End(text, s[k])
      /\ \A k \in 2..n : FollowsOn(text, s[k - 1], s[k])
  <2>1. /\ \A k \in DOMAIN s : Start(text, s[k]) <= End(text, s[k])
        /\ \A k \in DOMAIN s \ {1} : FollowsOn(text, s[k - 1], s[k])
    BY DEF Applicable
  <2>2. \A k \in 2..n : k \in 1..n \ {1}
    OBVIOUS
  <2>. HIDE DEF s
  <2>3. QED
    BY <2>1, <2>2, <1>3
<1>. HIDE DEF s
<1>6. Successive(text, s, n)
  BY <1>1, <1>3, <1>4, <1>5 DEF Successive
<1>. HIDE DEF f
<1>7. QED
  BY <1>2, <1>3, <1>6 DEF s

-----------------------------------------------------------------------------
(* Edits at once and one by one                                            *)

Joined(text, s, k) == FlattenSeq([i \in 1..k |-> Chunk(text, s, i)])

\* Where what the k-th edit leaves as it is ends.
Till(text, s, n, k) == IF k = n THEN Len(Flat(text)) ELSE Start(text, s[k + 1])

LEMMA TillIs ==
  ASSUME NEW text \in Seq(Seq(Characters)), NEW n \in Nat, NEW s, Successive(text, s, n), NEW k \in 0..n
  PROVE  /\ Till(text, s, n, k) \in 0..Len(Flat(text))
         /\ Cursor(text, s, k + 1) \in 0..Till(text, s, n, k)
         /\ k # 0 => /\ Cursor(text, s, k + 1) = End(text, s[k])
                     /\ Till(text, s, n, k - 1) = Start(text, s[k])
                     /\ Till(text, s, n, k - 1) <= Cursor(text, s, k + 1)
<1>0. Len(Flat(text)) \in Nat
  BY FlatIs
<1>1. \A i \in 1..n : /\ Start(text, s[i]) \in 0..Len(Flat(text)) /\ End(text, s[i]) \in 0..Len(Flat(text))
                      /\ Start(text, s[i]) <= End(text, s[i])
  BY <1>0, PlacedIs DEF Successive
<1>2. \A i \in 2..n : End(text, s[i - 1]) <= Start(text, s[i])
  BY DEF Successive, FollowsOn
<1>3. Till(text, s, n, k) \in 0..Len(Flat(text))
  <2>1. k # n => k + 1 \in 1..n
    OBVIOUS
  <2>2. QED
    BY <2>1, <1>0, <1>1 DEF Till
<1>4. CASE k = 0
  BY <1>3, <1>4 DEF Cursor
<1>5. CASE k # 0
  <2>1. k \in 1..n /\ k + 1 # 1 /\ (k + 1) - 1 = k /\ (k - 1) + 1 = k /\ k - 1 # n
    BY <1>5
  <2>2. Cursor(text, s, k + 1) = End(text, s[k]) /\ Till(text, s, n, k - 1) = Start(text, s[k])
    BY <2>1 DEF Cursor, Till
  <2>3. End(text, s[k]) \in 0..Till(text, s, n, k)
    <3>1. CASE k = n
      BY <3>1, <2>1, <1>1 DEF Till
    <3>2. CASE k # n
      <4>1. k + 1 \in 2..n /\ k + 1 \in 1..n
        BY <3>2, <2>1
      <4>2. End(text, s[(k + 1) - 1]) <= Start(text, s[k + 1])
        BY <4>1, <1>2
      <4>3. Start(text, s[k + 1]) \in Nat /\ End(text, s[k]) \in Nat
        BY <4>1, <2>1, <1>1
      <4>4. QED
        BY <4>2, <4>3, <3>2, <2>1 DEF Till
    <3>3. QED
      BY <3>1, <3>2
  <2>4. QED
    BY <1>3, <2>1, <2>2, <2>3, <1>1
<1>6. QED
  BY <1>4, <1>5

LEMMA JoinedIs ==
  ASSUME NEW text \in Seq(Seq(Characters)), NEW n \in Nat, NEW s, Successive(text, s, n)
  PROVE  /\ Joined(text, s, 0) = <<>>
         /\ \A k \in 0..n : Joined(text, s, k) \in Seq(Characters)
         /\ \A k \in 1..n :
              /\ s[k].with \in Seq(Characters)
              /\ Slice(Flat(text), Cursor(text, s, k), Start(text, s[k])) \in Seq(Characters)
              /\ Joined(text, s, k) = Joined(text, s, k - 1)
                   \o (Slice(Flat(text), Cursor(text, s, k), Start(text, s[k])) \o s[k].with)
<1>1. ASSUME NEW k \in 1..n
      PROVE  /\ s[k].with \in Seq(Characters)
             /\ Slice(Flat(text), Cursor(text, s, k), Start(text, s[k])) \in Seq(Characters)
             /\ Chunk(text, s, k) \in Seq(Characters)
  <2>0. s[k].with \in Seq(Characters)
    BY DEF Successive
  <2>1. k - 1 \in 0..n /\ (k - 1) + 1 = k /\ k \in 0..n /\ k # 0
    OBVIOUS
  <2>2. Till(text, s, n, k - 1) = Start(text, s[k])
    BY <2>1, TillIs
  <2>3. Start(text, s[k]) \in 0..Len(Flat(text)) /\ Cursor(text, s, (k - 1) + 1) \in 0..Start(text, s[k])
    BY <2>1, <2>2, TillIs
  <2>4. Cursor(text, s, k) \in Nat
    BY <2>1, <2>3
  <2>5. Slice(Flat(text), Cursor(text, s, k), Start(text, s[k])) \in Seq(Characters)
    BY <2>3, <2>4, FlatIs, SliceIs
  <2>6. QED
    BY <2>0, <2>5, ConcatProperties DEF Chunk
<1>2. ASSUME NEW k \in 1..n
      PROVE  /\ Joined(text, s, k) \in Seq(Characters)
             /\ Joined(text, s, k) = Joined(text, s, k - 1) \o Chunk(text, s, k)
  <2>. DEFINE c == [i \in 1..k |-> Chunk(text, s, i)]
  <2>1. k \in Nat \ {0}
    OBVIOUS
  <2>2. c \in [1..k -> Seq(Characters)] /\ c[k] = Chunk(text, s, k)
    BY <1>1
  <2>3. [i \in 1..(k - 1) |-> c[i]] = [i \in 1..(k - 1) |-> Chunk(text, s, i)]
    OBVIOUS
  <2>4. Joined(text, s, k) = FlattenSeq(c) /\ Joined(text, s, k - 1) = FlattenSeq([i \in 1..(k - 1) |-> c[i]])
    BY <2>3 DEF Joined
  <2>. HIDE DEF c
  <2>5. FlattenSeq(c) \in Seq(Characters) /\ FlattenSeq(c) = FlattenSeq([i \in 1..(k - 1) |-> c[i]]) \o c[k]
    BY <2>1, <2>2, FlattenNext
  <2>6. QED
    BY <2>2, <2>4, <2>5
<1>3. Joined(text, s, 0) = <<>>
  <2>1. [i \in 1..0 |-> Chunk(text, s, i)] = <<>>
    OBVIOUS
  <2>2. QED
    BY <2>1, FlattenNone DEF Joined
<1>4. ASSUME NEW k \in 0..n PROVE Joined(text, s, k) \in Seq(Characters)
  <2>1. CASE k = 0
    BY <2>1, <1>3, EmptySeq
  <2>2. CASE k # 0
    BY <2>2, <1>2
  <2>3. QED
    BY <2>1, <2>2
<1>5. QED
  BY <1>1, <1>2, <1>3, <1>4 DEF Chunk

\* A text that the edits behind the k-th have been made in, and what is behind
\* the place up to which it is still as it was.
LeftAt(text, s, n, k, chars) ==
    \E rest \in Seq(Characters) :
       /\ chars = Slice(Flat(text), 0, Till(text, s, n, k)) \o rest
       /\ Assembled(text, s)
            = (Joined(text, s, k) \o Slice(Flat(text), Cursor(text, s, k + 1), Till(text, s, n, k))) \o rest

EditOne(text, edit, chars) ==
    Slice(chars, 0, Start(text, edit)) \o edit.with \o Slice(chars, End(text, edit), Len(chars))

Associates(u, v, w) == (u \o v) \o w = u \o (v \o w)

LEMMA AllAssociate ==
  ASSUME NEW X, NEW u \in Seq(X), NEW v \in Seq(X), NEW w \in Seq(X)
  PROVE  Associates(u, v, w)
BY ConcatAssociative DEF Associates

LEMMA LeftAtEnd ==
  ASSUME NEW text \in Seq(Seq(Characters)), NEW n \in Nat, NEW s, Successive(text, s, n)
  PROVE  LeftAt(text, s, n, n, Flat(text))
<1>. DEFINE F == Flat(text)
            joined == Joined(text, s, n) \o Slice(F, Cursor(text, s, n + 1), Len(F))
<1>1. F \in Seq(Characters) /\ Len(F) \in Nat
  BY FlatIs
<1>2. n \in 0..n /\ Till(text, s, n, n) = Len(F)
  BY DEF Till
<1>3. Cursor(text, s, n + 1) \in Nat /\ Len(F) \in 0..Len(F)
  BY <1>1, <1>2, TillIs
<1>4. DOMAIN s = 1..n /\ Len(s) = n
  BY DEF Successive
<1>5. Assembled(text, s) = joined
  BY <1>4 DEF Assembled, Joined
<1>. HIDE DEF F
<1>6. Slice(F, Cursor(text, s, n + 1), Len(F)) \in Seq(Characters)
  BY <1>1, <1>3, SliceIs
<1>7. Joined(text, s, n) \in Seq(Characters)
  BY <1>2, JoinedIs
<1>8. joined \in Seq(Characters)
  BY <1>6, <1>7, ConcatProperties
<1>. HIDE DEF joined
<1>9. joined \o <<>> = joined
  BY <1>8, ConcatEmptySeq
<1>10. F = Slice(F, 0, Len(F)) \o <<>>
  BY <1>1, SliceWhole, ConcatEmptySeq
<1>11. <<>> \in Seq(Characters)
  BY EmptySeq
<1>12. QED
  BY <1>2, <1>5, <1>9, <1>10, <1>11 DEF LeftAt, joined, F

LEMMA LeftAtStart ==
  ASSUME NEW text \in Seq(Seq(Characters)), NEW n \in Nat, NEW s, Successive(text, s, n),
         NEW chars, LeftAt(text, s, n, 0, chars)
  PROVE  chars = Assembled(text, s)
<1>1. Joined(text, s, 0) = <<>> /\ Cursor(text, s, 0 + 1) = 0 /\ 0 \in 0..n
  <2>1. Joined(text, s, 0) = <<>>
    BY JoinedIs
  <2>2. QED
    BY <2>1 DEF Cursor
<1>2. Slice(Flat(text), 0, Till(text, s, n, 0)) \in Seq(Characters)
  BY <1>1, TillIs, FlatIs, SliceIs
<1>3. <<>> \o Slice(Flat(text), 0, Till(text, s, n, 0)) = Slice(Flat(text), 0, Till(text, s, n, 0))
  BY <1>2, ConcatEmptySeq
<1>4. QED
  BY <1>1, <1>3 DEF LeftAt

LEMMA LeftAtEdit ==
  ASSUME NEW text \in Seq(Seq(Characters)), NEW n \in Nat, NEW s, Successive(text, s, n),
         NEW k \in 1..n, NEW chars, LeftAt(text, s, n, k, chars)
  PROVE  /\ EditOne(text, s[k], chars) \in Seq(Characters)
         /\ LeftAt(text, s, n, k - 1, EditOne(text, s[k], chars))
<1>. DEFINE F == Flat(text)
            a == Start(text, s[k])
            e == End(text, s[k])
            b == Till(text, s, n, k)
            w == s[k].with
            L == Slice(F, 0, b)
            M == Slice(F, e, b)
            Q == Slice(F, Cursor(text, s, k), a)
            J == Joined(text, s, k - 1)
<1>1. F \in Seq(Characters) /\ Len(F) \in Nat
  BY FlatIs
<1>2. /\ k \in 0..n /\ k # 0 /\ k - 1 \in 0..n /\ (k - 1) + 1 = k
  OBVIOUS
<1>3. /\ b \in 0..Len(F) /\ e \in 0..b /\ Cursor(text, s, k + 1) = e
      /\ Till(text, s, n, k - 1) = a /\ a <= e
  BY <1>2, TillIs
<1>4. a \in 0..Len(F)
  BY <1>2, <1>3, TillIs
<1>5. a \in 0..e /\ a \in 0..b /\ 0 \in 0..a /\ 0 \in Nat /\ e \in Nat /\ b \in Nat /\ b \in 0..b
  BY <1>1, <1>3, <1>4
<1>6. PICK rest \in Seq(Characters) : chars = L \o rest /\ Assembled(text, s) = (Joined(text, s, k) \o M) \o rest
  BY <1>3 DEF LeftAt
<1>7. w \in Seq(Characters) /\ Q \in Seq(Characters) /\ Joined(text, s, k) = J \o (Q \o w)
  BY JoinedIs
<1>8. J \in Seq(Characters)
  BY <1>2, JoinedIs
<1>. HIDE DEF F, a, e, b, w, Q, J
<1>9. L \in Seq(Characters) /\ Len(L) = b
  <2>1. L \in Seq(Characters) /\ Len(L) = IF 0 <= b THEN b - 0 ELSE 0
    BY <1>1, <1>3, <1>5, SliceIs
  <2>2. QED
    BY <2>1, <1>5
<1>10. M \in Seq(Characters)
  BY <1>1, <1>3, <1>5, SliceIs
<1>11. Slice(L, 0, a) = Slice(F, 0, a)
  BY <1>1, <1>3, <1>5, SliceOfSlice
<1>12. Slice(L, e, b) = M
  BY <1>1, <1>3, <1>5, SliceOfSlice
<1>. HIDE DEF L, M
<1>13. Slice(chars, 0, a) = Slice(F, 0, a)
  <2>1. a \in 0..Len(L)
    BY <1>5, <1>9
  <2>2. Slice(L \o rest, 0, a) = Slice(L, 0, a)
    BY <2>1, <1>9, SliceOfBoth
  <2>3. QED
    BY <2>2, <1>6, <1>11
<1>14. Slice(chars, e, Len(chars)) = M \o rest
  <2>1. e \in 0..Len(L)
    BY <1>3, <1>9
  <2>2. Slice(L \o rest, e, Len(L \o rest)) = Slice(L, e, Len(L)) \o rest
    BY <2>1, <1>9, SliceOfBoth
  <2>3. QED
    BY <2>2, <1>6, <1>9, <1>12
<1>. DEFINE one == EditOne(text, s[k], chars)
            H == Slice(F, 0, a)
            more == w \o (M \o rest)
<1>15. one = (H \o w) \o (M \o rest)
  BY <1>13, <1>14 DEF EditOne, a, e, w
<1>16. H \in Seq(Characters)
  BY <1>1, <1>4, <1>5, SliceIs
<1>. HIDE DEF H
<1>17. M \o rest \in Seq(Characters)
  BY <1>10, ConcatProperties
<1>18. (H \o w) \o (M \o rest) = H \o more
  <2>. DEFINE behind == M \o rest
  <2>1. behind \in Seq(Characters)
    BY <1>17
  <2>. HIDE DEF behind
  <2>2. (H \o w) \o behind = H \o (w \o behind)
    <3>1. H \in Seq(Characters) /\ w \in Seq(Characters)
      BY <1>7, <1>16
    <3>2. QED
      BY <3>1, <2>1, ConcatAssociative
  <2>3. QED
    BY <2>2 DEF behind
<1>19. more \in Seq(Characters) /\ ((J \o (Q \o w)) \o M) \o rest = (J \o Q) \o more
  <2>1. more \in Seq(Characters)
    BY <1>7, <1>17, ConcatProperties
  <2>2. ((J \o (Q \o w)) \o M) \o rest = (J \o Q) \o (w \o (M \o rest))
    <3>. DEFINE behind == M \o rest
                JP == J \o (Q \o w)
                JQ == J \o Q
    <3>1. Q \in Seq(Characters) /\ w \in Seq(Characters)
      BY <1>7
    <3>2. JP \in Seq(Characters)
      <4>1. Q \o w \in Seq(Characters)
        BY <3>1, ConcatProperties
      <4>2. QED
        BY <4>1, <1>8, ConcatProperties
    <3>3. JQ \in Seq(Characters)
      BY <3>1, <1>8, ConcatProperties
    <3>4. JP = JQ \o w
      <4>1. (J \o Q) \o w = J \o (Q \o w)
        BY <3>1, <1>8, ConcatAssociative
      <4>2. QED
        BY <4>1
    <3>. HIDE DEF JP, JQ
    <3>5. (JP \o M) \o rest = JP \o behind
      BY <3>2, <1>10, ConcatAssociative
    <3>6. (JQ \o w) \o behind = JQ \o (w \o behind)
      <4>1. behind \in Seq(Characters)
        BY <1>17
      <4>. HIDE DEF behind
      <4>2. w \in Seq(Characters)
        BY <3>1
      <4>3. Associates(JQ, w, behind)
        BY <4>1, <4>2, <3>3, AllAssociate
      <4>4. QED
        BY <4>3 DEF Associates
    <3>7. QED
      BY <3>4, <3>5, <3>6 DEF JP, JQ
  <2>3. QED
    BY <2>1, <2>2
<1>. HIDE DEF one, more
<1>20. one \in Seq(Characters)
  BY <1>15, <1>16, <1>18, <1>19, ConcatProperties
<1>21. Assembled(text, s) = (J \o Q) \o more
  BY <1>6, <1>7, <1>19
<1>22. one = H \o more
  BY <1>15, <1>18
<1>23. LeftAt(text, s, n, k - 1, one)
  <2>1. Slice(Flat(text), 0, Till(text, s, n, k - 1)) = H
    BY <1>3 DEF H, F
  <2>2. Joined(text, s, k - 1) = J /\ Slice(Flat(text), Cursor(text, s, (k - 1) + 1), Till(text, s, n, k - 1)) = Q
    BY <1>2, <1>3 DEF J, Q, F
  <2>3. QED
    BY <2>1, <2>2, <1>19, <1>21, <1>22 DEF LeftAt
<1>24. QED
  BY <1>20, <1>23 DEF one

\* What is put together of the text up to any edit begins the result.
LEMMA AssembledFrom ==
  ASSUME NEW text \in Seq(Seq(Characters)), NEW n \in Nat, NEW s, Successive(text, s, n), NEW k \in 0..n
  PROVE  \E chars : LeftAt(text, s, n, k, chars)
<1>. DEFINE Wrong == {d \in 0..n : ~ \E chars : LeftAt(text, s, n, n - d, chars)}
<1>1. SUFFICES ASSUME Wrong # {}
               PROVE  FALSE
  <2>1. n - k \in 0..n /\ n - (n - k) = k
    OBVIOUS
  <2>2. n - k \notin Wrong
    BY <1>1
  <2>3. QED
    BY <2>1, <2>2
<1>2. PICK d \in Wrong : \A j \in Wrong : d <= j
  <2>1. Wrong \in SUBSET Nat
    OBVIOUS
  <2>. HIDE DEF Wrong
  <2>2. QED
    BY <2>1, <1>1, LeastNat
<1>3. d \in 0..n /\ ~ \E chars : LeftAt(text, s, n, n - d, chars)
  OBVIOUS
<1>4. d # 0
  <2>1. n - 0 = n
    OBVIOUS
  <2>2. QED
    BY <2>1, <1>3, LeftAtEnd
<1>5. d - 1 \in 0..n /\ ~(d <= d - 1) /\ n - (d - 1) \in 1..n /\ (n - (d - 1)) - 1 = n - d
  BY <1>3, <1>4
<1>6. PICK chars : LeftAt(text, s, n, n - (d - 1), chars)
  BY <1>2, <1>5
<1>. HIDE DEF Wrong
<1>7. LeftAt(text, s, n, (n - (d - 1)) - 1, EditOne(text, s[n - (d - 1)], chars))
  BY <1>5, <1>6, LeftAtEdit
<1>8. QED
  BY <1>3, <1>5, <1>7

LEMMA OneByOneIs ==
  ASSUME NEW text \in Seq(Seq(Characters)), NEW n \in Nat, NEW s, Successive(text, s, n)
  PROVE  OneByOne(text, s) = Assembled(text, s)
<1>. DEFINE F == Flat(text)
            V == Seq(Characters)
            at(i) == s[n + 1 - i]
            step == [p \in (1..n) \X V |->
                       IF EditOne(text, at(p[1]), p[2]) \in V THEN EditOne(text, at(p[1]), p[2]) ELSE <<>>]
<1>0. F \in V /\ <<>> \in V /\ DOMAIN s = 1..n /\ Len(s) = n
  BY FlatIs, EmptySeq DEF Successive
<1>1. PICK g \in [0..n -> V] : Solves(g, F, step, n)
  <2>1. step \in [(1..n) \X V -> V]
    BY <1>0
  <2>. HIDE DEF step, F, V
  <2>2. QED
    BY <2>1, <1>0, RecursionExists
<1>2. g[0] = F
  BY <1>1 DEF Solves
<1>3. ASSUME NEW i \in 1..n, LeftAt(text, s, n, n - (i - 1), g[i - 1])
      PROVE  g[i] = EditOne(text, at(i), g[i - 1]) /\ LeftAt(text, s, n, n - i, g[i])
  <2>1. i - 1 \in 0..n /\ n - (i - 1) \in 1..n /\ n + 1 - i = n - (i - 1) /\ (n - (i - 1)) - 1 = n - i
    OBVIOUS
  <2>2. /\ EditOne(text, s[n - (i - 1)], g[i - 1]) \in V
        /\ LeftAt(text, s, n, (n - (i - 1)) - 1, EditOne(text, s[n - (i - 1)], g[i - 1]))
    BY <2>1, <1>3, LeftAtEdit
  <2>3. g[i - 1] \in V /\ <<i, g[i - 1]>> \in (1..n) \X V
    BY <2>1
  <2>4. g[i] = step[<<i, g[i - 1]>>]
    BY <1>1 DEF Solves
  <2>5. EditOne(text, at(i), g[i - 1]) \in V
    BY <2>1, <2>2
  <2>6. step[<<i, g[i - 1]>>] = EditOne(text, at(i), g[i - 1])
    BY <2>3, <2>5
  <2>7. QED
    BY <2>1, <2>2, <2>4, <2>6
<1>4. \A i \in 0..n : LeftAt(text, s, n, n - i, g[i])
  <2>. DEFINE Wrong == {i \in 0..n : ~LeftAt(text, s, n, n - i, g[i])}
  <2>1. SUFFICES ASSUME Wrong # {}
                 PROVE  FALSE
    OBVIOUS
  <2>2. PICK i \in Wrong : \A j \in Wrong : i <= j
    <3>1. Wrong \in SUBSET Nat
      OBVIOUS
    <3>. HIDE DEF Wrong
    <3>2. QED
      BY <3>1, <2>1, LeastNat
  <2>3. i \in 0..n /\ ~LeftAt(text, s, n, n - i, g[i])
    OBVIOUS
  <2>4. i # 0
    <3>1. n - 0 = n /\ LeftAt(text, s, n, n, F)
      BY LeftAtEnd
    <3>2. QED
      BY <3>1, <2>3, <1>2
  <2>5. i \in 1..n /\ i - 1 \in 0..n /\ ~(i <= i - 1)
    BY <2>3, <2>4
  <2>6. LeftAt(text, s, n, n - (i - 1), g[i - 1])
    BY <2>2, <2>5
  <2>7. QED
    BY <2>3, <2>5, <2>6, <1>3
<1>. HIDE DEF step
<1>5. \A i \in 1..n : g[i] = EditOne(text, at(i), g[i - 1])
  <2>1. \A i \in 1..n : i - 1 \in 0..n
    OBVIOUS
  <2>2. QED
    BY <2>1, <1>3, <1>4
<1>. DEFINE Goes(h) == h = [i \in 0..n |-> IF i = 0 THEN F ELSE EditOne(text, at(i), h[i - 1])]
            left == CHOOSE h : Goes(h)
<1>6. OneByOne(text, s) = left[n]
  BY <1>0, Zenon DEF OneByOne, EditOne
<1>7. Goes(left)
  <2>1. ASSUME NEW i \in 0..n PROVE g[i] = IF i = 0 THEN F ELSE EditOne(text, at(i), g[i - 1])
    <3>1. i # 0 => i \in 1..n
      OBVIOUS
    <3>2. QED
      BY <3>1, <1>2, <1>5
  <2>2. g = [i \in 0..n |-> IF i = 0 THEN F ELSE EditOne(text, at(i), g[i - 1])]
    BY <2>1
  <2>3. Goes(g)
    BY <2>2
  <2>. HIDE DEF Goes
  <2>4. QED
    BY <2>3, Zenon
<1>8. left[0] = F /\ \A i \in 1..n : left[i] = EditOne(text, at(i), left[i - 1])
  <2>. HIDE DEF left
  <2>1. \A i \in 0..n : left[i] = IF i = 0 THEN F ELSE EditOne(text, at(i), left[i - 1])
    BY <1>7
  <2>2. \A i \in 1..n : i \in 0..n /\ i # 0
    OBVIOUS
  <2>. HIDE DEF Goes
  <2>3. QED
    BY <2>1, <2>2
<1>. HIDE DEF left, Goes, F
<1>9. SameSteps(left, g, n)
  BY <1>2, <1>5, <1>8 DEF SameSteps
<1>10. left[n] = g[n]
  <2>1. \A h, e : SameSteps(h, e, n) => \A k \in 0..n : h[k] = e[k]
    BY RecursionUnique, Zenon
  <2>2. n \in 0..n
    OBVIOUS
  <2>3. QED
    BY <1>9, <2>1, <2>2, Zenon
<1>11. LeftAt(text, s, n, 0, g[n])
  <2>1. n \in 0..n /\ n - n = 0
    OBVIOUS
  <2>2. QED
    BY <2>1, <1>4
<1>12. QED
  BY <1>6, <1>10, <1>11, LeftAtStart

-----------------------------------------------------------------------------
(* Applying the edits of a fix                                             *)

LEMMA ReorderedInOrder ==
  ASSUME NEW text \in Seq(Seq(Characters)), NEW n \in Nat, NEW edits, DOMAIN edits = 1..n,
         \A i \in 1..n : edits[i].with \in Seq(Characters),
         Applicable(text, edits), NEW other \in Reorderings(edits)
  PROVE  InOrder(text, other) = InOrder(text, edits)
<1>. DEFINE s == InOrder(text, edits)
<1>1. Successive(text, s, n)
  BY ApplicableIs
<1>2. PICK f \in Bijection(1..n, 1..n) : \A i \in 1..n : edits[i] = s[f[i]]
  BY ApplicableIs
<1>3. s = [k \in 1..n |-> s[k]]
  BY DEF InOrder
<1>. HIDE DEF s
<1>4. PICK p \in [1..n -> 1..n] : IsInjective(p) /\ other = [k \in 1..n |-> edits[p[k]]]
  BY DEF Reorderings
<1>5. /\ f \in [1..n -> 1..n]
      /\ \A i, j \in 1..n : f[i] = f[j] => i = j
  BY <1>2 DEF Bijection, Injection, IsInjective
<1>. DEFINE q == [k \in 1..n |-> f[p[k]]]
<1>6. q \in [1..n -> 1..n]
  BY <1>4, <1>5
<1>7. \A i, j \in 1..n : q[i] = q[j] => i = j
  BY <1>4, <1>5 DEF IsInjective
<1>8. DOMAIN other = 1..n /\ \A i \in 1..n : other[i] = s[q[i]]
  BY <1>2, <1>4
<1>. HIDE DEF q
<1>9. q \in Bijection(1..n, 1..n)
  <2>1. q \in Injection(1..n, 1..n)
    BY <1>6, <1>7 DEF Injection, IsInjective
  <2>2. IsFiniteSet(1..n)
    BY FS_Interval
  <2>3. q \in Surjection(1..n, 1..n)
    BY <2>1, <2>2, FS_Injection
  <2>4. QED
    BY <2>1, <2>3 DEF Bijection
<1>10. InOrder(text, other) = FirstEdits(s, n)
  BY <1>1, <1>8, <1>9, InOrderIs
<1>11. QED
  BY <1>3, <1>10 DEF s, FirstEdits

\* A sequence of all members of a finite set.
LEMMA SequenceOf ==
  ASSUME NEW U, IsFiniteSet(U)
  PROVE  /\ Cardinality(U) \in Nat
         /\ SetToSeq(U) \in Bijection(1..Cardinality(U), U)
<1>1. Cardinality(U) \in Nat /\ ExistsBijection(1..Cardinality(U), U)
  BY FS_CardinalityType
<1>2. PICK f \in Bijection(1..Cardinality(U), U) : TRUE
  BY <1>1 DEF ExistsBijection
<1>3. f \in [1..Cardinality(U) -> U] /\ IsInjective(f)
  BY <1>2 DEF Bijection, Injection
<1>4. SetToSeq(U) \in [1..Cardinality(U) -> U] /\ IsInjective(SetToSeq(U))
  BY <1>3, Zenon DEF SetToSeq
<1>5. SetToSeq(U) \in Injection(1..Cardinality(U), U)
  BY <1>4 DEF Injection
<1>6. Cardinality(1..Cardinality(U)) = Cardinality(U)
  BY <1>1, FS_Interval
<1>7. SetToSeq(U) \in Surjection(1..Cardinality(U), U)
  BY <1>5, <1>6, FS_Injection
<1>8. QED
  BY <1>1, <1>5, <1>7 DEF Bijection

-----------------------------------------------------------------------------
(* The text above a line                                                   *)

LEMMA HeadIs ==
  ASSUME NEW text \in Seq(Seq(Characters)), NEW l \in 1..Len(text)
  PROVE  LET head == SubSeq(text, 1, l - 1)
         IN  /\ head \in Seq(Seq(Characters)) /\ Len(head) = l - 1
             /\ \A k \in 1..(l - 1) : head[k] = text[k]
             /\ \A k \in 1..l : Before(head, k) = Before(text, k)
             /\ Flat(head) = Before(text, l)
<1>. DEFINE head == SubSeq(text, 1, l - 1)
<1>0. Len(text) \in Nat
  BY LenProperties
<1>1. /\ head \in Seq(Seq(Characters)) /\ Len(head) = l - 1
      /\ \A k \in 1..(l - 1) : head[k] = text[k]
  <2>1. 0 \in Nat /\ l - 1 \in 0..Len(text) /\ (l - 1) - 0 = l - 1 /\ 0 <= l - 1 /\ 0 + 1 = 1
    BY <1>0
  <2>. DEFINE H == Slice(text, 0, l - 1)
  <2>a. H \in Seq(Seq(Characters))
    BY <2>1, SliceIs
  <2>b. Len(H) = IF 0 <= l - 1 THEN (l - 1) - 0 ELSE 0
    BY <2>1, SliceIs
  <2>c. \A i \in 1..((l - 1) - 0) : H[i] = text[0 + i]
    <3>1. \A a \in Nat, b \in 0..Len(text) : \A i \in 1..(b - a) : Slice(text, a, b)[i] = text[a + i]
      BY SliceIs
    <3>2. QED
      BY <2>1, <3>1
  <2>3. H = head
    BY <2>1 DEF Slice
  <2>4. \A i \in 1..(l - 1) : 0 + i = i
    OBVIOUS
  <2>. HIDE DEF head, H
  <2>5. QED
    BY <2>1, <2>a, <2>b, <2>c, <2>3, <2>4
<1>. HIDE DEF head
<1>2. ASSUME NEW k \in 1..l PROVE Before(head, k) = Before(text, k)
  <2>1. \A j \in 1..(k - 1) : head[j] = text[j]
    BY <1>1
  <2>2. [j \in 1..(k - 1) |-> Append(head[j], EndOfLine)] = [j \in 1..(k - 1) |-> Append(text[j], EndOfLine)]
    BY <2>1
  <2>3. QED
    BY <2>2 DEF Before
<1>3. Flat(head) = Before(text, l)
  <2>1. (l - 1) + 1 = l /\ l \in 1..l
    OBVIOUS
  <2>2. QED
    BY <2>1, <1>1, <1>2 DEF Flat
<1>4. QED
  BY <1>1, <1>2, <1>3 DEF head

LEMMA LineStarts ==
  ASSUME NEW text \in Seq(Seq(Characters)), NEW l \in 1..Len(text)
  PROVE  /\ LineStart(text, l) \in Nat /\ LineStart(text, l + 1) \in Nat
         /\ LineStart(text, l) <= LineStart(text, l + 1)
         /\ LineStart(text, l + 1) <= Len(Flat(text))
         /\ Before(text, l) = Slice(Flat(text), 0, LineStart(text, l))
         /\ Slice(Flat(text), LineStart(text, l), LineStart(text, l + 1)) = Append(text[l], EndOfLine)
<1>0. Len(text) \in Nat
  BY LenProperties
<1>1. /\ l \in 1..(Len(text) + 1) /\ l + 1 \in 1..(Len(text) + 1) /\ l + 1 \in l..(Len(text) + 1)
      /\ Len(text) + 1 \in l..(Len(text) + 1) /\ Len(text) + 1 \in (l + 1)..(Len(text) + 1)
  BY <1>0
<1>. DEFINE F == Flat(text)
            a == LineStart(text, l)
            b == LineStart(text, l + 1)
<1>2. a \in Nat /\ b \in Nat /\ a <= b
  BY <1>1, BeforeIsPrefix
<1>3. Before(text, Len(text) + 1) = F /\ LineStart(text, Len(text) + 1) = Len(F)
  BY DEF Flat, LineStart
<1>4. Before(text, l) = Slice(F, 0, a)
  BY <1>1, <1>3, BeforeIsPrefix
<1>5. Before(text, l + 1) = Slice(F, 0, b) /\ b <= Len(F)
  BY <1>1, <1>3, BeforeIsPrefix
<1>6. /\ Append(text[l], EndOfLine) \in Seq(Characters) /\ Before(text, l) \in Seq(Characters)
      /\ Before(text, l + 1) = Before(text, l) \o Append(text[l], EndOfLine)
      /\ Len(Before(text, l)) = a /\ Len(Before(text, l + 1)) = b
  BY <1>1, BeforeIs DEF LineStart
<1>7. F \in Seq(Characters) /\ Len(F) \in Nat
  BY FlatIs
<1>. HIDE DEF F, a, b
<1>8. Slice(Before(text, l + 1), a, b) = Append(text[l], EndOfLine)
  <2>. DEFINE s == Before(text, l)
              t == Append(text[l], EndOfLine)
  <2>1. s \in Seq(Characters) /\ t \in Seq(Characters) /\ Len(s) = a /\ Len(s) \in 0..Len(s)
    BY <1>2, <1>6
  <2>. HIDE DEF s, t
  <2>2. Slice(s \o t, Len(s), Len(s \o t)) = Slice(s, Len(s), Len(s)) \o t
    BY <2>1, SliceOfBoth
  <2>3. Slice(s, Len(s), Len(s)) = <<>>
    BY <2>1, <1>2 DEF Slice
  <2>4. <<>> \o t = t
    BY <2>1, ConcatEmptySeq
  <2>5. s \o t = Before(text, l + 1)
    BY <1>6 DEF s, t
  <2>6. Len(s \o t) = b
    BY <2>5, <1>6
  <2>7. Slice(Before(text, l + 1), a, b) = t
    BY <2>1, <2>2, <2>3, <2>4, <2>5, <2>6
  <2>8. QED
    BY <2>7 DEF t
<1>9. Slice(Slice(F, 0, b), a, b) = Slice(F, a, b)
  <2>1. b \in 0..Len(F) /\ b \in 0..b /\ a \in 0..b
    BY <1>2, <1>5, <1>7
  <2>2. QED
    BY <2>1, <1>7, SliceOfSlice
<1>10. QED
  BY <1>2, <1>4, <1>5, <1>8, <1>9 DEF F, a, b

\* An edit above a line is the same edit of the text above the line.
LEMMA EditAbove ==
  ASSUME NEW text \in Seq(Seq(Characters)), NEW l \in 1..Len(text), NEW e, Placed(text, e),
         Start(text, e) <= End(text, e), e.to.line < l
  PROVE  LET head == SubSeq(text, 1, l - 1)
         IN  /\ Placed(head, e) /\ Start(head, e) = Start(text, e) /\ End(head, e) = End(text, e)
             /\ End(text, e) <= LineStart(text, l)
<1>. DEFINE head == SubSeq(text, 1, l - 1)
<1>0. Len(text) \in Nat
  BY LenProperties
<1>1. /\ head \in Seq(Seq(Characters)) /\ Len(head) = l - 1
      /\ \A k \in 1..(l - 1) : head[k] = text[k]
      /\ \A k \in 1..l : Before(head, k) = Before(text, k)
  BY HeadIs
<1>. HIDE DEF head
<1>2. /\ e.from.line \in 1..Len(text) /\ e.to.line \in 1..(l - 1)
      /\ e.from.column \in 0..Len(text[e.from.line]) /\ e.to.column \in 0..Len(text[e.to.line])
  <2>1. DOMAIN text = 1..Len(text)
    BY LenProperties
  <2>2. QED
    BY <2>1, <1>0 DEF Placed, IsPosition
<1>3. End(text, e) \in Nat /\ End(text, e) < LineStart(text, l) /\ LineStart(text, l) \in Nat
  <2>1. l \in (e.to.line + 1)..(Len(text) + 1)
    BY <1>0, <1>2
  <2>2. QED
    BY <2>1, OffsetIs, LineStarts DEF Placed, End
<1>4. e.from.line < l
  <2>1. SUFFICES ASSUME ~(e.from.line < l)
                 PROVE  FALSE
    OBVIOUS
  <2>2. l \in 1..e.from.line
    BY <2>1, <1>0, <1>2
  <2>3. LineStart(text, l) <= Start(text, e) /\ Start(text, e) \in Nat
    BY <2>2, OffsetIs DEF Placed, Start
  <2>4. QED
    BY <2>3, <1>3
<1>5. DOMAIN head = 1..(l - 1)
  BY <1>1, LenProperties
<1>6. e.from.line \in 1..(l - 1) /\ e.from.line \in 1..l /\ e.to.line \in 1..l
  BY <1>0, <1>2, <1>4
<1>7. Placed(head, e)
  BY <1>1, <1>2, <1>5, <1>6 DEF Placed, IsPosition
<1>8. Start(head, e) = Start(text, e) /\ End(head, e) = End(text, e)
  BY <1>1, <1>6 DEF Start, End, Offset, LineStart
<1>9. QED
  BY <1>3, <1>7, <1>8 DEF head

\* An edit below a line begins behind it.
LEMMA EditBelow ==
  ASSUME NEW text \in Seq(Seq(Characters)), NEW l \in 1..Len(text), NEW e, Placed(text, e),
         ~(e.to.line < l), ~(e.from.line <= l /\ l <= e.to.line)
  PROVE  LineStart(text, l + 1) <= Start(text, e)
<1>0. Len(text) \in Nat /\ DOMAIN text = 1..Len(text)
  BY LenProperties
<1>1. e.from.line \in 1..Len(text) /\ e.to.line \in 1..Len(text)
  BY <1>0 DEF Placed, IsPosition
<1>2. l + 1 \in 1..e.from.line
  BY <1>0, <1>1
<1>3. QED
  BY <1>2, OffsetIs DEF Placed, Start

\* Edits that leave a line alone are above it up to some edit, and then below.
LEMMA AboveThenBelow ==
  ASSUME NEW text \in Seq(Seq(Characters)), NEW n \in Nat, NEW s, Successive(text, s, n),
         NEW l \in 1..Len(text),
         \A k \in 1..n : ~(s[k].from.line <= l /\ l <= s[k].to.line)
  PROVE  \E m \in 0..n : /\ \A k \in 1..n : s[k].to.line < l <=> k <= m
                         /\ m # n => LineStart(text, l + 1) <= Start(text, s[m + 1])
<1>. DEFINE Below == {k \in 1..n : ~(s[k].to.line < l)}
<1>1. CASE Below = {}
  <2>1. \A k \in 1..n : s[k].to.line < l
    BY <1>1
  <2>2. n \in 0..n /\ \A k \in 1..n : k <= n
    OBVIOUS
  <2>3. QED
    BY <2>1, <2>2
<1>2. CASE Below # {}
  <2>1. PICK b \in Below : \A k \in Below : b <= k
    <3>1. Below \in SUBSET Nat
      OBVIOUS
    <3>. HIDE DEF Below
    <3>2. QED
      BY <1>2, <3>1, LeastNat
  <2>2. b \in 1..n /\ ~(s[b].to.line < l)
    OBVIOUS
  <2>3. LineStart(text, l + 1) <= Start(text, s[b])
    BY <2>2, EditBelow DEF Successive
  <2>4. ASSUME NEW k \in 1..n, b < k PROVE ~(s[k].to.line < l)
    <3>1. SUFFICES ASSUME s[k].to.line < l PROVE FALSE
      OBVIOUS
    <3>2. Placed(text, s[k]) /\ Placed(text, s[b]) /\ Start(text, s[k]) <= End(text, s[k])
      BY <2>2 DEF Successive
    <3>3. End(text, s[k]) <= LineStart(text, l)
      BY <3>1, <3>2, EditAbove
    <3>4. Start(text, s[b]) < Start(text, s[k])
      BY <2>2, <2>4, SuccessiveAscend
    <3>5. /\ Start(text, s[k]) \in Nat /\ End(text, s[k]) \in Nat /\ Start(text, s[b]) \in Nat
      BY <3>2, PlacedIs
    <3>6. /\ LineStart(text, l) \in Nat /\ LineStart(text, l + 1) \in Nat
          /\ LineStart(text, l) <= LineStart(text, l + 1)
      BY LineStarts
    <3>7. QED
      BY <2>3, <3>2, <3>3, <3>4, <3>5, <3>6
  <2>5. ASSUME NEW k \in 1..n PROVE s[k].to.line < l <=> k <= b - 1
    <3>1. CASE k < b
      <4>1. k \notin Below
        BY <2>1, <2>2, <3>1
      <4>2. QED
        BY <2>2, <3>1, <4>1
    <3>2. CASE ~(k < b)
      <4>1. ~(s[k].to.line < l)
        BY <2>2, <2>4, <3>2
      <4>2. QED
        BY <2>2, <3>2, <4>1
    <3>3. QED
      BY <3>1, <3>2
  <2>6. b - 1 \in 0..n /\ (b - 1) + 1 = b
    BY <2>2
  <2>7. QED
    BY <2>3, <2>5, <2>6
<1>3. QED
  BY <1>1, <1>2

\* Some edits of a text, the first m of which are above a line.
Above(text, s, n, l, m) ==
    /\ Successive(text, s, n)
    /\ \A k \in 1..n : s[k].to.line < l <=> k <= m

FirstOf(s, m) == {s[k] : k \in 1..m}

LEMMA AboveIsSuccessive ==
  ASSUME NEW text \in Seq(Seq(Characters)), NEW n \in Nat, NEW s, NEW l \in 1..Len(text),
         NEW m \in 0..n, Above(text, s, n, l, m)
  PROVE  LET head == SubSeq(text, 1, l - 1)
         IN  /\ \A k \in 1..m : /\ Start(head, s[k]) = Start(text, s[k])
                                /\ End(head, s[k]) = End(text, s[k])
                                /\ End(text, s[k]) <= LineStart(text, l)
             /\ Successive(head, FirstEdits(s, m), m)
<1>. DEFINE head == SubSeq(text, 1, l - 1)
<1>1. \A k \in 1..m : /\ Placed(text, s[k]) /\ s[k].with \in Seq(Characters)
                      /\ Start(text, s[k]) <= End(text, s[k]) /\ s[k].to.line < l
  BY DEF Above, Successive
<1>2. \A k \in 1..m : /\ Placed(head, s[k])
                      /\ Start(head, s[k]) = Start(text, s[k])
                      /\ End(head, s[k]) = End(text, s[k])
                      /\ End(text, s[k]) <= LineStart(text, l)
  BY <1>1, EditAbove
<1>3. \A k \in 2..m : /\ FollowsOn(text, s[k - 1], s[k]) /\ k \in 1..m /\ k - 1 \in 1..m
  BY DEF Above, Successive
<1>. HIDE DEF head
<1>4. \A k \in 2..m : FollowsOn(head, s[k - 1], s[k])
  BY <1>2, <1>3 DEF FollowsOn
<1>5. Successive(head, FirstEdits(s, m), m)
  BY <1>1, <1>2, <1>3, <1>4 DEF Successive, FirstEdits
<1>6. QED
  BY <1>2, <1>5 DEF head

\* However the edits above a line are listed, they have one order.
LEMMA AboveInOrder ==
  ASSUME NEW text \in Seq(Seq(Characters)), NEW n \in Nat, NEW s, NEW l \in 1..Len(text),
         NEW m \in 0..n, Above(text, s, n, l, m),
         NEW A, A = FirstOf(s, m), NEW c \in Nat, NEW a \in Bijection(1..c, A)
  PROVE  InOrder(SubSeq(text, 1, l - 1), a) = FirstEdits(s, m)
<1>. DEFINE head == SubSeq(text, 1, l - 1)
            t == FirstEdits(s, m)
            f == [i \in 1..m |-> CHOOSE k \in 1..m : t[k] = a[i]]
<1>0. DOMAIN t = 1..m /\ \A k \in 1..m : t[k] = s[k]
  BY DEF FirstEdits
<1>1. \A i, j \in 1..m : t[i] = t[j] => i = j
  <2>1. ASSUME NEW i \in 1..m, NEW j \in 1..m, i < j PROVE s[i] # s[j]
    <3>1. Successive(text, s, n) /\ i \in 1..n /\ j \in 1..n
      BY DEF Above
    <3>2. Start(text, s[i]) < Start(text, s[j])
      BY <2>1, <3>1, SuccessiveAscend
    <3>3. Start(text, s[i]) \in Nat
      BY <3>1, PlacedIs DEF Successive
    <3>4. QED
      BY <3>2, <3>3
  <2>2. QED
    BY <1>0, <2>1
<1>2. t \in Bijection(1..m, A)
  <2>1. t \in [1..m -> A] /\ \A e \in A : \E k \in 1..m : t[k] = e
    BY DEF FirstEdits, FirstOf
  <2>. HIDE DEF t
  <2>2. QED
    BY <1>1, <2>1 DEF Bijection, Injection, Surjection, IsInjective
<1>3. c = m
  <2>1. a \in Bijection(1..c, A) /\ ExistsBijection(1..c, A) /\ ExistsBijection(1..m, A)
    BY <1>2 DEF ExistsBijection
  <2>2. Cardinality(A) = c
    BY <2>1, FS_CountingElements
  <2>3. Cardinality(A) = m
    BY <2>1, FS_CountingElements
  <2>4. QED
    BY <2>2, <2>3
<1>4. /\ a \in [1..m -> A] /\ DOMAIN a = 1..m
      /\ \A i, j \in 1..m : a[i] = a[j] => i = j
  BY <1>3 DEF Bijection, Injection, IsInjective
<1>5. \A i \in 1..m : \E k \in 1..m : t[k] = a[i]
  <2>1. \A i \in 1..m : a[i] \in FirstOf(s, m)
    BY <1>4
  <2>2. \A e \in FirstOf(s, m) : \E k \in 1..m : s[k] = e
    BY DEF FirstOf
  <2>3. \A i \in 1..m : \E k \in 1..m : s[k] = a[i]
    BY <2>1, <2>2
  <2>. HIDE DEF t
  <2>4. QED
    BY <2>3, <1>0
<1>. HIDE DEF t
<1>6. f \in [1..m -> 1..m] /\ \A i \in 1..m : t[f[i]] = a[i]
  <2>1. \A i \in 1..m : f[i] \in 1..m /\ t[f[i]] = a[i]
    <3>1. ASSUME NEW i \in 1..m PROVE f[i] \in 1..m /\ t[f[i]] = a[i]
      <4>1. f[i] = CHOOSE k \in 1..m : t[k] = a[i]
        OBVIOUS
      <4>. HIDE DEF f
      <4>2. QED
        BY <1>5, <4>1
    <3>2. QED
      BY <3>1
  <2>2. QED
    BY <2>1
<1>. HIDE DEF f
<1>7. f \in Injection(1..m, 1..m)
  BY <1>4, <1>6 DEF Injection, IsInjective
<1>8. IsFiniteSet(1..m)
  BY FS_Interval
<1>9. f \in Bijection(1..m, 1..m)
  BY <1>7, <1>8, FS_Injection DEF Bijection
<1>10. Successive(head, t, m) /\ head \in Seq(Seq(Characters))
  BY AboveIsSuccessive, HeadIs DEF t
<1>. HIDE DEF head
<1>11. InOrder(head, a) = FirstEdits(t, m)
  <2>1. \A i \in 1..m : a[i] = t[f[i]]
    BY <1>6
  <2>2. DOMAIN a = 1..m /\ m \in Nat
    BY <1>4
  <2>3. QED
    BY <2>1, <2>2, <1>9, <1>10, InOrderIs
<1>12. FirstEdits(t, m) = t
  BY DEF t, FirstEdits
<1>13. QED
  BY <1>11, <1>12 DEF head, t

\* What the edits above a line make of the text above it.
MadeAbove(text, s, l, m) == Assembled(SubSeq(text, 1, l - 1), FirstEdits(s, m))

LEMMA AboveAssembled ==
  ASSUME NEW text \in Seq(Seq(Characters)), NEW n \in Nat, NEW s, NEW l \in 1..Len(text),
         NEW m \in 0..n, Above(text, s, n, l, m)
  PROVE  /\ Cursor(text, s, m + 1) \in 0..LineStart(text, l)
         /\ MadeAbove(text, s, l, m)
              = Joined(text, s, m) \o Slice(Flat(text), Cursor(text, s, m + 1), LineStart(text, l))
<1>. DEFINE head == SubSeq(text, 1, l - 1)
            t == FirstEdits(s, m)
            F == Flat(text)
            a == LineStart(text, l)
<1>1. /\ \A k \in 1..m : /\ Start(head, s[k]) = Start(text, s[k])
                         /\ End(head, s[k]) = End(text, s[k])
                         /\ End(text, s[k]) <= a
      /\ Successive(head, t, m)
  BY AboveIsSuccessive
<1>2. Flat(head) = Slice(F, 0, a)
  BY HeadIs, LineStarts
<1>3. F \in Seq(Characters) /\ Len(F) \in Nat /\ a \in 0..Len(F)
  <2>1. /\ a \in Nat /\ LineStart(text, l + 1) \in Nat
        /\ a <= LineStart(text, l + 1) /\ LineStart(text, l + 1) <= Len(F)
    BY LineStarts
  <2>2. F \in Seq(Characters) /\ Len(F) \in Nat
    BY FlatIs
  <2>3. QED
    BY <2>1, <2>2
<1>4. Len(Flat(head)) = a
  <2>1. Flat(head) = Before(text, l)
    BY HeadIs
  <2>2. QED
    BY <2>1 DEF LineStart
<1>5. \A k \in 1..m : /\ Start(text, s[k]) \in Nat /\ End(text, s[k]) \in Nat
                      /\ Start(text, s[k]) <= End(text, s[k])
  BY PlacedIs DEF Above, Successive
<1>6. DOMAIN t = 1..m /\ Len(t) = m /\ m \in Nat /\ \A k \in 1..m : t[k] = s[k]
  BY DEF FirstEdits
<1>. HIDE DEF head, t, F, a
<1>7. \A k \in 1..(m + 1) : /\ Cursor(head, t, k) = Cursor(text, s, k)
                            /\ Cursor(text, s, k) \in 0..a
  <2>1. ASSUME NEW k \in 1..(m + 1)
        PROVE  /\ Cursor(head, t, k) = Cursor(text, s, k) /\ Cursor(text, s, k) \in 0..a
    <3>1. CASE k = 1
      BY <3>1, <1>3 DEF Cursor
    <3>2. CASE k # 1
      <4>1. k - 1 \in 1..m
        BY <3>2
      <4>2. End(head, t[k - 1]) = End(text, s[k - 1]) /\ End(text, s[k - 1]) \in 0..a
        BY <4>1, <1>1, <1>3, <1>5, <1>6
      <4>3. QED
        BY <3>2, <4>2 DEF Cursor
    <3>3. QED
      BY <3>1, <3>2
  <2>2. QED
    BY <2>1
<1>8. \A k \in 1..m : Chunk(head, t, k) = Chunk(text, s, k)
  <2>1. ASSUME NEW k \in 1..m PROVE Chunk(head, t, k) = Chunk(text, s, k)
    <3>1. /\ k \in 1..(m + 1) /\ Start(head, t[k]) = Start(text, s[k]) /\ t[k] = s[k]
          /\ Start(text, s[k]) \in 0..a
      BY <1>1, <1>3, <1>5, <1>6
    <3>2. Cursor(text, s, k) \in 0..Start(text, s[k])
      <4>1. /\ Successive(head, t, m) /\ head \in Seq(Seq(Characters)) /\ k - 1 \in 0..m
            /\ (k - 1) + 1 = k /\ k - 1 # m
        BY <1>1, HeadIs DEF head
      <4>2. Cursor(head, t, (k - 1) + 1) \in 0..Till(head, t, m, k - 1)
        BY <4>1, <1>6, TillIs
      <4>3. Till(head, t, m, k - 1) = Start(head, t[k])
        BY <4>1 DEF Till
      <4>4. QED
        BY <3>1, <4>1, <4>2, <4>3, <1>7
    <3>3. Slice(Slice(F, 0, a), Cursor(text, s, k), Start(text, s[k])) = Slice(F, Cursor(text, s, k), Start(text, s[k]))
      BY <3>1, <3>2, <1>3, SliceOfSlice
    <3>4. QED
      BY <3>1, <3>3, <1>2, <1>7 DEF Chunk, F
  <2>2. QED
    BY <2>1
<1>9. FlattenSeq([k \in DOMAIN t |-> Chunk(head, t, k)]) = Joined(text, s, m)
  <2>1. [k \in DOMAIN t |-> Chunk(head, t, k)] = [k \in 1..m |-> Chunk(text, s, k)]
    BY <1>6, <1>8
  <2>2. QED
    BY <2>1 DEF Joined
<1>10. Slice(Flat(head), Cursor(head, t, Len(t) + 1), Len(Flat(head))) = Slice(F, Cursor(text, s, m + 1), a)
  <2>1. m + 1 \in 1..(m + 1) /\ a \in 0..a
    BY <1>3, <1>6
  <2>2. Cursor(text, s, m + 1) \in 0..a /\ Cursor(head, t, m + 1) = Cursor(text, s, m + 1)
    BY <2>1, <1>7
  <2>3. Slice(Slice(F, 0, a), Cursor(text, s, m + 1), a) = Slice(F, Cursor(text, s, m + 1), a)
    BY <2>1, <2>2, <1>3, SliceOfSlice
  <2>4. QED
    BY <2>2, <2>3, <1>2, <1>4, <1>6
<1>11. Assembled(head, t) = Joined(text, s, m) \o Slice(F, Cursor(text, s, m + 1), a)
  BY <1>9, <1>10 DEF Assembled
<1>12. m + 1 \in 1..(m + 1)
  BY <1>6
<1>13. QED
  BY <1>7, <1>11, <1>12 DEF MadeAbove, head, t, F, a

Regroups(j, p, q, r, t) == (j \o ((p \o q) \o r)) \o t = ((j \o p) \o q) \o (r \o t)

LEMMA Regrouped ==
  ASSUME NEW X, NEW j \in Seq(X), NEW p \in Seq(X), NEW q \in Seq(X), NEW r \in Seq(X), NEW t \in Seq(X)
  PROVE  Regroups(j, p, q, r, t)
<1>2. \A u, v \in Seq(X) : u \o v \in Seq(X)
  BY ConcatProperties
<1>3. p \o q \in Seq(X) /\ j \o p \in Seq(X)
  BY <1>2, Zenon
<1>4. (j \o p) \o q \in Seq(X)
  BY <1>2, <1>3, Zenon
<1>5. (j \o (p \o q)) \o r = j \o ((p \o q) \o r)
  BY <1>3, ConcatAssociative
<1>6. (j \o p) \o q = j \o (p \o q)
  BY ConcatAssociative
<1>7. (((j \o p) \o q) \o r) \o t = ((j \o p) \o q) \o (r \o t)
  <2>. DEFINE g == (j \o p) \o q
  <2>1. g \in Seq(X)
    BY <1>4
  <2>. HIDE DEF g
  <2>2. (g \o r) \o t = g \o (r \o t)
    BY <2>1, ConcatAssociative
  <2>3. QED
    BY <2>2 DEF g
<1>8. QED
  BY <1>5, <1>6, <1>7 DEF Regroups

\* Edits that leave a line alone keep it, behind what they make of the text above.
LEMMA LineIsKept ==
  ASSUME NEW text \in Seq(Seq(Characters)), NEW n \in Nat, NEW s, NEW l \in 1..Len(text),
         NEW m \in 0..n, Above(text, s, n, l, m),
         m # n => LineStart(text, l + 1) <= Start(text, s[m + 1])
  PROVE  IsPrefix(MadeAbove(text, s, l, m) \o Append(text[l], EndOfLine), Assembled(text, s))
<1>. DEFINE F == Flat(text)
            a == LineStart(text, l)
            b == LineStart(text, l + 1)
            c == Cursor(text, s, m + 1)
            d == Till(text, s, n, m)
            J == Joined(text, s, m)
            line == Append(text[l], EndOfLine)
            kept == J \o Slice(F, c, a)
<1>1. Successive(text, s, n)
  BY DEF Above
<1>2. /\ a \in Nat /\ b \in Nat /\ a <= b /\ b <= Len(F)
      /\ Slice(F, a, b) = line
  BY LineStarts
<1>3. F \in Seq(Characters) /\ Len(F) \in Nat
  BY FlatIs
<1>4. /\ c \in 0..a
      /\ MadeAbove(text, s, l, m) = kept
  <2>1. c \in 0..a
    BY AboveAssembled
  <2>2. MadeAbove(text, s, l, m) = kept
    BY AboveAssembled
  <2>3. QED
    BY <2>1, <2>2
<1>5. d \in 0..Len(F)
  BY <1>1, TillIs
<1>6. b <= d
  <2>1. CASE m = n
    BY <2>1, <1>2 DEF Till
  <2>2. CASE m # n
    BY <2>2 DEF Till
  <2>3. QED
    BY <2>1, <2>2
<1>7. PICK rest \in Seq(Characters) : Assembled(text, s) = (J \o Slice(F, c, d)) \o rest
  BY <1>1, AssembledFrom DEF LeftAt
<1>8. J \in Seq(Characters)
  BY <1>1, JoinedIs
<1>. HIDE DEF F, a, b, c, d, J
<1>9. a \in 0..Len(F) /\ b \in 0..Len(F) /\ d \in 0..Len(F) /\ c \in Nat
  BY <1>2, <1>3, <1>4, <1>5
<1>10. c \in 0..a /\ a \in 0..b /\ b \in 0..d /\ c \in 0..b
  BY <1>2, <1>4, <1>5, <1>6
<1>. DEFINE p == Slice(F, c, a)
            q == Slice(F, a, b)
            r == Slice(F, b, d)
<1>11. p \in Seq(Characters)
  BY <1>3, <1>9, SliceIs
<1>12. q \in Seq(Characters)
  BY <1>2, <1>3, <1>9, SliceIs
<1>13. r \in Seq(Characters)
  BY <1>2, <1>3, <1>9, SliceIs
<1>14. Slice(F, c, d) = (p \o q) \o r
  <2>1. p \o q = Slice(F, c, b)
    BY <1>3, <1>9, <1>10, SlicesMeet
  <2>2. Slice(F, c, b) \o r = Slice(F, c, d)
    BY <1>3, <1>9, <1>10, SlicesMeet
  <2>3. QED
    BY <2>1, <2>2
<1>. HIDE DEF p, q, r
<1>15. p \o q \in Seq(Characters) /\ J \o p \in Seq(Characters)
  BY <1>8, <1>11, <1>12, ConcatProperties
<1>16. (J \o p) \o q \in Seq(Characters) /\ r \o rest \in Seq(Characters)
  BY <1>7, <1>12, <1>13, <1>15, ConcatProperties
<1>17. (J \o ((p \o q) \o r)) \o rest = ((J \o p) \o q) \o (r \o rest)
  <2>1. rest \in Seq(Characters)
    BY <1>7
  <2>2. Regroups(J, p, q, r, rest)
    BY <2>1, <1>8, <1>11, <1>12, <1>13, Regrouped
  <2>3. QED
    BY <2>2 DEF Regroups
<1>. DEFINE begin == (J \o p) \o q
            behind == r \o rest
<1>20. Assembled(text, s) = begin \o behind
  BY <1>7, <1>14, <1>17
<1>21. begin \in Seq(Characters) /\ behind \in Seq(Characters)
  BY <1>16
<1>22. kept \o line = begin
  BY <1>2 DEF p, q
<1>. HIDE DEF begin, behind, kept, line
<1>23. IsPrefix(begin, begin \o behind)
  <2>1. Len(begin) \in 0..Len(begin) /\ Len(behind) \in Nat
    BY <1>21, LenProperties
  <2>2. Slice(begin \o behind, 0, Len(begin)) = Slice(begin, 0, Len(begin))
    BY <1>21, <2>1, SliceOfBoth
  <2>3. Len(begin \o behind) = Len(begin) + Len(behind)
    BY <1>21, ConcatProperties
  <2>4. 0 + 1 = 1 /\ Len(begin) <= Len(begin) + Len(behind)
    BY <2>1
  <2>5. QED
    BY <2>2, <2>3, <2>4 DEF IsPrefix, Slice
<1>24. QED
  BY <1>4, <1>20, <1>22, <1>23 DEF line, kept

-----------------------------------------------------------------------------
(* The fix of a pass                                                       *)

Planned == UNION {v.edits : v \in ToFix}

\* Only the rule that ends the pass has fixed anything, and it has applied the
\* edits of its findings to the text the pass began with.
FixIInv ==
    /\ case \in Cases
    /\ result # NoResult => /\ pc = "done" /\ next \in DOMAIN Order
                            /\ Applicable(case.text, Edits)
                            /\ result = Applied(case.text, Edits)

LEMMA FixIInvInit == PassInit => FixIInv
BY DEF PassInit, FixIInv

LEMMA FixIInvNext == FixIInv /\ [PassNext]_passVars => FixIInv'
<1>1. SUFFICES ASSUME FixIInv, [PassNext]_passVars
               PROVE  FixIInv'
  OBVIOUS
<1>2. ASSUME case' = case, next' = next PROVE Edits' = Edits
  BY <1>2 DEF Edits, ToFix, ReportedFindings, Reported, rule, Active, Authorized, src
<1>3. ASSUME pc # "done", result' = result, case' = case PROVE FixIInv'
  BY <1>1, <1>3 DEF FixIInv
<1>4. CASE SkipUnselected
  BY <1>3, <1>4 DEF SkipUnselected
<1>5. CASE CheckFails
  BY <1>3, <1>5 DEF CheckFails, AtRule
<1>6. CASE CheckRule
  BY <1>3, <1>6 DEF CheckRule, AtRule
<1>7. CASE AuditSuppressions
  BY <1>3, <1>7 DEF AuditSuppressions
<1>8. CASE FixNothing
  BY <1>3, <1>8 DEF FixNothing, AtRule
<1>9. CASE FixRefused
  BY <1>3, <1>9 DEF FixRefused, AtRule
<1>10. CASE FixApplied
  <2>1. /\ next \in DOMAIN Order /\ Applicable(case.text, Edits)
        /\ result' = Applied(case.text, Edits) /\ pc' = "done"
        /\ case' = case /\ next' = next
    BY <1>10 DEF FixApplied, AtRule
  <2>2. Edits' = Edits
    BY <1>2, <2>1
  <2>3. QED
    BY <1>1, <2>1, <2>2 DEF FixIInv
<1>11. CASE NothingFixed
  BY <1>3, <1>11 DEF NothingFixed
<1>12. CASE UNCHANGED passVars
  <2>1. pc' = pc /\ result' = result /\ case' = case /\ next' = next
    BY <1>12 DEF passVars
  <2>2. Edits' = Edits
    BY <1>2, <2>1
  <2>3. QED
    BY <1>1, <2>1, <2>2 DEF FixIInv
<1>13. QED
  BY <1>1, <1>4, <1>5, <1>6, <1>7, <1>8, <1>9, <1>10, <1>11, <1>12 DEF PassNext

\* A rule plans finitely many edits, and lists each of them once.
LEMMA EditsAre ==
  ASSUME case \in Cases, next \in DOMAIN Order
  PROVE  /\ case.text \in Seq(Seq(Characters))
         /\ IsFiniteSet(Planned) /\ \A e \in Planned : e.with \in Seq(Characters)
         /\ Cardinality(Planned) \in Nat
         /\ Edits \in Bijection(1..Cardinality(Planned), Planned)
<1>1. Order[next] \in Rules
  BY ElementOfSeq, SuppressedCheckAssumption
<1>2. /\ IsFiniteSet(Reported)
      /\ \A v \in Reported : IsFiniteSet(v.edits) /\ \A e \in v.edits : e.with \in Seq(Characters)
  BY <1>1, SuppressedCheckAssumption DEF Reported, rule
<1>3. ToFix \subseteq Reported
  BY DEF ToFix
<1>4. IsFiniteSet(ToFix)
  BY <1>2, <1>3, FS_Subset
<1>. DEFINE sets == {v.edits : v \in ToFix}
            editsOf == [v \in ToFix |-> v.edits]
<1>5. editsOf \in Surjection(ToFix, sets)
  BY DEF Surjection
<1>6. IsFiniteSet(sets)
  BY <1>4, <1>5, FS_Surjection
<1>7. \A T \in sets : IsFiniteSet(T)
  BY <1>2, <1>3
<1>8. \A e \in UNION sets : e.with \in Seq(Characters)
  BY <1>2, <1>3
<1>9. Planned = UNION sets /\ Edits = SetToSeq(UNION sets)
  BY DEF Planned, Edits
<1>. HIDE DEF sets
<1>10. IsFiniteSet(Planned)
  BY <1>6, <1>7, <1>9, FS_UNION
<1>11. case.text \in Seq(Seq(Characters))
  BY SuppressedCheckAssumption
<1>12. QED
  BY <1>8, <1>9, <1>10, <1>11, SequenceOf

\* What the edits of a fix are, put in order.
LEMMA FixInOrder ==
  ASSUME FixIInv, result # NoResult
  PROVE  LET n == Cardinality(Planned)
             s == InOrder(case.text, Edits)
         IN  /\ n \in Nat /\ Successive(case.text, s, n)
             /\ \A e : e \in Planned <=> \E k \in 1..n : e = s[k]
<1>. DEFINE n == Cardinality(Planned)
            s == InOrder(case.text, Edits)
<1>1. /\ case \in Cases /\ next \in DOMAIN Order /\ Applicable(case.text, Edits)
  BY DEF FixIInv
<1>2. /\ case.text \in Seq(Seq(Characters)) /\ n \in Nat
      /\ Edits \in Bijection(1..n, Planned) /\ \A e \in Planned : e.with \in Seq(Characters)
  BY <1>1, EditsAre
<1>3. /\ DOMAIN Edits = 1..n /\ \A i \in 1..n : Edits[i] \in Planned
      /\ \A e \in Planned : \E i \in 1..n : Edits[i] = e
  BY <1>2 DEF Bijection, Injection, Surjection
<1>4. \A i \in 1..n : Edits[i].with \in Seq(Characters)
  BY <1>2, <1>3
<1>. HIDE DEF n
<1>5. Successive(case.text, s, n)
  BY <1>1, <1>2, <1>3, <1>4, ApplicableIs
<1>6. PICK f \in Bijection(1..n, 1..n) : \A i \in 1..n : Edits[i] = s[f[i]]
  <2>. DEFINE text == case.text
              edits == Edits
  <2>1. /\ text \in Seq(Seq(Characters)) /\ n \in Nat /\ DOMAIN edits = 1..n
        /\ \A i \in 1..n : edits[i].with \in Seq(Characters)
        /\ Applicable(text, edits)
    BY <1>1, <1>2, <1>3, <1>4
  <2>. HIDE DEF text, edits
  <2>2. \E f \in Bijection(1..n, 1..n) : \A i \in 1..n : edits[i] = InOrder(text, edits)[f[i]]
    BY <2>1, ApplicableIs
  <2>3. QED
    BY <2>2 DEF text, edits
<1>7. (\A i \in 1..n : f[i] \in 1..n) /\ \A k \in 1..n : \E i \in 1..n : f[i] = k
  BY <1>6 DEF Bijection, Injection, Surjection
<1>. HIDE DEF s
<1>8. ASSUME NEW e \in Planned PROVE \E k \in 1..n : e = s[k]
  <2>1. PICK i \in 1..n : Edits[i] = e
    BY <1>3
  <2>2. f[i] \in 1..n /\ e = s[f[i]]
    BY <2>1, <1>6, <1>7
  <2>3. QED
    BY <2>2
<1>9. ASSUME NEW k \in 1..n PROVE s[k] \in Planned
  <2>1. PICK i \in 1..n : f[i] = k
    BY <1>7
  <2>2. Edits[i] \in Planned
    BY <1>3
  <2>3. Edits[i] = s[k]
    BY <2>1, <1>6
  <2>4. QED
    BY <2>2, <2>3
<1>10. QED
  BY <1>2, <1>5, <1>8, <1>9 DEF n, s

-----------------------------------------------------------------------------
(* Theorems                                                                *)

\* A fix is what the edits of the rule's findings give one at a time, from the
\* last in the text to the first, and the order in which the rule planned them
\* makes no difference (apply_source_edits).
THEOREM FixesAreTheirEdits == PassSpec => []FixIsItsEdits
<1>1. FixIInv => FixIsItsEdits
  <2>1. SUFFICES ASSUME FixIInv, result # NoResult, NEW other \in Reorderings(Edits)
                 PROVE  /\ result = OneByOne(case.text, InOrder(case.text, other))
                        /\ Applied(case.text, other) = result
    BY DEF FixIsItsEdits
  <2>. DEFINE n == Cardinality(Planned)
              s == InOrder(case.text, Edits)
  <2>2. /\ case \in Cases /\ next \in DOMAIN Order /\ Applicable(case.text, Edits)
        /\ result = Applied(case.text, Edits)
    BY <2>1 DEF FixIInv
  <2>3. /\ case.text \in Seq(Seq(Characters)) /\ n \in Nat
        /\ Edits \in Bijection(1..n, Planned) /\ \A e \in Planned : e.with \in Seq(Characters)
    BY <2>2, EditsAre
  <2>4. DOMAIN Edits = 1..n /\ \A i \in 1..n : Edits[i].with \in Seq(Characters)
    BY <2>3 DEF Bijection, Injection
  <2>5. Successive(case.text, s, n)
    BY <2>1, FixInOrder
  <2>. HIDE DEF n
  <2>6. InOrder(case.text, other) = s
    BY <2>2, <2>3, <2>4, ReorderedInOrder
  <2>7. OneByOne(case.text, s) = Assembled(case.text, s)
    BY <2>3, <2>5, OneByOneIs
  <2>8. QED
    BY <2>2, <2>6, <2>7 DEF Applied
<1>2. QED
  BY <1>1, FixIInvInit, FixIInvNext, PTL DEF PassSpec

\* A line that only the fixes of suppressed findings would touch is in the
\* fixed text, right behind what the edits above it make of the text above it
\* (fix_violations).
THEOREM SuppressedLinesAreKept == PassSpec => []SuppressedLinesKept
<1>1. FixIInv => SuppressedLinesKept
  <2>1. SUFFICES ASSUME FixIInv, result # NoResult, NEW l \in DOMAIN case.text,
                        \A v \in Reported :
                           (\E e \in v.edits : e.from.line <= l /\ l <= e.to.line) =>
                              \E s \in Selectors(src) : Suppresses(s, Finding(v), Active, Authorized)
                 PROVE  IsPrefix(Applied(SubSeq(case.text, 1, l - 1), SetToSeq(EditsAbove(l)))
                                   \o Append(case.text[l], EndOfLine), result)
    BY DEF SuppressedLinesKept
  <2>. DEFINE text == case.text
              n == Cardinality(Planned)
              s == InOrder(text, Edits)
              A == EditsAbove(l)
              a == SetToSeq(A)
  <2>2. /\ case \in Cases /\ next \in DOMAIN Order /\ result = Assembled(text, s)
    BY <2>1 DEF FixIInv, Applied
  <2>3. text \in Seq(Seq(Characters)) /\ IsFiniteSet(Planned)
    BY <2>2, EditsAre
  <2>4. l \in 1..Len(text)
    BY <2>1, <2>3, LenProperties
  <2>5. n \in Nat /\ Successive(text, s, n) /\ \A e : e \in Planned <=> \E k \in 1..n : e = s[k]
    BY <2>1, FixInOrder
  <2>6. ASSUME NEW e \in Planned PROVE ~(e.from.line <= l /\ l <= e.to.line)
    <3>1. PICK v \in ToFix : e \in v.edits
      BY DEF Planned
    <3>2. v \in Reported /\ Finding(v) \in Unsuppressed(Selectors(src), ReportedFindings, Active, Authorized)
      BY <3>1 DEF ToFix
    <3>3. ~ \E t \in Selectors(src) : Suppresses(t, Finding(v), Active, Authorized)
      BY <3>2 DEF Unsuppressed
    <3>4. QED
      BY <2>1, <3>1, <3>2, <3>3
  <2>7. A = {e \in Planned : e.to.line < l}
    BY DEF EditsAbove, Planned
  <2>. HIDE DEF text, n, s, A
  <2>8. \A k \in 1..n : ~(s[k].from.line <= l /\ l <= s[k].to.line)
    BY <2>5, <2>6
  <2>9. PICK m \in 0..n : /\ \A k \in 1..n : s[k].to.line < l <=> k <= m
                          /\ m # n => LineStart(text, l + 1) <= Start(text, s[m + 1])
    BY <2>3, <2>4, <2>5, <2>8, AboveThenBelow
  <2>10. Above(text, s, n, l, m)
    BY <2>5, <2>9 DEF Above
  <2>11. A = FirstOf(s, m)
    <3>1. \A k \in 1..m : k \in 1..n /\ k <= m
      BY <2>5, <2>9
    <3>2. \A k \in 1..n : k <= m => k \in 1..m
      BY <2>5, <2>9
    <3>3. \A e : e \in A <=> \E k \in 1..m : e = s[k]
      BY <2>5, <2>7, <2>9, <3>1, <3>2
    <3>4. QED
      BY <3>3 DEF FirstOf
  <2>12. IsFiniteSet(A)
    BY <2>3, <2>7, FS_Subset
  <2>13. Cardinality(A) \in Nat /\ a \in Bijection(1..Cardinality(A), A)
    BY <2>12, SequenceOf
  <2>. HIDE DEF a
  <2>14. InOrder(SubSeq(text, 1, l - 1), a) = FirstEdits(s, m)
    <3>1. n \in Nat /\ m \in 0..n
      BY <2>5, <2>9
    <3>2. text \in Seq(Seq(Characters))
      BY <2>3
    <3>3. QED
      BY <3>1, <3>2, <2>4, <2>10, <2>11, <2>13, AboveInOrder
  <2>15. Applied(SubSeq(text, 1, l - 1), a) = MadeAbove(text, s, l, m)
    BY <2>14 DEF Applied, MadeAbove
  <2>16. IsPrefix(MadeAbove(text, s, l, m) \o Append(text[l], EndOfLine), Assembled(text, s))
    BY <2>3, <2>4, <2>5, <2>9, <2>10, LineIsKept
  <2>17. QED
    BY <2>2, <2>15, <2>16 DEF text, A, a
<1>2. QED
  BY <1>1, FixIInvInit, FixIInvNext, PTL DEF PassSpec
=============================================================================
