------------------------- MODULE CacheProtocolProofs -------------------------
(***************************************************************************)
(* Proofs about CacheProtocol, for any contents, rules, files, invocations *)
(* and interleaving.                                                       *)
(*                                                                         *)
(*   TypeCorrect          TypeOK, with Shape: the types alone are not      *)
(*                        inductive, since a commit takes the last of its  *)
(*                        batch's days and a truncation the planned write. *)
(*   StoredProofsAreTrue  RowsProveClean, with Sound: what an invocation   *)
(*                        carries from a file to the store is true.        *)
(*   CacheRefinesUncached every step is one of UncachedCheck or a stutter; *)
(*                        a hit is its Analyse, by the soundness of rows.  *)
(*   ProofsHaveEngine     RowsHaveEngine, with StoreShape.                 *)
(*   ProofsAreKept        ProofsSurvive, from the same invariant.          *)
(***************************************************************************)
EXTENDS CacheProtocol, WellFoundedInduction, TLAPS

(* Type correctness                                                        *)

\* prepare gives an invocation its keys, and nothing of an earlier one.
LEMMA PrepareType == ASSUME TypeOK, NEW i \in Invocations, Prepare(i) PROVE TypeOK'
<1>1. PICK launch \in Launches[i] :
        run' = [run EXCEPT ![i] = [engine |-> launch.engine, analysis |-> launch.analysis,
                                   mode |-> launch.mode, context |-> PrepareContext(i)]]
  BY DEF Prepare
<1>2. launch \in [engine : Engines, analysis : Analyses, mode : Modes]
  BY LaunchesAssumption
<1>3. [engine |-> launch.engine, analysis |-> launch.analysis,
       mode |-> launch.mode, context |-> PrepareContext(i)] \in Runs
  BY <1>2 DEF Runs, PrepareContext, TypeOK
<1>4. run' \in [Invocations -> Runs \cup {None}]
  BY <1>1, <1>3 DEF TypeOK, UncachedTypeOK
<1>5. cacheable' \in [Invocations -> SUBSET Files] /\ stage' \in [Invocations -> [Files -> Stages]]
  BY DEF TypeOK, Prepare, Stages
<1>6. QED
  BY <1>4, <1>5 DEF TypeOK, UncachedTypeOK, Prepare, NoneForAll, Phases, diskVars, storeVars

\* The results the program makes up without analysis are results.
LEMMA ConcreteResults == CachedClean \in Results /\ FailedResult \in Results
  BY DEF CachedClean, FailedResult, Results, Verdicts

\* Setting one file's entry of one invocation.
LEMMA NestedExcept ==
  ASSUME NEW V, NEW table \in [Invocations -> [Files -> V]],
         NEW i \in Invocations, NEW f \in Files, NEW v \in V
  PROVE  [table EXCEPT ![i][f] = v] \in [Invocations -> [Files -> V]]
OBVIOUS

\* A file moves to one of the stages.
LEMMA SetStageType ==
  ASSUME TypeOK, NEW i \in Invocations, NEW f \in Files, NEW s \in Stages, SetStage(i, f, s)
  PROVE  stage' \in [Invocations -> [Files -> Stages]]
  BY NestedExcept DEF TypeOK, SetStage

\* A file is given one of the results.
LEMMA SetReportType ==
  ASSUME TypeOK, NEW i \in Invocations, NEW f \in Files, NEW r \in Results, SetReport(i, f, r)
  PROVE  report' \in [Invocations -> [Files -> Results \cup {None}]]
  BY NestedExcept DEF TypeOK, UncachedTypeOK, SetReport

\* A rejected candidate is forgotten.
LEMMA MissType ==
  ASSUME TypeOK, NEW i \in Invocations, NEW f \in Files, Miss(i, f)
  PROVE  /\ stage' \in [Invocations -> [Files -> Stages]]
         /\ candidate' \in [Invocations -> [Files -> Proofs \cup {None}]]
         /\ report' = report
<1>1. candidate' = [candidate EXCEPT ![i][f] = None]
  BY DEF Miss
<1>2. candidate' \in [Invocations -> [Files -> Proofs \cup {None}]]
  BY <1>1, NestedExcept DEF TypeOK
<1>3. stage' \in [Invocations -> [Files -> Stages]]
  BY SetStageType DEF Miss, Stages
<1>4. QED
  BY <1>2, <1>3 DEF Miss

\* Comparing and hashing candidates keeps the types.
LEMMA ProbeType ==
  ASSUME TypeOK, NEW i \in Invocations, NEW f \in Files,
         StatCandidate(i, f) \/ ProbeReadFails(i, f) \/ ValidateSource(i, f)
  PROVE  TypeOK'
<1>1. stage' \in [Invocations -> [Files -> Stages]]
  <2>1. Miss(i, f) \/ SetStage(i, f, "possible") \/ SetStage(i, f, "hit")
    BY DEF StatCandidate, ProbeReadFails, ValidateSource
  <2>2. QED
    BY <2>1, MissType, SetStageType DEF Stages
<1>2. candidate' \in [Invocations -> [Files -> Proofs \cup {None}]]
  <2>1. Miss(i, f) \/ candidate' = candidate
    BY DEF StatCandidate, ProbeReadFails, ValidateSource
  <2>2. QED
    BY <2>1, MissType DEF TypeOK
<1>3. report' \in [Invocations -> [Files -> Results \cup {None}]]
  <2>1. report' = report \/ SetReport(i, f, CachedClean)
    BY DEF StatCandidate, ProbeReadFails, ValidateSource, Miss
  <2>2. QED
    BY <2>1, ConcreteResults, SetReportType DEF TypeOK, UncachedTypeOK
<1>4. /\ UNCHANGED <<disk, run, writing, diskVars, storeVars, lock>>
      /\ UNCHANGED <<phase, cacheable, hint, snapshot, touch, proofDay>>
  BY DEF StatCandidate, ProbeReadFails, ValidateSource
<1>5. QED
  BY <1>1, <1>2, <1>3, <1>4 DEF TypeOK, UncachedTypeOK, diskVars, storeVars

\* A looked-up candidate is a proof or nothing.
LEMMA LookupRowType ==
  ASSUME TypeOK, NEW i \in Invocations, NEW f \in Files, run[i] # None, LookupRow(i, f)
  PROVE  TypeOK'
<1>1. stage' \in [Invocations -> [Files -> Stages]]
  BY SetStageType DEF LookupRow, Stages
<1>2. rows[KeyOf(i, f)] \in Proofs \cup {None}
  BY DEF TypeOK, UncachedTypeOK, KeyOf, Keys, Runs
<1>3. candidate' \in [Invocations -> [Files -> Proofs \cup {None}]]
  <2>1. candidate' = candidate \/ candidate' = [candidate EXCEPT ![i][f] = rows[KeyOf(i, f)]]
    BY DEF LookupRow
  <2> DEFINE row == rows[KeyOf(i, f)]
  <2>2. row \in Proofs \cup {None}
    BY <1>2
  <2> HIDE DEF row
  <2>3. [candidate EXCEPT ![i][f] = row] \in [Invocations -> [Files -> Proofs \cup {None}]]
    BY <2>2 DEF TypeOK
  <2>4. QED
    BY <2>1, <2>3 DEF TypeOK, row
<1>4. QED
  BY <1>1, <1>3 DEF TypeOK, UncachedTypeOK, LookupRow, diskVars, storeVars, uncachedVars

\* The end of the lookup keeps the types.
LEMMA EndLookupType == ASSUME TypeOK, NEW i \in Invocations, EndLookup(i) PROVE TypeOK'
  BY DEF TypeOK, UncachedTypeOK, EndLookup, Phases, diskVars, storeVars, uncachedVars

\* Touches carry the day the clock shows.
LEMMA EndProbeType == ASSUME TypeOK, NEW i \in Invocations, EndProbe(i) PROVE TypeOK'
  BY DEF TypeOK, UncachedTypeOK, EndProbe, TouchOf, NoneForAll, Phases, diskVars, storeVars, uncachedVars

\* What fstat tells is a size and a modification time.
LEMMA OpenSourceType ==
  ASSUME TypeOK, NEW i \in Invocations, NEW f \in Files, OpenSource(i, f) PROVE TypeOK'
<1>1. stage' \in [Invocations -> [Files -> Stages]]
  BY SetStageType DEF OpenSource, Stages
<1>2. [size |-> SizeOf[disk[f]], mtime |-> mtime[f]] \in Hints
  BY ProtocolAssumption DEF TypeOK, UncachedTypeOK, Hints
<1>3. hint' \in [Invocations -> [Files -> Hints \cup {None}]]
  <2>1. \/ hint' = hint
        \/ hint' = [hint EXCEPT ![i][f] = [size |-> SizeOf[disk[f]], mtime |-> mtime[f]]]
    BY DEF OpenSource
  <2>2. hint \in [Invocations -> [Files -> Hints \cup {None}]]
    BY DEF TypeOK
  <2> DEFINE seen == [size |-> SizeOf[disk[f]], mtime |-> mtime[f]]
  <2>3. seen \in Hints
    BY <1>2
  <2> HIDE DEF seen
  <2>4. [hint EXCEPT ![i][f] = seen] \in [Invocations -> [Files -> Hints \cup {None}]]
    BY <2>2, <2>3
  <2>5. QED
    BY <2>1, <2>2, <2>4 DEF seen
<1>4. QED
  BY <1>1, <1>3 DEF TypeOK, UncachedTypeOK, OpenSource, diskVars, storeVars, uncachedVars

\* Read and write failures report an error.
LEMMA FailuresType ==
  ASSUME TypeOK, NEW i \in Invocations, NEW f \in Files,
         ReadSourceFails(i, f) \/ WriteSourceFails(i, f)
  PROVE  TypeOK'
<1>1. stage' \in [Invocations -> [Files -> Stages]]
  BY SetStageType DEF ReadSourceFails, WriteSourceFails, Stages
<1>3. report' \in [Invocations -> [Files -> Results \cup {None}]]
  BY ConcreteResults, SetReportType DEF ReadSourceFails, WriteSourceFails
<1>4. CASE ReadSourceFails(i, f)
  <2>1. hint' \in [Invocations -> [Files -> Hints \cup {None}]]
    BY <1>4, NestedExcept DEF TypeOK, ReadSourceFails
  <2>2. QED
    BY <1>1, <1>3, <1>4, <2>1 DEF TypeOK, UncachedTypeOK, ReadSourceFails, diskVars, storeVars
<1>5. CASE WriteSourceFails(i, f)
  <2>1. writing' \in [Invocations -> [Files -> Writes \cup {None}]]
    BY <1>5, NestedExcept DEF TypeOK, UncachedTypeOK, WriteSourceFails
  <2>2. QED
    BY <1>1, <1>3, <1>5, <2>1 DEF TypeOK, UncachedTypeOK, WriteSourceFails, diskVars, storeVars
<1>6. QED
  BY <1>4, <1>5

\* What the rules leave of a content, whatever the line ending.
LEMMA PlanType ==
  ASSUME TypeOK, NEW i \in Invocations, NEW f \in Files, run[i] # None, NEW c \in Contents
  PROVE  Plan(i, f, c) \in [source : Contents, verdict : Verdicts]
<1>1. /\ run[i].engine \in Engines /\ run[i].analysis \in Analyses
      /\ run[i].context[f] \in Contexts
  BY DEF TypeOK, UncachedTypeOK, Runs
<1> DEFINE le == ResolveLineEnding(run[i].analysis, c)
           input == <<run[i].engine, run[i].analysis, run[i].context[f], c, le>>
<1>2. le \in Endings
  BY <1>1, AnalysisAssumption DEF ResolveLineEnding
<1>3. input \in Inputs
  BY <1>1, <1>2 DEF Inputs
<1>4. Rewrite[input] \in Rewrites
  BY <1>3, AnalysisAssumption
<1>5. \A d \in Contents :
        Verdict[<<run[i].engine, run[i].analysis, run[i].context[f], d, le>>] \in Verdicts
  BY <1>1, <1>2, AnalysisAssumption DEF Inputs
<1> HIDE DEF le
<1>6. QED
  BY <1>4, <1>5 DEF Plan, RunRulePlan, Rewrites, Verdicts, le

\* Analysis leaves a result or a planned write, and a snapshot of known type.
LEMMA ReadSourceType ==
  ASSUME TypeOK, NEW i \in Invocations, NEW f \in Files, run[i] # None, ReadSource(i, f)
  PROVE  TypeOK'
<1> DEFINE plan == Plan(i, f, disk[f])
<1>1. disk[f] \in Contents
  BY DEF TypeOK, UncachedTypeOK
<1>2. plan \in [source : Contents, verdict : Verdicts]
  BY <1>1, PlanType
<1> HIDE DEF plan
<1>3. stage' \in [Invocations -> [Files -> Stages]]
  BY SetStageType DEF ReadSource, Stages
<1>4. hint' \in [Invocations -> [Files -> Hints \cup {None}]]
  BY NestedExcept DEF TypeOK, ReadSource
<1>5. writing' \in [Invocations -> [Files -> Writes \cup {None}]]
  <2>1. [source |-> plan.source, verdict |-> plan.verdict, truncated |-> FALSE] \in Writes
    BY <1>2 DEF Writes
  <2>2. \/ writing' = writing
        \/ writing' = [writing EXCEPT ![i][f] =
               [source |-> plan.source, verdict |-> plan.verdict, truncated |-> FALSE]]
    BY DEF ReadSource, plan
  <2>3. writing \in [Invocations -> [Files -> Writes \cup {None}]]
    BY DEF TypeOK, UncachedTypeOK
  <2> DEFINE write == [source |-> plan.source, verdict |-> plan.verdict, truncated |-> FALSE]
  <2>4. write \in Writes
    BY <2>1
  <2> HIDE DEF write
  <2>5. [writing EXCEPT ![i][f] = write] \in [Invocations -> [Files -> Writes \cup {None}]]
    BY <2>3, <2>4
  <2>6. QED
    BY <2>2, <2>3, <2>5 DEF write
<1>6. report' \in [Invocations -> [Files -> Results \cup {None}]]
  <2>1. ResultOf(plan, disk[f]) \in Results
    BY <1>2 DEF ResultOf, Results
  <2>2. report' = report \/ SetReport(i, f, ResultOf(plan, disk[f]))
    BY DEF ReadSource, plan
  <2>3. QED
    BY <2>1, <2>2, SetReportType DEF TypeOK, UncachedTypeOK
<1>7. snapshot' \in [Invocations -> [Files -> Snapshots \cup {None}]]
  <2>1. HintedMtime(i, f, disk[f]) \in Mtimes \cup {None}
    BY DEF TypeOK, HintedMtime, Hints
  <2>2. UnwrittenSnapshot(i, f, plan, disk[f]) \in Snapshots \cup {None}
    BY <1>1, <2>1 DEF UnwrittenSnapshot, Snapshots
  <2>3. \/ snapshot' = snapshot
        \/ snapshot' = [snapshot EXCEPT ![i][f] = UnwrittenSnapshot(i, f, plan, disk[f])]
    BY DEF ReadSource, plan
  <2>4. snapshot \in [Invocations -> [Files -> Snapshots \cup {None}]]
    BY DEF TypeOK
  <2> DEFINE kept == UnwrittenSnapshot(i, f, plan, disk[f])
  <2>5. kept \in Snapshots \cup {None}
    BY <2>2
  <2> HIDE DEF kept
  <2>6. [snapshot EXCEPT ![i][f] = kept] \in [Invocations -> [Files -> Snapshots \cup {None}]]
    BY <2>4, <2>5
  <2>7. QED
    BY <2>3, <2>4, <2>6 DEF kept
<1>8. UNCHANGED <<disk, run, diskVars, storeVars, lock, phase, cacheable, candidate, touch, proofDay>>
  BY DEF ReadSource
<1>9. QED
  BY <1>3, <1>4, <1>5, <1>6, <1>7, <1>8 DEF TypeOK, UncachedTypeOK, diskVars, storeVars

\* A truncated file is empty.
LEMMA TruncateSourceType ==
  ASSUME TypeOK, NEW i \in Invocations, NEW f \in Files, writing[i][f] # None,
         TruncateSource(i, f)
  PROVE  TypeOK'
<1>1. stage' \in [Invocations -> [Files -> Stages]]
  BY SetStageType DEF TruncateSource, Stages
<1>2. disk' \in [Files -> Contents] /\ mtime' \in [Files -> Mtimes]
  BY AnalysisAssumption DEF TypeOK, UncachedTypeOK, TruncateSource, TouchFile
<1>3. writing' \in [Invocations -> [Files -> Writes \cup {None}]]
  <2>1. writing[i][f] \in Writes
    BY DEF TypeOK, UncachedTypeOK
  <2>2. [writing[i][f] EXCEPT !.truncated = TRUE] \in Writes
    BY <2>1 DEF Writes
  <2>3. writing' = [writing EXCEPT ![i][f] = [writing[i][f] EXCEPT !.truncated = TRUE]]
    BY DEF TypeOK, UncachedTypeOK, TruncateSource
  <2>4. QED
    BY <2>2, <2>3, NestedExcept DEF TypeOK, UncachedTypeOK
<1>4. QED
  BY <1>1, <1>2, <1>3 DEF TypeOK, UncachedTypeOK, TruncateSource, storeVars

\* A written file holds the planned text.
LEMMA WriteSourceType ==
  ASSUME TypeOK, NEW i \in Invocations, NEW f \in Files, writing[i][f] # None,
         WriteSource(i, f)
  PROVE  TypeOK'
<1>1. writing[i][f] \in Writes
  BY DEF TypeOK, UncachedTypeOK
<1>2. stage' \in [Invocations -> [Files -> Stages]]
  BY SetStageType DEF WriteSource, Stages
<1>3. disk' \in [Files -> Contents] /\ mtime' \in [Files -> Mtimes]
  BY <1>1 DEF TypeOK, UncachedTypeOK, WriteSource, TouchFile, Writes
<1>4. report' \in [Invocations -> [Files -> Results \cup {None}]]
  BY <1>1, SetReportType DEF WriteSource, Writes, Results
<1>5. writing' \in [Invocations -> [Files -> Writes \cup {None}]]
  BY NestedExcept DEF TypeOK, UncachedTypeOK, WriteSource
<1>6. snapshot' \in [Invocations -> [Files -> Snapshots \cup {None}]]
  <2>1. WrittenSnapshot(i, f) \in Snapshots \cup {None}
    BY <1>1 DEF WrittenSnapshot, Snapshots, Writes
  <2>2. QED
    BY <2>1, NestedExcept DEF TypeOK, WriteSource
<1>7. QED
  BY <1>2, <1>3, <1>4, <1>5, <1>6 DEF TypeOK, UncachedTypeOK, WriteSource, storeVars

\* The mtime of a written file is one a file may carry.
LEMMA StatWrittenType ==
  ASSUME TypeOK, NEW i \in Invocations, NEW f \in Files, StatWritten(i, f) PROVE TypeOK'
<1>1. stage' \in [Invocations -> [Files -> Stages]]
  BY SetStageType DEF StatWritten, Stages
<1>2. snapshot' \in [Invocations -> [Files -> Snapshots \cup {None}]]
  <2>1. CASE snapshot' = snapshot
    BY <2>1 DEF TypeOK
  <2>2. CASE snapshot[i][f] # None /\ snapshot' = [snapshot EXCEPT ![i][f].mtime = mtime[f]]
    <3>1. [snapshot[i][f] EXCEPT !.mtime = mtime[f]] \in Snapshots
      <4>1. snapshot[i][f] \in Snapshots /\ mtime[f] \in Mtimes
        BY <2>2 DEF TypeOK
      <4>2. QED
        BY <4>1 DEF Snapshots
    <3>2. snapshot' = [snapshot EXCEPT ![i][f] = [snapshot[i][f] EXCEPT !.mtime = mtime[f]]]
      BY <2>2 DEF TypeOK
    <3>3. QED
      BY <3>1, <3>2, NestedExcept DEF TypeOK
  <2>3. QED
    BY <2>1, <2>2 DEF StatWritten
<1>3. QED
  BY <1>1, <1>2 DEF TypeOK, UncachedTypeOK, StatWritten, diskVars, storeVars, uncachedVars

\* New proofs carry the day the clock shows.
LEMMA PersistType == ASSUME TypeOK, NEW i \in Invocations, Persist(i) PROVE TypeOK'
  BY DEF TypeOK, UncachedTypeOK, Persist, Phases, diskVars, storeVars, uncachedVars

\* The lock is held by an invocation.
LEMMA AcquireLockType == ASSUME TypeOK, NEW i \in Invocations, AcquireLock(i) PROVE TypeOK'
  BY DEF TypeOK, UncachedTypeOK, AcquireLock, Phases, diskVars, storeVars, uncachedVars

\* A failing store keeps the types.
LEMMA StoreFailsType == ASSUME TypeOK, NEW i \in Invocations, StoreFails(i) PROVE TypeOK'
  BY DEF TypeOK, UncachedTypeOK, StoreFails, ReleaseLock, Phases, diskVars, storeVars, uncachedVars

\* Opening, quarantining or creating a database keeps the types.
LEMMA OpenDatabaseType ==
  ASSUME TypeOK, NEW i \in Invocations,
         OpenDatabase(i) \/ QuarantineDatabase(i) \/ CreateDatabase(i)
  PROVE  TypeOK'
<1>1. /\ rows' \in [Keys -> Proofs \cup {None}]
      /\ engineDay' \in [Engines -> Days \cup {None}] /\ pruneDay' \in Days \cup {None}
      /\ dbState' \in {"absent", "current", "unusable"}
  BY DEF TypeOK, OpenDatabase, QuarantineDatabase, CreateDatabase, EmptyStore, storeVars
<1>2. phase' \in [Invocations -> Phases]
  BY DEF TypeOK, OpenDatabase, QuarantineDatabase, CreateDatabase, Phases
<1>3. QED
  BY <1>1, <1>2 DEF TypeOK, UncachedTypeOK, OpenDatabase, QuarantineDatabase, CreateDatabase,
     diskVars, uncachedVars

\* The end of an invocation leaves nothing of it.
LEMMA ForgetType == ASSUME TypeOK, NEW i \in Invocations, Forget(i) PROVE TypeOK'
<1>1. UncachedTypeOK'
  BY DEF TypeOK, UncachedTypeOK, Forget, Leave, NoneForAll
<1>2. /\ phase' \in [Invocations -> Phases]
      /\ cacheable' \in [Invocations -> SUBSET Files]
      /\ stage' \in [Invocations -> [Files -> Stages]]
      /\ proofDay' \in [Invocations -> Days \cup {None}]
      /\ lock' \in Invocations \cup {Free, Cleaner}
  BY DEF TypeOK, Forget, ReleaseLock, Phases, Stages
<1>3. /\ candidate' \in [Invocations -> [Files -> Proofs \cup {None}]]
      /\ hint' \in [Invocations -> [Files -> Hints \cup {None}]]
      /\ snapshot' \in [Invocations -> [Files -> Snapshots \cup {None}]]
      /\ touch' \in [Invocations -> [Files -> Days \cup {None}]]
  BY DEF TypeOK, Forget, NoneForAll
<1>4. QED
  BY <1>1, <1>2, <1>3 DEF TypeOK, Forget, diskVars, storeVars

\* Editors, the cleaner and the clock keep the types.
LEMMA EnvironmentType == ASSUME TypeOK, Environment PROVE TypeOK'
<1>1. CASE CleanerLocks
  BY <1>1 DEF TypeOK, UncachedTypeOK, CleanerLocks, diskVars, storeVars, probeVars, uncachedVars
<1>2. CASE CleanerRemoves
  <2>1. /\ rows' \in [Keys -> Proofs \cup {None}]
        /\ engineDay' \in [Engines -> Days \cup {None}] /\ pruneDay' \in Days \cup {None}
        /\ dbState' \in {"absent", "current", "unusable"}
    BY <1>2 DEF TypeOK, CleanerRemoves, EmptyStore, storeVars
  <2>2. QED
    BY <1>2, <2>1 DEF TypeOK, UncachedTypeOK, CleanerRemoves, diskVars, probeVars, uncachedVars
<1>3. CASE DamageDatabase
  BY <1>3 DEF TypeOK, UncachedTypeOK, DamageDatabase, diskVars, probeVars, uncachedVars
<1>4. CASE ChangeClock
  BY <1>4 DEF TypeOK, UncachedTypeOK, ChangeClock, storeVars, probeVars, uncachedVars
<1>5. ASSUME NEW f \in Files, EditFile(f) PROVE TypeOK'
  BY <1>5 DEF TypeOK, UncachedTypeOK, EditFile, Edit, TouchFile, storeVars, probeVars
<1>6. ASSUME NEW f \in Files, ChangeMarker(f) PROVE TypeOK'
  BY <1>6 DEF TypeOK, UncachedTypeOK, ChangeMarker, storeVars, probeVars, uncachedVars
<1>7. QED
  BY <1>1, <1>2, <1>3, <1>4, <1>5, <1>6 DEF Environment

\* A nonempty set of days has a last one.
LEMMA LastDay ==
  ASSUME NEW B \in SUBSET Days, B # {}
  PROVE  \E d \in B : \A other \in B : other <= d
<1> DEFINE Left == {MaxDay - d : d \in B}
<1>1. Left \subseteq Nat /\ Left # {}
  <2>1. Left \subseteq Nat
    BY ProtocolAssumption DEF Days
  <2>2. PICK d \in B : TRUE
    OBVIOUS
  <2>3. MaxDay - d \in Left
    OBVIOUS
  <2>4. QED
    BY <2>1, <2>3
<1>2. PICK least \in Left : \A n \in Left : ~ (<<n, least>> \in OpToRel(<, Nat))
  <2> HIDE DEF Left
  <2>1. QED
    BY <1>1, NatLessThanWellFounded, WFMin
<1>3. \A n \in Left : ~ (n < least)
  BY <1>1, <1>2 DEF OpToRel
<1>4. PICK d \in B : least = MaxDay - d
  BY <1>2
<1>5. \A other \in B : other <= d
  <2>1. TAKE other \in B
  <2>2. MaxDay - other \in Left
    OBVIOUS
  <2>3. QED
    <3>1. ~ (MaxDay - other < MaxDay - d)
      BY <1>3, <1>4, <2>2
    <3>2. other \in Int /\ d \in Int /\ MaxDay \in Int
      BY ProtocolAssumption DEF Days
    <3>3. QED
      BY <3>1, <3>2
<1>6. QED
  BY <1>5

\* The days of a batch are days.
LEMMA BatchDaysType ==
  ASSUME TypeOK, NEW i \in Invocations,
         proofDay[i] # None, \E f \in Files : Proving(i, f) \/ Touching(i, f)
  PROVE  BatchDays(i) \in SUBSET Days /\ BatchDays(i) # {}
<1>1. {touch[i][f] : f \in {g \in Files : Touching(i, g)}} \subseteq Days
  BY DEF TypeOK, Touching
<1>2. proofDay[i] \in Days
  BY DEF TypeOK
<1>3. BatchDays(i) # {}
  <2>1. PICK f \in Files : Proving(i, f) \/ Touching(i, f)
    OBVIOUS
  <2>2. CASE Proving(i, f)
    BY <2>2 DEF BatchDays
  <2>3. CASE Touching(i, f)
    <3>1. touch[i][f] \in {touch[i][h] : h \in {g \in Files : Touching(i, g)}}
      BY <2>3
    <3>2. QED
      BY <3>1 DEF BatchDays
  <2>4. QED
    BY <2>1, <2>2, <2>3
<1>4. QED
  BY <1>1, <1>2, <1>3 DEF BatchDays

\* A batch that reaches its transaction is not empty, so it has a last day.
LEMMA OpenedBatch ==
  ASSUME TypeOK, Shape, NEW i \in Invocations, phase[i] = "opened"
  PROVE  /\ run[i] \in Runs /\ proofDay[i] \in Days
         /\ BatchDays(i) \in SUBSET Days /\ BatchDays(i) # {}
<1>1. /\ run[i] \in Runs /\ proofDay[i] \in Days
      /\ \E f \in Files : Proving(i, f) \/ Touching(i, f)
  BY DEF TypeOK, UncachedTypeOK, Shape, PhaseShape
<1>2. QED
  BY <1>1, AbsentAssumption, BatchDaysType

\* What a transaction stores has the type of the store.
LEMMA StoredType ==
  ASSUME TypeOK, Shape, NEW i \in Invocations, phase[i] = "opened"
  PROVE  /\ \A k \in Keys : /\ StoredRow(i, k) \in Proofs \cup {None}
                            /\ rows[k] # None => StoredRow(i, k) \in Proofs
         /\ \A e \in Engines : StoredEngineDay(i, e) \in Days \cup {None}
<1>1. /\ run[i] \in Runs /\ proofDay[i] \in Days
      /\ BatchDays(i) \in SUBSET Days /\ BatchDays(i) # {}
  BY OpenedBatch
<1>2. ASSUME NEW k \in Keys
      PROVE  StoredRow(i, k) \in Proofs \cup {None} /\ (rows[k] # None => StoredRow(i, k) \in Proofs)
  <2>1. k[3] \in Files /\ rows[k] \in Proofs \cup {None}
    BY DEF TypeOK, Keys
  <2>2. CASE Mine(i, k) /\ Proving(i, k[3])
    <3>1. snapshot[i][k[3]] \in Snapshots /\ run[i].context[k[3]] \in Contexts
      BY <1>1, <2>1, <2>2 DEF TypeOK, Proving, Runs
    <3>2. QED
      BY <1>1, <2>2, <3>1 DEF StoredRow, Proofs, Snapshots
  <2>3. CASE ~(Mine(i, k) /\ Proving(i, k[3])) /\ Mine(i, k) /\ Touching(i, k[3]) /\ rows[k] # None
    <3>1. touch[i][k[3]] \in Days /\ rows[k] \in Proofs
      BY <2>1, <2>3 DEF TypeOK, Touching
    <3>2. [rows[k] EXCEPT !.day = touch[i][k[3]]] \in Proofs
      BY <3>1 DEF Proofs
    <3>3. QED
      BY <2>3, <3>2 DEF StoredRow
  <2>4. QED
    BY <2>1, <2>2, <2>3 DEF StoredRow
<1>3. ASSUME NEW e \in Engines PROVE StoredEngineDay(i, e) \in Days \cup {None}
  <2>1. \E d \in BatchDays(i) : \A other \in BatchDays(i) : other <= d
    BY <1>1, LastDay
  <2>2. (CHOOSE d \in BatchDays(i) : \A other \in BatchDays(i) : other <= d) \in BatchDays(i)
    BY <2>1
  <2>3. QED
    BY <1>1, <2>2 DEF TypeOK, StoredEngineDay
<1>4. QED
  BY <1>2, <1>3

\* A transaction keeps the types.
LEMMA CommitTransactionType ==
  ASSUME TypeOK, Shape, NEW i \in Invocations, CommitTransaction(i)
  PROVE  TypeOK'
<1>1. phase[i] = "opened"
  BY DEF CommitTransaction
<1>2. rows' \in [Keys -> Proofs \cup {None}]
  <2>1. \A k \in Keys : PrunedRow(i, k) \in Proofs \cup {None}
    BY <1>1, StoredType DEF PrunedRow
  <2>2. QED
    BY <1>1, <2>1, StoredType DEF CommitTransaction
<1>3. engineDay' \in [Engines -> Days \cup {None}]
  <2>1. \A e \in Engines : PrunedEngineDay(i, e) \in Days \cup {None}
    BY <1>1, StoredType DEF PrunedEngineDay
  <2>2. QED
    BY <1>1, <2>1, StoredType DEF CommitTransaction
<1>4. pruneDay' \in Days \cup {None}
  BY DEF TypeOK, CommitTransaction
<1>5. phase' \in [Invocations -> Phases] /\ lock' \in Invocations \cup {Free, Cleaner}
  BY DEF TypeOK, CommitTransaction, ReleaseLock, Phases
<1>6. QED
  BY <1>2, <1>3, <1>4, <1>5 DEF TypeOK, UncachedTypeOK, CommitTransaction, diskVars, uncachedVars

-----------------------------------------------------------------------------
\* Every initial state is well typed and in shape.
LEMMA InitType == ASSUME Init PROVE TypeOK /\ Shape
<1>1. UncachedTypeOK
  BY DEF Init, UncachedInit, UncachedTypeOK, NoneForAll
<1>2. TypeOK
  BY <1>1, ProtocolAssumption DEF Init, TypeOK, NoneForAll, Phases, Stages, Days
<1>3. Shape
  BY DEF Init, UncachedInit, Shape, PhaseShape, StageShape, NoneForAll
<1>4. QED
  BY <1>2, <1>3

\* Shape of the invocations a step does not touch.
LEMMA ShapeOfOthers ==
  ASSUME TypeOK, Shape, NEW j \in Invocations,
         phase'[j] = phase[j], run'[j] = run[j], proofDay'[j] = proofDay[j],
         stage'[j] = stage[j], report'[j] = report[j], writing'[j] = writing[j],
         candidate'[j] = candidate[j], snapshot'[j] = snapshot[j], touch'[j] = touch[j]
  PROVE  PhaseShape(j)' /\ \A f \in Files : StageShape(j, f)'
  BY DEF Shape, PhaseShape, StageShape, Proving, Touching

\* A step over one file of one invocation: everything else keeps its shape.
LEMMA FileStepShape ==
  ASSUME TypeOK, Shape, NEW i \in Invocations, NEW f \in Files,
         UNCHANGED <<phase, run, proofDay, touch>>,
         \A j \in Invocations, g \in Files : (j # i \/ g # f) =>
           /\ stage'[j][g] = stage[j][g] /\ report'[j][g] = report[j][g]
           /\ writing'[j][g] = writing[j][g] /\ candidate'[j][g] = candidate[j][g]
           /\ snapshot'[j][g] = snapshot[j][g],
         \/ phase[i] = "prepared" /\ stage'[i][f] \in {"unseen", "queried", "missed"}
         \/ phase[i] = "probing" /\ stage'[i][f] \in {"queried", "possible", "hit", "missed"}
         \/ phase[i] = "formatting" /\ stage'[i][f] \notin {"unseen", "queried", "possible"},
         StageShape(i, f)'
  PROVE  Shape'
<1>1. ASSUME NEW j \in Invocations PROVE PhaseShape(j)'
  <2>1. CASE j = i
    BY <2>1 DEF Shape, PhaseShape
  <2>2. CASE j # i
    BY <2>2 DEF Shape, PhaseShape, Proving, Touching
  <2>3. QED
    BY <2>1, <2>2
<1>2. ASSUME NEW j \in Invocations, NEW g \in Files PROVE StageShape(j, g)'
  <2>1. CASE j = i /\ g = f
    BY <2>1
  <2>2. CASE j # i \/ g # f
    BY <2>2 DEF Shape, StageShape
  <2>3. QED
    BY <2>1, <2>2
<1>3. QED
  BY <1>1, <1>2 DEF Shape

\* A prepared invocation has looked nothing up yet.
LEMMA PrepareShape ==
  ASSUME TypeOK, Shape, NEW i \in Invocations, Prepare(i), TypeOK' PROVE Shape'
<1>1. ASSUME NEW j \in Invocations, j # i PROVE PhaseShape(j)' /\ \A f \in Files : StageShape(j, f)'
  BY <1>1, ShapeOfOthers DEF TypeOK, UncachedTypeOK, Prepare
<1>2. /\ phase'[i] = "prepared" /\ run'[i] # None
      /\ report'[i] = NoneForAll /\ writing'[i] = NoneForAll
      /\ candidate'[i] = candidate[i] /\ snapshot'[i] = snapshot[i]
  <2>1. PICK launch \in Launches[i] :
          run' = [run EXCEPT ![i] = [engine |-> launch.engine, analysis |-> launch.analysis,
                                     mode |-> launch.mode, context |-> PrepareContext(i)]]
    BY DEF Prepare
  <2>2. launch \in [engine : Engines, analysis : Analyses, mode : Modes]
    BY LaunchesAssumption
  <2>3. [engine |-> launch.engine, analysis |-> launch.analysis,
         mode |-> launch.mode, context |-> PrepareContext(i)] \in Runs
    BY <2>2 DEF Runs, PrepareContext, TypeOK
  <2>4. run'[i] # None
    BY <2>1, <2>3, NoneAssumption DEF TypeOK, UncachedTypeOK
  <2>5. QED
    BY <2>4 DEF TypeOK, UncachedTypeOK, Prepare
<1>3. \A f \in Files : stage'[i][f] \in {"unseen", "missed"}
  BY DEF TypeOK, Prepare
<1>4. \A f \in Files : candidate[i][f] = None /\ snapshot[i][f] = None
  BY DEF Shape, PhaseShape, StageShape, Prepare
<1>5. PhaseShape(i)'
  BY <1>2, <1>3 DEF PhaseShape
<1>6. \A f \in Files : StageShape(i, f)'
  BY <1>2, <1>3, <1>4 DEF StageShape, NoneForAll
<1>7. QED
  BY <1>1, <1>5, <1>6 DEF Shape

\* A looked-up file is queried, whatever was found.
LEMMA LookupRowShape ==
  ASSUME TypeOK, Shape, NEW i \in Invocations, NEW f \in Files, LookupRow(i, f)
  PROVE  Shape'
<1>1. /\ phase[i] = "prepared" /\ stage[i][f] = "unseen" /\ SetStage(i, f, "queried")
      /\ UNCHANGED <<phase, run, proofDay, touch, snapshot, writing, report>>
      /\ candidate' = candidate \/ candidate' = [candidate EXCEPT ![i][f] = rows[KeyOf(i, f)]]
  BY DEF LookupRow, uncachedVars
<1>2. /\ \A j \in Invocations, g \in Files : (j # i \/ g # f) =>
           stage'[j][g] = stage[j][g] /\ candidate'[j][g] = candidate[j][g]
      /\ stage'[i][f] = "queried"
  BY <1>1 DEF TypeOK, SetStage
<1>3. StageShape(i, f)
  BY DEF Shape
<1>4. StageShape(i, f)'
  BY <1>1, <1>2, <1>3 DEF StageShape
<1>5. QED
  BY <1>1, <1>2, <1>4, FileStepShape

\* Probing starts when no file is unseen.
LEMMA EndLookupShape ==
  ASSUME TypeOK, Shape, NEW i \in Invocations, EndLookup(i) PROVE Shape'
<1>1. ASSUME NEW j \in Invocations, j # i PROVE PhaseShape(j)' /\ \A f \in Files : StageShape(j, f)'
  BY <1>1, ShapeOfOthers DEF TypeOK, UncachedTypeOK, EndLookup, uncachedVars
<1>2. /\ phase[i] = "prepared" /\ phase'[i] = "probing"
      /\ \A f \in Files : stage[i][f] # "unseen"
  BY DEF TypeOK, EndLookup
<1>3. PhaseShape(i)'
  BY <1>2 DEF Shape, PhaseShape, EndLookup, uncachedVars
<1>4. \A f \in Files : StageShape(i, f)'
  BY <1>2 DEF Shape, StageShape, EndLookup, uncachedVars
<1>5. QED
  BY <1>1, <1>3, <1>4 DEF Shape

\* A possible hit has a candidate whose path context agrees.
LEMMA ProbeShape ==
  ASSUME TypeOK, Shape, NEW i \in Invocations, NEW f \in Files,
         StatCandidate(i, f) \/ ProbeReadFails(i, f) \/ ValidateSource(i, f)
  PROVE  Shape'
<1>1. /\ phase[i] = "probing" /\ stage[i][f] \in {"queried", "possible"}
      /\ UNCHANGED <<phase, run, proofDay, touch, snapshot, writing>>
  BY DEF StatCandidate, ProbeReadFails, ValidateSource
<1>2. \/ Miss(i, f)
      \/ Compatible(i, f) /\ SetStage(i, f, "possible") /\ UNCHANGED <<candidate, report>>
      \/ SetStage(i, f, "hit") /\ SetReport(i, f, CachedClean) /\ UNCHANGED candidate
  BY DEF StatCandidate, ProbeReadFails, ValidateSource
<1>3. /\ \A j \in Invocations, g \in Files : (j # i \/ g # f) =>
           /\ stage'[j][g] = stage[j][g] /\ report'[j][g] = report[j][g]
           /\ candidate'[j][g] = candidate[j][g]
      /\ stage'[i][f] \in {"possible", "hit", "missed"}
  BY <1>2 DEF TypeOK, UncachedTypeOK, Miss, SetStage, SetReport
<1>4. StageShape(i, f)
  BY DEF Shape
<1>5. StageShape(i, f)'
  <2>1. CASE Miss(i, f)
    BY <1>1, <1>4, <2>1 DEF TypeOK, UncachedTypeOK, StageShape, Miss, SetStage
  <2>2. CASE Compatible(i, f) /\ SetStage(i, f, "possible") /\ UNCHANGED <<candidate, report>>
    BY <1>1, <1>4, <2>2 DEF TypeOK, UncachedTypeOK, StageShape, SetStage, Compatible, ContextAgrees
  <2>3. CASE SetStage(i, f, "hit") /\ SetReport(i, f, CachedClean) /\ UNCHANGED candidate
    <3>1. CachedClean # None
      BY ConcreteResults, NoneAssumption
    <3>2. QED
      BY <1>1, <1>4, <2>3, <3>1 DEF TypeOK, UncachedTypeOK, StageShape, SetStage, SetReport
  <2>4. QED
    BY <1>2, <2>1, <2>2, <2>3
<1>6. QED
  BY <1>1, <1>3, <1>5, FileStepShape

\* A step of one invocation's phase alone.
LEMMA PhaseStepShape ==
  ASSUME TypeOK, Shape, NEW i \in Invocations,
         NEW p \in Phases \ {"idle", "prepared", "probing"}, phase[i] # "idle", phase' = [phase EXCEPT ![i] = p],
         UNCHANGED <<run, report, writing, stage, snapshot>>,
         \A j \in Invocations : j # i =>
           proofDay'[j] = proofDay[j] /\ candidate'[j] = candidate[j] /\ touch'[j] = touch[j],
         \A f \in Files : candidate'[i][f] = None,
         PhaseShape(i)'
  PROVE  Shape'
<1>1. ASSUME NEW j \in Invocations, j # i PROVE PhaseShape(j)' /\ \A f \in Files : StageShape(j, f)'
  BY <1>1, ShapeOfOthers DEF TypeOK
<1>2. phase'[i] = p
  BY DEF TypeOK
<1>3. \A f \in Files : stage[i][f] # "possible"
  BY <1>2 DEF PhaseShape, Phases
<1>4. \A f \in Files : StageShape(i, f)'
  BY <1>2, <1>3 DEF Shape, StageShape
<1>5. QED
  BY <1>1, <1>4 DEF Shape

\* Formatting starts with hits and misses alone.
LEMMA EndProbeShape ==
  ASSUME TypeOK, Shape, NEW i \in Invocations, EndProbe(i) PROVE Shape'
<1>1. /\ phase[i] = "probing" /\ phase' = [phase EXCEPT ![i] = "formatting"]
      /\ UNCHANGED <<run, report, writing, stage, snapshot, proofDay>>
  BY DEF EndProbe, uncachedVars
<1>2. \A j \in Invocations : j # i => candidate'[j] = candidate[j] /\ touch'[j] = touch[j]
  BY DEF TypeOK, EndProbe
<1>3. \A f \in Files : candidate'[i][f] = None
  BY DEF TypeOK, EndProbe, NoneForAll
<1>4. PhaseShape(i)'
  <2>1. phase'[i] = "formatting" /\ \A f \in Files : stage'[i][f] \in {"hit", "missed"}
    BY <1>1 DEF TypeOK, EndProbe
  <2>2. run'[i] # None
    BY <1>1 DEF Shape, PhaseShape
  <2>3. QED
    BY <2>1, <2>2 DEF PhaseShape
<1>5. QED
  BY <1>1, <1>2, <1>3, <1>4, PhaseStepShape DEF Phases

\* A commit is attempted only for a batch that is not empty.
LEMMA PersistShape ==
  ASSUME TypeOK, Shape, NEW i \in Invocations, Persist(i) PROVE Shape'
<1>1. /\ phase[i] = "formatting"
      /\ UNCHANGED <<run, report, writing, stage, snapshot, candidate, touch>>
      /\ \A f \in Files : stage[i][f] \in {"hit", "done"}
  BY DEF Persist, uncachedVars
<1>2. \A f \in Files : candidate'[i][f] = None
  BY <1>1 DEF Shape, StageShape
<1>3. CASE \E f \in Files : Proving(i, f) \/ Touching(i, f)
  <2>1. phase' = [phase EXCEPT ![i] = "committing"] /\ proofDay' = [proofDay EXCEPT ![i] = today]
    BY <1>3 DEF Persist
  <2>2. PhaseShape(i)'
    BY <1>1, <1>3, <2>1, AbsentAssumption DEF TypeOK, Shape, PhaseShape, Proving, Touching
  <2>3. QED
    BY <1>1, <1>2, <2>1, <2>2, PhaseStepShape DEF TypeOK, Phases
<1>4. CASE ~ \E f \in Files : Proving(i, f) \/ Touching(i, f)
  <2>1. phase' = [phase EXCEPT ![i] = "done"] /\ proofDay' = proofDay
    BY <1>4 DEF Persist
  <2>2. PhaseShape(i)'
    BY <1>1, <2>1 DEF TypeOK, Shape, PhaseShape
  <2>3. QED
    BY <1>1, <1>2, <2>1, <2>2, PhaseStepShape DEF Phases
<1>5. QED
  BY <1>3, <1>4

\* The lock, the database and the transaction.
LEMMA CommitShape ==
  ASSUME TypeOK, Shape, NEW i \in Invocations,
         \/ AcquireLock(i) \/ StoreFails(i) \/ CommitTransaction(i)
         \/ OpenDatabase(i) \/ QuarantineDatabase(i) \/ CreateDatabase(i)
  PROVE  Shape'
<1>1. /\ phase[i] \in {"committing", "locked", "moved", "opened"}
      /\ UNCHANGED <<run, report, writing, stage, snapshot, candidate, touch, proofDay>>
  BY DEF AcquireLock, StoreFails, CommitTransaction, OpenDatabase, QuarantineDatabase, CreateDatabase,
     uncachedVars
<1>2. PICK p \in {"locked", "moved", "opened", "done"} : phase' = [phase EXCEPT ![i] = p]
  BY DEF AcquireLock, StoreFails, CommitTransaction, OpenDatabase, QuarantineDatabase, CreateDatabase
<1>3. \A f \in Files : candidate'[i][f] = None
  BY <1>1 DEF Shape, StageShape
<1>4. PhaseShape(i)'
  BY <1>1, <1>2 DEF TypeOK, Shape, PhaseShape, Proving, Touching
<1>5. QED
  BY <1>1, <1>2, <1>3, <1>4, PhaseStepShape DEF Phases

\* An idle invocation has the shape of one that never ran.
LEMMA ForgetShape ==
  ASSUME TypeOK, Shape, NEW i \in Invocations, Forget(i) PROVE Shape'
<1>1. ASSUME NEW j \in Invocations, j # i PROVE PhaseShape(j)' /\ \A f \in Files : StageShape(j, f)'
  BY <1>1, ShapeOfOthers DEF TypeOK, UncachedTypeOK, Forget, Leave
<1>2. /\ phase'[i] = "idle" /\ run'[i] = None /\ stage'[i] = [f \in Files |-> "unseen"]
      /\ report'[i] = NoneForAll /\ writing'[i] = NoneForAll
      /\ candidate'[i] = NoneForAll /\ snapshot'[i] = NoneForAll
  BY DEF TypeOK, UncachedTypeOK, Forget, Leave
<1>3. PhaseShape(i)' /\ \A f \in Files : StageShape(i, f)'
  BY <1>2 DEF PhaseShape, StageShape, NoneForAll
<1>4. QED
  BY <1>1, <1>3 DEF Shape

\* Nobody else touches what an invocation holds.
LEMMA EnvironmentShape == ASSUME TypeOK, Shape, Environment PROVE Shape'
<1>1. UNCHANGED <<run, report, writing, probeVars>>
  BY DEF Environment, CleanerLocks, CleanerRemoves, DamageDatabase, ChangeClock, EditFile, Edit,
         ChangeMarker, uncachedVars
<1>2. QED
  BY <1>1, ShapeOfOthers DEF Shape, probeVars

\* Opening a source, and every way to fail.
LEMMA OpenAndFailShape ==
  ASSUME TypeOK, Shape, NEW i \in Invocations, NEW f \in Files,
         OpenSource(i, f) \/ ReadSourceFails(i, f) \/ WriteSourceFails(i, f)
  PROVE  Shape'
<1>1. /\ phase[i] = "formatting"
      /\ UNCHANGED <<phase, run, proofDay, touch, candidate, snapshot>>
  BY DEF OpenSource, ReadSourceFails, WriteSourceFails, uncachedVars
<1>2. StageShape(i, f)
  BY DEF Shape
<1>3. CASE OpenSource(i, f)
  <2>1. stage[i][f] = "missed" /\ SetStage(i, f, "opened") /\ UNCHANGED <<report, writing>>
    BY <1>3 DEF OpenSource, uncachedVars
  <2>2. StageShape(i, f)'
    BY <1>1, <1>2, <2>1 DEF TypeOK, StageShape, SetStage
  <2>3. QED
    BY <1>1, <2>1, <2>2, FileStepShape DEF TypeOK, SetStage
<1>4. CASE ReadSourceFails(i, f) \/ WriteSourceFails(i, f)
  <2>1. /\ stage[i][f] \in {"missed", "opened", "planned", "truncated"}
        /\ SetStage(i, f, "done") /\ SetReport(i, f, FailedResult)
        /\ \/ stage[i][f] \in {"missed", "opened"} /\ writing' = writing
           \/ writing' = [writing EXCEPT ![i][f] = None]
    BY <1>4 DEF ReadSourceFails, WriteSourceFails
  <2>2. FailedResult # None
    BY ConcreteResults, NoneAssumption
  <2>3. StageShape(i, f)'
    BY <1>1, <1>2, <2>1, <2>2 DEF TypeOK, UncachedTypeOK, StageShape, SetStage, SetReport
  <2>4. /\ \A j \in Invocations, g \in Files : (j # i \/ g # f) =>
              /\ stage'[j][g] = stage[j][g] /\ report'[j][g] = report[j][g]
              /\ writing'[j][g] = writing[j][g]
        /\ stage'[i][f] = "done"
    BY <2>1 DEF TypeOK, UncachedTypeOK, SetStage, SetReport
  <2>5. QED
    BY <1>1, <2>3, <2>4, FileStepShape
<1>5. QED
  BY <1>3, <1>4

\* An analysed file has either a result or a planned write.
LEMMA ReadSourceShape ==
  ASSUME TypeOK, Shape, NEW i \in Invocations, NEW f \in Files, ReadSource(i, f)
  PROVE  Shape'
<1> DEFINE plan == Plan(i, f, disk[f])
           write == [source |-> plan.source, verdict |-> plan.verdict, truncated |-> FALSE]
           result == ResultOf(plan, disk[f])
           kept == UnwrittenSnapshot(i, f, plan, disk[f])
<1>1. /\ phase[i] = "formatting" /\ stage[i][f] = "opened"
      /\ UNCHANGED <<phase, run, proofDay, touch, candidate>>
  BY DEF ReadSource
<1>2. \/ /\ writing' = [writing EXCEPT ![i][f] = write] /\ SetStage(i, f, "planned")
         /\ UNCHANGED <<report, snapshot>>
      \/ /\ SetReport(i, f, result) /\ snapshot' = [snapshot EXCEPT ![i][f] = kept]
         /\ SetStage(i, f, "done") /\ UNCHANGED writing
  BY DEF ReadSource
<1>3. write # None /\ write.truncated = FALSE /\ result # None
  <2>1. disk[f] \in Contents /\ run[i] # None
    BY <1>1 DEF TypeOK, UncachedTypeOK, Shape, PhaseShape
  <2>2. plan \in [source : Contents, verdict : Verdicts]
    BY <2>1, PlanType
  <2> HIDE DEF plan
  <2>3. write \in Writes /\ result \in Results
    BY <2>2 DEF Writes, ResultOf, Results
  <2>4. QED
    BY <2>3, NoneAssumption
<1> HIDE DEF plan, write, result, kept
<1>4. /\ \A j \in Invocations, g \in Files : (j # i \/ g # f) =>
            /\ stage'[j][g] = stage[j][g] /\ report'[j][g] = report[j][g]
            /\ writing'[j][g] = writing[j][g] /\ snapshot'[j][g] = snapshot[j][g]
      /\ stage'[i][f] \in {"planned", "done"}
  BY <1>2 DEF TypeOK, UncachedTypeOK, SetStage, SetReport
<1>5. StageShape(i, f)
  BY DEF Shape
<1>6. StageShape(i, f)'
  BY <1>1, <1>2, <1>3, <1>5 DEF TypeOK, UncachedTypeOK, StageShape, SetStage, SetReport
<1>7. QED
  BY <1>1, <1>4, <1>6, FileStepShape

\* A truncated file has a planned write.
LEMMA TruncateSourceShape ==
  ASSUME TypeOK, Shape, NEW i \in Invocations, NEW f \in Files, TruncateSource(i, f)
  PROVE  Shape'
<1>1. /\ phase[i] = "formatting" /\ stage[i][f] = "planned" /\ SetStage(i, f, "truncated")
      /\ UNCHANGED <<phase, run, report, proofDay, touch, candidate, snapshot>>
      /\ writing' = [writing EXCEPT ![i][f].truncated = TRUE]
  BY DEF TruncateSource
<1>2. StageShape(i, f)
  BY DEF Shape
<1>3. /\ \A j \in Invocations, g \in Files : (j # i \/ g # f) =>
            stage'[j][g] = stage[j][g] /\ writing'[j][g] = writing[j][g]
      /\ stage'[i][f] = "truncated"
  BY <1>1 DEF TypeOK, UncachedTypeOK, SetStage
<1>4. writing'[i][f] # None /\ writing'[i][f].truncated = TRUE
  <2>1. writing[i][f] \in Writes
    BY <1>1, <1>2 DEF TypeOK, UncachedTypeOK, StageShape
  <2>2. writing'[i][f] = [writing[i][f] EXCEPT !.truncated = TRUE]
    BY <1>1 DEF TypeOK, UncachedTypeOK
  <2>3. writing'[i][f] \in Writes /\ writing'[i][f].truncated = TRUE
    BY <2>1, <2>2 DEF Writes
  <2>4. QED
    BY <2>3, NoneAssumption
<1>5. StageShape(i, f)'
  BY <1>1, <1>2, <1>3, <1>4 DEF StageShape
<1>6. QED
  BY <1>1, <1>3, <1>5, FileStepShape

\* A written file has its result.
LEMMA WriteSourceShape ==
  ASSUME TypeOK, Shape, NEW i \in Invocations, NEW f \in Files, WriteSource(i, f)
  PROVE  Shape'
<1> DEFINE result == [verdict |-> writing[i][f].verdict, modified |-> TRUE]
           kept == WrittenSnapshot(i, f)
<1>1. /\ phase[i] = "formatting" /\ stage[i][f] = "truncated" /\ SetStage(i, f, "written")
      /\ UNCHANGED <<phase, run, proofDay, touch, candidate>>
      /\ SetReport(i, f, result)
      /\ snapshot' = [snapshot EXCEPT ![i][f] = kept]
      /\ writing' = [writing EXCEPT ![i][f] = None]
  BY DEF WriteSource
<1>2. StageShape(i, f)
  BY DEF Shape
<1>3. result # None
  <2>1. writing[i][f] \in Writes
    BY <1>1, <1>2 DEF TypeOK, UncachedTypeOK, StageShape
  <2>2. result \in Results
    BY <2>1 DEF Writes, Results
  <2>3. QED
    BY <2>2, NoneAssumption
<1> HIDE DEF result, kept
<1>4. /\ \A j \in Invocations, g \in Files : (j # i \/ g # f) =>
            /\ stage'[j][g] = stage[j][g] /\ report'[j][g] = report[j][g]
            /\ writing'[j][g] = writing[j][g] /\ snapshot'[j][g] = snapshot[j][g]
      /\ stage'[i][f] = "written" /\ writing'[i][f] = None /\ report'[i][f] = result
  BY <1>1 DEF TypeOK, UncachedTypeOK, SetStage, SetReport
<1>5. StageShape(i, f)'
  BY <1>1, <1>2, <1>3, <1>4 DEF StageShape
<1>6. QED
  BY <1>1, <1>4, <1>5, FileStepShape

\* Completing the snapshot of a written file ends its work.
LEMMA StatWrittenShape ==
  ASSUME TypeOK, Shape, NEW i \in Invocations, NEW f \in Files, StatWritten(i, f)
  PROVE  Shape'
<1>1. /\ phase[i] = "formatting" /\ stage[i][f] = "written" /\ SetStage(i, f, "done")
      /\ UNCHANGED <<phase, run, report, writing, proofDay, touch, candidate>>
      /\ \/ snapshot' = [snapshot EXCEPT ![i][f].mtime = mtime[f]]
         \/ UNCHANGED snapshot
  BY DEF StatWritten, uncachedVars
<1>2. StageShape(i, f)
  BY DEF Shape
<1>3. /\ \A j \in Invocations, g \in Files : (j # i \/ g # f) =>
            stage'[j][g] = stage[j][g] /\ snapshot'[j][g] = snapshot[j][g]
      /\ stage'[i][f] = "done"
  BY <1>1 DEF TypeOK, SetStage
<1>4. StageShape(i, f)'
  BY <1>1, <1>2, <1>3 DEF StageShape
<1>5. QED
  BY <1>1, <1>3, <1>4, FileStepShape

-----------------------------------------------------------------------------
\* Every step over one file keeps types and shape.
LEMMA FileStepInvariant ==
  ASSUME TypeOK, Shape, NEW i \in Invocations, NEW f \in Files, FileStep(i, f)
  PROVE  TypeOK' /\ Shape'
<1>1. CASE StatCandidate(i, f) \/ ProbeReadFails(i, f) \/ ValidateSource(i, f)
  BY <1>1, ProbeType, ProbeShape
<1>2. CASE OpenSource(i, f)
  BY <1>2, OpenSourceType, OpenAndFailShape
<1>3. CASE ReadSourceFails(i, f) \/ WriteSourceFails(i, f)
  BY <1>3, FailuresType, OpenAndFailShape
<1>4. CASE ReadSource(i, f)
  <2>1. run[i] # None
    BY <1>4 DEF ReadSource, Shape, PhaseShape
  <2>2. QED
    BY <1>4, <2>1, ReadSourceType, ReadSourceShape
<1>5. CASE TruncateSource(i, f) \/ WriteSource(i, f)
  <2>1. writing[i][f] # None
    BY <1>5 DEF TruncateSource, WriteSource, Shape, StageShape
  <2>2. QED
    BY <1>5, <2>1, TruncateSourceType, TruncateSourceShape, WriteSourceType, WriteSourceShape
<1>6. CASE StatWritten(i, f)
  BY <1>6, StatWrittenType, StatWrittenShape
<1>7. CASE LookupRow(i, f)
  <2>1. run[i] # None
    BY <1>7 DEF LookupRow, Shape, PhaseShape
  <2>2. QED
    BY <1>7, <2>1, LookupRowType, LookupRowShape
<1>8. QED
  BY <1>1, <1>2, <1>3, <1>4, <1>5, <1>6, <1>7 DEF FileStep

\* Every step of an invocation keeps types and shape.
LEMMA InvocationStepInvariant ==
  ASSUME TypeOK, Shape, NEW i \in Invocations, InvocationStep(i)
  PROVE  TypeOK' /\ Shape'
<1>1. CASE EndLookup(i)
  BY <1>1, EndLookupType, EndLookupShape
<1>2. CASE EndProbe(i)
  BY <1>2, EndProbeType, EndProbeShape
<1>3. CASE Persist(i)
  BY <1>3, PersistType, PersistShape
<1>4. CASE \/ AcquireLock(i) \/ StoreFails(i) \/ CommitTransaction(i)
           \/ OpenDatabase(i) \/ QuarantineDatabase(i) \/ CreateDatabase(i)
  BY <1>4, AcquireLockType, StoreFailsType, OpenDatabaseType, CommitTransactionType, CommitShape
<1>5. CASE ExitNormally(i)
  BY <1>5, ForgetType, ForgetShape DEF ExitNormally
<1>6. CASE \E f \in Files : FileStep(i, f)
  BY <1>6, FileStepInvariant
<1>7. QED
  BY <1>1, <1>2, <1>3, <1>4, <1>5, <1>6 DEF InvocationStep

\* The two together are inductive.
LEMMA StepInvariant == ASSUME TypeOK, Shape, [Next]_vars PROVE TypeOK' /\ Shape'
<1>1. CASE UNCHANGED vars
  BY <1>1, ShapeOfOthers DEF vars, uncachedVars, diskVars, storeVars, probeVars,
     TypeOK, UncachedTypeOK, Shape
<1>2. ASSUME NEW i \in Invocations, Prepare(i) PROVE TypeOK' /\ Shape'
  BY <1>2, PrepareType, PrepareShape
<1>3. ASSUME NEW i \in Invocations, InvocationStep(i) PROVE TypeOK' /\ Shape'
  BY <1>3, InvocationStepInvariant
<1>4. ASSUME NEW i \in Invocations, Die(i) PROVE TypeOK' /\ Shape'
  BY <1>4, ForgetType, ForgetShape DEF Die
<1>5. CASE Environment
  BY <1>5, EnvironmentType, EnvironmentShape
<1>6. QED
  BY <1>1, <1>2, <1>3, <1>4, <1>5 DEF Next

\* Every variable keeps its type and every invocation its shape, whatever
\* the rules, the contents, the number of invocations and files, and the
\* interleaving.  Shape is needed for the types: a planned write exists when
\* a worker reaches its truncation, a batch has a last day when it commits.
THEOREM TypeCorrect == Spec => [](TypeOK /\ Shape)
<1>1. Init => TypeOK /\ Shape
  BY InitType
<1>2. TypeOK /\ Shape /\ [Next]_vars => (TypeOK /\ Shape)'
  BY StepInvariant
<1>3. QED
  BY <1>1, <1>2, PTL DEF Spec

-----------------------------------------------------------------------------
(* Soundness of the store                                                  *)

\* An unfixed clean text, or a fixed one, is clean for the next run as well.
LEMMA PlanSound ==
  ASSUME LineEndingStable, TypeOK, NEW i \in Invocations, NEW f \in Files, run[i] # None,
         NEW c \in Contents, Plan(i, f, c).verdict = "clean",
         run[i].mode # "check" \/ Plan(i, f, c).source = c
  PROVE  CleanFor(run[i].engine, run[i].analysis, run[i].context[f], Plan(i, f, c).source)
<1>1. /\ run[i].engine \in Engines /\ run[i].analysis \in Analyses
      /\ run[i].context[f] \in Contexts
  BY DEF TypeOK, UncachedTypeOK, Runs
<1>2. CASE run[i].mode # "check"
  <2>1. Plan(i, f, c) = RunRulePlan(run[i].engine, run[i].analysis, run[i].context[f], c, TRUE)
    BY <1>2 DEF Plan
  <2>2. QED
    BY <1>1, <2>1 DEF LineEndingStable
<1>3. CASE Plan(i, f, c).source = c
  BY <1>3 DEF Plan, RunRulePlan, CleanFor
<1>4. QED
  BY <1>2, <1>3

\* What analysis plans to write, or remembers, is clean when it says so.
LEMMA ReadSourceSound ==
  ASSUME LineEndingStable, TypeOK, Shape, NEW i \in Invocations, NEW f \in Files,
         CarriedSound(i, f), ReadSource(i, f)
  PROVE  CarriedSound(i, f)'
<1> DEFINE plan == Plan(i, f, disk[f])
           write == [source |-> plan.source, verdict |-> plan.verdict, truncated |-> FALSE]
           kept == UnwrittenSnapshot(i, f, plan, disk[f])
           Clean(c) == CleanFor(run[i].engine, run[i].analysis, run[i].context[f], c)
<1>1. run[i] # None /\ disk[f] \in Contents
  BY DEF TypeOK, UncachedTypeOK, Shape, PhaseShape, ReadSource
<1>2. plan.verdict = "clean" /\ (run[i].mode # "check" \/ plan.source = disk[f]) => Clean(plan.source)
  BY <1>1, PlanSound
<1>3. UNCHANGED <<run, candidate>>
  BY DEF ReadSource
<1>4. \/ /\ WritesBack(i, plan, disk[f])
         /\ writing' = [writing EXCEPT ![i][f] = write] /\ snapshot' = snapshot
      \/ writing' = writing /\ snapshot' = [snapshot EXCEPT ![i][f] = kept]
  BY DEF ReadSource
<1>5. CASE WritesBack(i, plan, disk[f])
           /\ writing' = [writing EXCEPT ![i][f] = write] /\ snapshot' = snapshot
  <2>1. plan.verdict = "clean" => Clean(plan.source)
    BY <1>2, <1>5 DEF WritesBack
  <2>2. writing'[i][f] = write
    BY <1>5 DEF TypeOK, UncachedTypeOK
  <2>3. writing'[i][f].verdict = plan.verdict /\ writing'[i][f].source = plan.source
    BY <2>2
  <2> HIDE DEF plan, write
  <2>4. QED
    BY <1>3, <1>5, <2>1, <2>3 DEF CarriedSound
<1>6. CASE writing' = writing /\ snapshot' = [snapshot EXCEPT ![i][f] = kept]
  <2>1. snapshot'[i][f] = kept
    BY <1>6 DEF TypeOK
  <2>2. kept # None => kept.content = disk[f] /\ Clean(disk[f])
    BY <1>2 DEF UnwrittenSnapshot
  <2> HIDE DEF plan, kept
  <2>3. QED
    BY <1>3, <1>6, <2>1, <2>2 DEF CarriedSound
<1>7. QED
  BY <1>4, <1>5, <1>6

\* The snapshot of a written file is the planned text.
LEMMA WriteSourceSound ==
  ASSUME TypeOK, Shape, NEW i \in Invocations, NEW f \in Files,
         CarriedSound(i, f), WriteSource(i, f)
  PROVE  CarriedSound(i, f)'
<1>1. writing[i][f] # None
  BY DEF WriteSource, Shape, StageShape
<1>2. UNCHANGED <<run, candidate>> /\ writing'[i][f] = None
  BY DEF TypeOK, UncachedTypeOK, WriteSource
<1>3. snapshot'[i][f] = WrittenSnapshot(i, f)
  BY DEF TypeOK, WriteSource
<1>4. QED
  BY <1>1, <1>2, <1>3 DEF CarriedSound, WrittenSnapshot

\* A step over one file leaves what the other files carry alone.
LEMMA FileStepSound ==
  ASSUME LineEndingStable, TypeOK, Shape, Sound, NEW i \in Invocations, NEW f \in Files, FileStep(i, f)
  PROVE  Sound'
<1>1. UNCHANGED <<run, rows>>
  BY DEF FileStep, LookupRow, StatCandidate, ProbeReadFails, ValidateSource, OpenSource, ReadSourceFails,
         ReadSource, TruncateSource, WriteSource, WriteSourceFails, StatWritten, storeVars, uncachedVars
<1>2. RowsProveClean'
  BY <1>1 DEF Sound, RowsProveClean
<1>3. \A j \in Invocations, g \in Files : (j # i \/ g # f) =>
        /\ candidate'[j][g] = candidate[j][g] /\ writing'[j][g] = writing[j][g]
        /\ snapshot'[j][g] = snapshot[j][g]
  <2>1. CASE StatCandidate(i, f) \/ ProbeReadFails(i, f) \/ ValidateSource(i, f)
    BY <2>1 DEF TypeOK, StatCandidate, ProbeReadFails, ValidateSource, Miss
  <2>2. CASE OpenSource(i, f) \/ ReadSourceFails(i, f) \/ WriteSourceFails(i, f)
    BY <2>2 DEF TypeOK, UncachedTypeOK, OpenSource, ReadSourceFails, WriteSourceFails, uncachedVars
  <2>3. CASE ReadSource(i, f)
    BY <2>3 DEF TypeOK, UncachedTypeOK, ReadSource
  <2>4. CASE TruncateSource(i, f) \/ WriteSource(i, f)
    BY <2>4 DEF TypeOK, UncachedTypeOK, TruncateSource, WriteSource
  <2>5. CASE StatWritten(i, f)
    BY <2>5 DEF TypeOK, StatWritten, uncachedVars
  <2>6. CASE LookupRow(i, f)
    BY <2>6 DEF TypeOK, LookupRow, uncachedVars
  <2>7. QED
    BY <2>1, <2>2, <2>3, <2>4, <2>5, <2>6 DEF FileStep
<1>4. CarriedSound(i, f)'
  <2> CarriedSound(i, f)
    BY DEF Sound
  <2>1. CASE StatCandidate(i, f) \/ ProbeReadFails(i, f) \/ ValidateSource(i, f)
    <3>1. UNCHANGED <<writing, snapshot>> /\ (Miss(i, f) \/ UNCHANGED candidate)
      BY <2>1 DEF StatCandidate, ProbeReadFails, ValidateSource
    <3>2. candidate'[i][f] \in {candidate[i][f], None}
      BY <3>1 DEF TypeOK, Miss
    <3>3. QED
      BY <1>1, <3>1, <3>2 DEF CarriedSound
  <2>2. CASE OpenSource(i, f) \/ ReadSourceFails(i, f) \/ WriteSourceFails(i, f)
    <3>1. UNCHANGED <<candidate, snapshot>> /\ writing'[i][f] \in {writing[i][f], None}
      BY <2>2 DEF TypeOK, UncachedTypeOK, OpenSource, ReadSourceFails, WriteSourceFails, uncachedVars
    <3>2. QED
      BY <1>1, <3>1 DEF CarriedSound
  <2>3. CASE ReadSource(i, f)
    BY <2>3, ReadSourceSound
  <2>4. CASE TruncateSource(i, f)
    <3>1. writing[i][f] # None /\ writing[i][f] \in Writes
      BY <2>4 DEF TypeOK, UncachedTypeOK, TruncateSource, Shape, StageShape
    <3>2. writing'[i][f] = [writing[i][f] EXCEPT !.truncated = TRUE]
      BY <2>4 DEF TypeOK, UncachedTypeOK, TruncateSource
    <3>3. writing'[i][f].source = writing[i][f].source /\ writing'[i][f].verdict = writing[i][f].verdict
      BY <3>1, <3>2 DEF Writes
    <3>4. UNCHANGED <<candidate, snapshot>>
      BY <2>4 DEF TruncateSource
    <3>5. QED
      BY <1>1, <3>1, <3>3, <3>4 DEF CarriedSound
  <2>5. CASE WriteSource(i, f)
    BY <2>5, WriteSourceSound
  <2>6. CASE StatWritten(i, f)
    <3>1. UNCHANGED <<candidate, writing>>
      BY <2>6 DEF StatWritten, uncachedVars
    <3>2. CASE UNCHANGED snapshot
      BY <1>1, <3>1, <3>2 DEF CarriedSound
    <3>3. CASE snapshot[i][f] # None /\ snapshot' = [snapshot EXCEPT ![i][f].mtime = mtime[f]]
      <4>1. snapshot[i][f] \in Snapshots /\ snapshot'[i][f] = [snapshot[i][f] EXCEPT !.mtime = mtime[f]]
        BY <3>3 DEF TypeOK
      <4>2. snapshot'[i][f].content = snapshot[i][f].content
        BY <4>1 DEF Snapshots
      <4>3. QED
        BY <1>1, <3>1, <3>3, <4>2 DEF CarriedSound
    <3>4. QED
      BY <2>6, <3>2, <3>3 DEF StatWritten
  <2>7. CASE LookupRow(i, f)
    <3>1. candidate'[i][f] \in {rows[KeyOf(i, f)], candidate[i][f]} /\ UNCHANGED <<writing, snapshot>>
      BY <2>7 DEF TypeOK, LookupRow, uncachedVars
    <3>2. run[i] \in Runs
      BY <2>7 DEF TypeOK, UncachedTypeOK, Shape, PhaseShape, LookupRow
    <3>3. KeyOf(i, f) \in Keys /\ KeyOf(i, f)[1] = run[i].engine /\ KeyOf(i, f)[2] = run[i].analysis
      BY <3>2 DEF KeyOf, Keys, Runs
    <3>4. QED
      BY <1>1, <3>1, <3>3 DEF Sound, RowsProveClean, CarriedSound
  <2>8. QED
    BY <2>1, <2>2, <2>3, <2>4, <2>5, <2>6, <2>7 DEF FileStep
<1>5. ASSUME NEW j \in Invocations, NEW g \in Files, j # i \/ g # f PROVE CarriedSound(j, g)'
  BY <1>1, <1>3, <1>5 DEF Sound, CarriedSound
<1>6. QED
  BY <1>2, <1>4, <1>5 DEF Sound

\* Proofs a transaction stores or keeps are true.
LEMMA CommitSound ==
  ASSUME TypeOK, Shape, Sound, NEW i \in Invocations, CommitTransaction(i)
  PROVE  RowsProveClean'
<1> DEFINE True(k, row) == row # None => CleanFor(k[1], k[2], row.context, row.content)
<1>1. ASSUME NEW k \in Keys PROVE True(k, StoredRow(i, k))
  <2>1. k[3] \in Files /\ rows[k] \in Proofs \cup {None} /\ True(k, rows[k])
    BY DEF TypeOK, Keys, Sound, RowsProveClean
  <2>2. CASE Mine(i, k) /\ Proving(i, k[3])
    <3>1. CleanFor(k[1], k[2], run[i].context[k[3]], snapshot[i][k[3]].content)
      BY <2>1, <2>2 DEF Sound, CarriedSound, Mine, Proving
    <3>2. /\ StoredRow(i, k).context = run[i].context[k[3]]
          /\ StoredRow(i, k).content = snapshot[i][k[3]].content
      BY <2>2 DEF StoredRow
    <3>3. QED
      BY <3>1, <3>2
  <2>3. CASE ~(Mine(i, k) /\ Proving(i, k[3])) /\ Mine(i, k) /\ Touching(i, k[3]) /\ rows[k] # None
    <3>1. StoredRow(i, k) = [rows[k] EXCEPT !.day = touch[i][k[3]]] /\ rows[k] \in Proofs
      BY <2>1, <2>3 DEF StoredRow
    <3>2. StoredRow(i, k).context = rows[k].context /\ StoredRow(i, k).content = rows[k].content
      BY <3>1 DEF Proofs
    <3>3. QED
      BY <2>1, <2>3, <3>2
  <2>4. CASE StoredRow(i, k) = rows[k]
    BY <2>1, <2>4
  <2>5. QED
    BY <2>2, <2>3, <2>4 DEF StoredRow
<1>2. ASSUME NEW k \in Keys PROVE True(k, rows'[k])
  <2>1. rows'[k] \in {StoredRow(i, k), None}
    BY DEF CommitTransaction, PrunedRow
  <2>2. QED
    BY <1>1, <2>1
<1>3. QED
  BY <1>2 DEF RowsProveClean

\* Soundness is inductive.
LEMMA StepSound == ASSUME LineEndingStable, TypeOK, Shape, Sound, [Next]_vars PROVE Sound'
<1>1. CASE UNCHANGED vars
  BY <1>1 DEF vars, uncachedVars, storeVars, probeVars, Sound, RowsProveClean, CarriedSound
<1>2. ASSUME NEW i \in Invocations, Prepare(i) PROVE Sound'
  <2>1. UNCHANGED <<rows, candidate, snapshot>>
    BY <1>2 DEF Prepare, storeVars
  <2>2. ASSUME NEW f \in Files PROVE CarriedSound(i, f)'
    <3>1. candidate[i][f] = None /\ snapshot[i][f] = None
      BY <1>2 DEF Prepare, Shape, PhaseShape, StageShape
    <3>2. writing'[i][f] = None
      BY <1>2 DEF TypeOK, UncachedTypeOK, Prepare, NoneForAll
    <3>3. QED
      BY <2>1, <3>1, <3>2 DEF CarriedSound
  <2>3. ASSUME NEW j \in Invocations, NEW f \in Files, j # i PROVE CarriedSound(j, f)'
    <3>1. run'[j] = run[j] /\ writing'[j] = writing[j]
      BY <1>2, <2>3 DEF TypeOK, UncachedTypeOK, Prepare
    <3>2. QED
      BY <2>1, <3>1 DEF Sound, CarriedSound
  <2>4. QED
    BY <2>1, <2>2, <2>3 DEF Sound, RowsProveClean
<1>3. ASSUME NEW i \in Invocations, EndProbe(i) PROVE Sound'
  <2>1. UNCHANGED <<rows, run, writing, snapshot>>
    BY <1>3 DEF EndProbe, storeVars, uncachedVars
  <2>2. \A j \in Invocations, f \in Files : candidate'[j][f] \in {candidate[j][f], None}
    BY <1>3 DEF TypeOK, EndProbe, NoneForAll
  <2>3. QED
    BY <2>1, <2>2 DEF Sound, RowsProveClean, CarriedSound
<1>4. ASSUME NEW i \in Invocations,
             EndLookup(i) \/ Persist(i) \/ AcquireLock(i) \/ StoreFails(i) \/ OpenDatabase(i)
      PROVE  Sound'
  <2>1. UNCHANGED <<rows, run, writing, snapshot, candidate>>
    BY <1>4 DEF EndLookup, Persist, AcquireLock, StoreFails, OpenDatabase, storeVars, uncachedVars
  <2>2. QED
    BY <2>1 DEF Sound, RowsProveClean, CarriedSound
<1>5. ASSUME NEW i \in Invocations, QuarantineDatabase(i) \/ CreateDatabase(i) PROVE Sound'
  <2>1. UNCHANGED <<run, writing, snapshot, candidate>>
    BY <1>5 DEF QuarantineDatabase, CreateDatabase, uncachedVars
  <2>2. RowsProveClean'
    BY <1>5 DEF RowsProveClean, QuarantineDatabase, CreateDatabase, EmptyStore
  <2>3. QED
    BY <2>1, <2>2 DEF Sound, CarriedSound
<1>6. ASSUME NEW i \in Invocations, CommitTransaction(i) PROVE Sound'
  <2>1. UNCHANGED <<run, writing, snapshot, candidate>>
    BY <1>6 DEF CommitTransaction, uncachedVars
  <2>2. QED
    BY <1>6, <2>1, CommitSound DEF Sound, CarriedSound
<1>7. ASSUME NEW i \in Invocations, Forget(i) PROVE Sound'
  <2>1. UNCHANGED rows
    BY <1>7 DEF Forget, storeVars
  <2>2. ASSUME NEW f \in Files PROVE CarriedSound(i, f)'
    <3>1. candidate'[i][f] = None /\ writing'[i][f] = None /\ snapshot'[i][f] = None
      BY <1>7 DEF TypeOK, UncachedTypeOK, Forget, Leave, NoneForAll
    <3>2. QED
      BY <3>1 DEF CarriedSound
  <2>3. ASSUME NEW j \in Invocations, NEW f \in Files, j # i PROVE CarriedSound(j, f)'
    <3>1. run'[j] = run[j] /\ writing'[j] = writing[j] /\ candidate'[j] = candidate[j]
            /\ snapshot'[j] = snapshot[j]
      BY <1>7, <2>3 DEF TypeOK, UncachedTypeOK, Forget, Leave
    <3>2. QED
      BY <3>1 DEF Sound, CarriedSound
  <2>4. QED
    BY <2>1, <2>2, <2>3 DEF Sound, RowsProveClean
<1>8. CASE Environment
  <2>1. UNCHANGED <<run, writing, snapshot, candidate>>
    BY <1>8 DEF Environment, CleanerLocks, CleanerRemoves, DamageDatabase, ChangeClock, EditFile, Edit,
         ChangeMarker, uncachedVars, probeVars
  <2>2. rows' = rows \/ EmptyStore
    BY <1>8 DEF Environment, CleanerLocks, CleanerRemoves, DamageDatabase, ChangeClock, EditFile,
         ChangeMarker, storeVars
  <2>3. RowsProveClean'
    BY <2>2 DEF Sound, RowsProveClean, EmptyStore
  <2>4. QED
    BY <2>1, <2>3 DEF Sound, CarriedSound
<1>9. QED
  BY <1>1, <1>2, <1>3, <1>4, <1>5, <1>6, <1>7, <1>8, FileStepSound
  DEF Next, InvocationStep, ExitNormally, Die

\* A program that has done nothing claims nothing.
LEMMA InitSound == ASSUME Init PROVE Sound
<1>1. RowsProveClean
  BY DEF Init, RowsProveClean
<1>2. \A i \in Invocations, f \in Files : CarriedSound(i, f)
  BY DEF Init, UncachedInit, NoneForAll, CarriedSound
<1>3. QED
  BY <1>1, <1>2 DEF Sound

\* No stored proof is ever false: the file, the settings, the path context,
\* the lock, the database and other processes may change or die at any step.
\* The one thing the code must be given is that the line ending the fixes
\* leave behind is the one the next run resolves.
THEOREM StoredProofsAreTrue == LineEndingStable /\ Spec => []RowsProveClean
<1>1. Init => Sound
  BY InitSound
<1>2. LineEndingStable /\ TypeOK /\ Shape /\ Sound /\ [Next]_vars => Sound'
  BY StepSound
<1>3. Sound => RowsProveClean
  BY DEF Sound
<1>4. LineEndingStable => []LineEndingStable
  OBVIOUS
<1>5. QED
  BY <1>1, <1>2, <1>3, <1>4, TypeCorrect, PTL DEF Spec

-----------------------------------------------------------------------------
(* Refinement of the uncached run                                          *)

\* A proof that survives every comparison says what analysing the bytes the
\* file holds now would say.
LEMMA HitIsAnalysis ==
  ASSUME TypeOK, Shape, Sound, NEW i \in Invocations, NEW f \in Files,
         phase[i] = "probing", stage[i][f] = "possible", DigestAgrees(i, f)
  PROVE  LET plan == Plan(i, f, disk[f])
         IN  ~WritesBack(i, plan, disk[f]) /\ ResultOf(plan, disk[f]) = CachedClean
<1> DEFINE a == run[i].analysis
           x == run[i].context[f]
           le == ResolveLineEnding(a, disk[f])
<1>1. /\ candidate[i][f] # None /\ candidate[i][f].context = x
      /\ candidate[i][f].content = disk[f]
  BY DEF Shape, StageShape, DigestAgrees
<1>2. Verdict[<<run[i].engine, a, x, disk[f], le>>] = "clean"
  BY <1>1 DEF Sound, CarriedSound, CleanFor
<1>3. Plan(i, f, disk[f]) = [source |-> disk[f], verdict |-> "clean"]
  BY <1>2 DEF Plan, RunRulePlan
<1>4. /\ Plan(i, f, disk[f]).source = disk[f] /\ Plan(i, f, disk[f]).verdict = "clean"
  BY <1>3
<1>5. (Plan(i, f, disk[f]).source # disk[f]) = FALSE
  BY <1>4
<1>6. QED
  BY <1>4, <1>5, Zenon DEF WritesBack, ResultOf, CachedClean

\* Every step over one file is a step of the uncached program, or none.
LEMMA FileStepRefines ==
  ASSUME TypeOK, Shape, Sound, NEW i \in Invocations, NEW f \in Files, FileStep(i, f)
  PROVE  [UncachedNext]_uncachedVars
<1>1. CASE \/ LookupRow(i, f) \/ StatCandidate(i, f) \/ ProbeReadFails(i, f)
           \/ OpenSource(i, f) \/ StatWritten(i, f)
  BY <1>1 DEF LookupRow, StatCandidate, ProbeReadFails, Miss, OpenSource, StatWritten, uncachedVars
<1>2. CASE ValidateSource(i, f)
  <2>1. CASE Miss(i, f)
    BY <1>2, <2>1 DEF ValidateSource, Miss, uncachedVars
  <2>2. CASE DigestAgrees(i, f) /\ SetReport(i, f, CachedClean)
    <3>1. phase[i] = "probing" /\ stage[i][f] = "possible" /\ UNCHANGED <<disk, run, writing>>
      BY <1>2 DEF ValidateSource
    <3>2. Unreported(i, f) /\ writing[i][f] = None
      BY <3>1 DEF Shape, PhaseShape, StageShape, Unreported
    <3>3. Analyse(i, f)
      BY <2>2, <3>1, <3>2, HitIsAnalysis DEF Analyse
    <3>4. QED
      BY <3>3 DEF UncachedNext
  <2>3. QED
    BY <1>2, <2>1, <2>2 DEF ValidateSource
<1>3. CASE ReadSourceFails(i, f)
  <2>1. Unreported(i, f) /\ writing[i][f] = None
    BY <1>3 DEF ReadSourceFails, Shape, PhaseShape, StageShape, Unreported
  <2>2. ReadFails(i, f)
    BY <1>3, <2>1 DEF ReadSourceFails, ReadFails
  <2>3. QED
    BY <2>2 DEF UncachedNext
<1>4. CASE ReadSource(i, f)
  <2>1. Unreported(i, f) /\ writing[i][f] = None
    BY <1>4 DEF ReadSource, Shape, PhaseShape, StageShape, Unreported
  <2>2. Analyse(i, f)
    BY <1>4, <2>1 DEF ReadSource, Analyse
  <2>3. QED
    BY <2>2 DEF UncachedNext
<1>5. CASE TruncateSource(i, f) \/ WriteSource(i, f) \/ WriteSourceFails(i, f)
  <2>1. /\ Unreported(i, f) /\ writing[i][f] # None
        /\ writing[i][f].truncated <=> stage[i][f] = "truncated"
    BY <1>5 DEF TruncateSource, WriteSource, WriteSourceFails, Shape, PhaseShape, StageShape, Unreported
  <2>2. Truncate(i, f) \/ Write(i, f) \/ WriteFails(i, f)
    BY <1>5, <2>1 DEF TruncateSource, WriteSource, WriteSourceFails, Truncate, Write, WriteFails
  <2>3. QED
    BY <2>2 DEF UncachedNext
<1>6. QED
  BY <1>1, <1>2, <1>3, <1>4, <1>5 DEF FileStep

\* Every step is a step of the uncached program, or none.
LEMMA StepRefines ==
  ASSUME TypeOK, Shape, Sound, [Next]_vars
  PROVE  [UncachedNext]_uncachedVars
<1>1. CASE UNCHANGED vars
  BY <1>1 DEF vars, uncachedVars
<1>2. ASSUME NEW i \in Invocations, Prepare(i) PROVE [UncachedNext]_uncachedVars
  <2>1. run[i] = None
    BY <1>2 DEF Prepare, Shape, PhaseShape
  <2>2. marker \in [Files -> Contexts]
    BY DEF TypeOK
  <2>3. Begin(i)
    BY <1>2, <2>1, <2>2 DEF Prepare, PrepareContext, Begin
  <2>4. QED
    BY <2>3 DEF UncachedNext
<1>3. ASSUME NEW i \in Invocations, ExitNormally(i) \/ Die(i) PROVE [UncachedNext]_uncachedVars
  <2>1. run[i] # None
    BY <1>3 DEF ExitNormally, Die, Shape, PhaseShape
  <2>2. Crash(i)
    BY <1>3, <2>1 DEF ExitNormally, Die, Forget, Crash
  <2>3. QED
    BY <2>2 DEF UncachedNext
<1>4. ASSUME NEW i \in Invocations,
             \/ EndLookup(i) \/ EndProbe(i) \/ Persist(i) \/ AcquireLock(i) \/ StoreFails(i)
             \/ OpenDatabase(i) \/ QuarantineDatabase(i) \/ CreateDatabase(i) \/ CommitTransaction(i)
      PROVE  UNCHANGED uncachedVars
  BY <1>4 DEF EndLookup, EndProbe, Persist, AcquireLock, StoreFails, OpenDatabase, QuarantineDatabase,
     CreateDatabase, CommitTransaction
<1>5. CASE Environment
  <2>1. UNCHANGED uncachedVars \/ \E f \in Files : Edit(f)
    BY <1>5 DEF Environment, CleanerLocks, CleanerRemoves, DamageDatabase, ChangeClock, EditFile, ChangeMarker
  <2>2. QED
    BY <2>1 DEF UncachedNext
<1>6. QED
  BY <1>1, <1>2, <1>3, <1>4, <1>5, FileStepRefines DEF Next, InvocationStep

\* Every behaviour of the cached program, seen through the files, the reports
\* and the planned writes, is one of the program without a cache.
THEOREM CacheRefinesUncached == LineEndingStable /\ Spec => CacheTransparent
<1>1. Init => UncachedInit
  BY DEF Init
<1>2. TypeOK /\ Shape /\ Sound /\ [Next]_vars => [UncachedNext]_uncachedVars
  BY StepRefines
<1>3. LineEndingStable => []LineEndingStable
  OBVIOUS
<1>4. Init => Sound
  BY InitSound
<1>5. LineEndingStable /\ TypeOK /\ Shape /\ Sound /\ [Next]_vars => Sound'
  BY StepSound
<1>6. QED
  BY <1>1, <1>2, <1>3, <1>4, <1>5, TypeCorrect, PTL DEF Spec, CacheTransparent, UncachedSpec

-----------------------------------------------------------------------------
(* Retention of proofs                                                     *)

\* Only the lock's holder leaves or keeps a writing phase.
LEMMA LockKept ==
  ASSUME TypeOK, StoreShape, NEW i \in Invocations,
         \A j \in Invocations : j # i => phase'[j] = phase[j],
         phase'[i] \notin {"locked", "moved", "opened"}, ReleaseLock(i)
  PROVE  \A j \in Invocations : phase'[j] \in {"locked", "moved", "opened"} => lock' = j
  BY DEF StoreShape, ReleaseLock

\* A transaction records the engine of every proof it keeps.
LEMMA CommitStore ==
  ASSUME TypeOK, Shape, StoreShape, NEW i \in Invocations, CommitTransaction(i)
  PROVE  StoreShape'
<1>1. /\ phase[i] = "opened" /\ lock = i /\ ReleaseLock(i) /\ UNCHANGED dbState
      /\ phase' = [phase EXCEPT ![i] = "done"]
  BY DEF CommitTransaction, StoreShape
<1>2. /\ run[i] \in Runs
      /\ BatchDays(i) \in SUBSET Days /\ BatchDays(i) # {}
  BY <1>1, OpenedBatch
<1>3. StoredEngineDay(i, run[i].engine) # None
  <2>1. (CHOOSE d \in BatchDays(i) : \A other \in BatchDays(i) : other <= d) \in BatchDays(i)
    BY <1>2, LastDay
  <2>2. QED
    BY <1>2, <2>1, AbsentAssumption DEF StoredEngineDay
<1>4. ASSUME NEW k \in Keys, StoredRow(i, k) # None PROVE StoredEngineDay(i, k[1]) # None
  <2>1. CASE k[1] = run[i].engine
    BY <1>3, <2>1
  <2>2. CASE k[1] # run[i].engine
    BY <1>4, <2>2 DEF StoredRow, Mine, StoredEngineDay, StoreShape, RowsHaveEngine
  <2>3. QED
    BY <2>1, <2>2
<1>5. RowsHaveEngine'
  <2>1. ASSUME NEW k \in Keys, rows'[k] # None PROVE engineDay'[k[1]] # None
    <3>1. k[1] \in Engines
      BY DEF Keys
    <3>2. CASE PruneDue
      BY <1>4, <2>1, <3>1, <3>2 DEF CommitTransaction, PrunedRow, PrunedEngineDay
    <3>3. CASE ~PruneDue
      BY <1>4, <2>1, <3>1, <3>3 DEF CommitTransaction
    <3>4. QED
      BY <3>2, <3>3
  <2>2. QED
    BY <2>1 DEF RowsHaveEngine
<1>6. dbState # "absent"
  BY <1>1 DEF StoreShape
<1>7. \A j \in Invocations : phase'[j] \in {"locked", "moved", "opened"} => lock' = j
  BY <1>1, LockKept DEF TypeOK
<1>8. QED
  BY <1>1, <1>5, <1>6, <1>7 DEF StoreShape

\* The shape of the store is inductive.
LEMMA StoreStep ==
  ASSUME TypeOK, Shape, StoreShape, [Next]_vars
  PROVE  StoreShape'
<1>1. CASE UNCHANGED vars
  BY <1>1 DEF vars, storeVars, probeVars, StoreShape, RowsHaveEngine
<1>2. ASSUME NEW i \in Invocations, UNCHANGED <<storeVars, lock>>,
             \A j \in Invocations : j # i => phase'[j] = phase[j],
             phase'[i] \notin {"locked", "moved", "opened"}
      PROVE  StoreShape'
  BY <1>2 DEF StoreShape, RowsHaveEngine, storeVars
<1>3. ASSUME NEW i \in Invocations, Prepare(i) \/ EndLookup(i) \/ EndProbe(i) \/ Persist(i) PROVE StoreShape'
  <2>1. /\ UNCHANGED <<storeVars, lock>>
        /\ \A j \in Invocations : j # i => phase'[j] = phase[j]
        /\ phase'[i] \notin {"locked", "moved", "opened"}
    BY <1>3 DEF TypeOK, Prepare, EndLookup, EndProbe, Persist
  <2>2. QED
    BY <1>2, <2>1
<1>4. ASSUME NEW i \in Invocations, NEW f \in Files, FileStep(i, f) PROVE StoreShape'
  <2>1. UNCHANGED <<storeVars, lock, phase>>
    BY <1>4 DEF FileStep, LookupRow, StatCandidate, ProbeReadFails, ValidateSource, OpenSource, ReadSourceFails,
         ReadSource, TruncateSource, WriteSource, WriteSourceFails, StatWritten
  <2>2. QED
    BY <2>1 DEF StoreShape, RowsHaveEngine, storeVars
<1>5. ASSUME NEW i \in Invocations, AcquireLock(i) PROVE StoreShape'
  <2>1. /\ lock = Free /\ lock' = i /\ UNCHANGED storeVars
        /\ phase' = [phase EXCEPT ![i] = "locked"]
    BY <1>5 DEF AcquireLock
  <2>2. \A j \in Invocations : phase[j] \notin {"locked", "moved", "opened"}
    BY <2>1, ProtocolAssumption DEF StoreShape
  <2>3. QED
    BY <2>1, <2>2 DEF TypeOK, StoreShape, RowsHaveEngine, storeVars
<1>6. ASSUME NEW i \in Invocations, StoreFails(i) \/ Forget(i) PROVE StoreShape'
  <2>1. /\ ReleaseLock(i) /\ UNCHANGED storeVars
        /\ phase' = [phase EXCEPT ![i] = "done"] \/ phase' = [phase EXCEPT ![i] = "idle"]
    BY <1>6 DEF StoreFails, Forget
  <2>2. /\ \A j \in Invocations : j # i => phase'[j] = phase[j]
        /\ phase'[i] \notin {"locked", "moved", "opened"}
    BY <2>1 DEF TypeOK
  <2>3. \A j \in Invocations : phase'[j] \in {"locked", "moved", "opened"} => lock' = j
    BY <2>1, <2>2, LockKept
  <2>4. QED
    BY <2>1, <2>2, <2>3 DEF StoreShape, RowsHaveEngine, storeVars
<1>7. ASSUME NEW i \in Invocations,
             OpenDatabase(i) \/ QuarantineDatabase(i) \/ CreateDatabase(i)
      PROVE  StoreShape'
  <2>1. PICK p \in {"moved", "opened"} :
          /\ phase[i] \in {"locked", "moved"} /\ phase' = [phase EXCEPT ![i] = p] /\ UNCHANGED lock
          /\ \/ UNCHANGED storeVars /\ dbState = "current"
             \/ EmptyStore /\ dbState' = IF p = "moved" THEN "absent" ELSE "current"
    BY <1>7 DEF OpenDatabase, QuarantineDatabase, CreateDatabase
  <2>2. RowsHaveEngine'
    BY <2>1 DEF StoreShape, RowsHaveEngine, EmptyStore, storeVars
  <2>3. ASSUME NEW j \in Invocations
        PROVE  /\ phase'[j] \in {"locked", "moved", "opened"} => lock' = j
               /\ phase'[j] = "opened" => j = i
    <3>1. lock = i
      BY <2>1 DEF StoreShape
    <3>2. CASE j = i
      BY <2>1, <3>1, <3>2
    <3>3. CASE j # i
      BY <2>1, <3>1, <3>3 DEF TypeOK, StoreShape
    <3>4. QED
      BY <3>2, <3>3
  <2>4. /\ phase'[i] = "opened" => dbState' # "absent"
        /\ dbState' = "absent" => \A k \in Keys : rows'[k] = None
    BY <2>1 DEF TypeOK, StoreShape, EmptyStore, storeVars
  <2>5. QED
    BY <2>2, <2>3, <2>4 DEF StoreShape
<1>8. ASSUME NEW i \in Invocations, CommitTransaction(i) PROVE StoreShape'
  BY <1>8, CommitStore
<1>9. CASE Environment
  <2>1. CASE CleanerLocks
    BY <2>1, ProtocolAssumption DEF CleanerLocks, StoreShape, RowsHaveEngine, storeVars, probeVars
  <2>2. CASE CleanerRemoves
    <3>1. /\ lock = Cleaner /\ UNCHANGED phase
          /\ UNCHANGED storeVars \/ (EmptyStore /\ dbState' = "absent")
      BY <2>2 DEF CleanerRemoves, probeVars
    <3>2. \A j \in Invocations : phase[j] \notin {"locked", "moved", "opened"}
      BY <3>1, ProtocolAssumption DEF StoreShape
    <3>3. QED
      BY <3>1, <3>2 DEF StoreShape, RowsHaveEngine, EmptyStore, storeVars
  <2>3. CASE DamageDatabase
    BY <2>3 DEF DamageDatabase, StoreShape, RowsHaveEngine, probeVars
  <2>4. CASE ChangeClock \/ \E f \in Files : EditFile(f) \/ ChangeMarker(f)
    <3>1. UNCHANGED <<storeVars, lock, phase>>
      BY <2>4 DEF ChangeClock, EditFile, ChangeMarker, probeVars
    <3>2. QED
      BY <3>1 DEF StoreShape, RowsHaveEngine, storeVars
  <2>5. QED
    BY <1>9, <2>1, <2>2, <2>3, <2>4 DEF Environment
<1>10. QED
  BY <1>1, <1>3, <1>4, <1>5, <1>6, <1>7, <1>8, <1>9 DEF Next, InvocationStep, ExitNormally, Die

\* There is no database at first.
LEMMA InitStore == ASSUME Init PROVE StoreShape
  BY DEF Init, StoreShape, RowsHaveEngine

\* No proof is left that pruning by engine could never reach.
THEOREM ProofsHaveEngine == Spec => []RowsHaveEngine
<1>1. Init => StoreShape
  BY InitStore
<1>2. TypeOK /\ Shape /\ StoreShape /\ [Next]_vars => StoreShape'
  BY StoreStep
<1>3. StoreShape => RowsHaveEngine
  BY DEF StoreShape
<1>4. QED
  BY <1>1, <1>2, <1>3, TypeCorrect, PTL DEF Spec

\* What a transaction drops is out of use, or its engine is.
LEMMA CommitKeeps ==
  ASSUME TypeOK, Shape, StoreShape, NEW i \in Invocations, CommitTransaction(i),
         NEW k \in Keys, rows[k] # None, rows'[k] = None
  PROVE  lock = i /\ phase[i] = "opened" /\ AgedOut(i, k)
<1>1. phase[i] = "opened" /\ lock = i
  BY DEF CommitTransaction, StoreShape
<1>2. /\ BatchDays(i) \in SUBSET Days /\ BatchDays(i) # {}
      /\ today \in Int /\ ProofTtlDays \in Int /\ \A d \in Days : d \in Int
  BY <1>1, OpenedBatch, ProtocolAssumption DEF TypeOK, Days
<1>3. k[1] \in Engines /\ k[3] \in Files /\ rows[k] \in Proofs /\ rows[k].day \in Days
  BY DEF TypeOK, Keys, Proofs
<1>4. StoredRow(i, k) # None
  BY <1>1, StoredType, AbsentAssumption
<1>5. /\ StoredRow(i, k) # None
      /\ \/ StoredRow(i, k).day = rows[k].day
         \/ k[1] = run[i].engine /\ StoredRow(i, k).day \in BatchDays(i)
  <2>1. CASE Mine(i, k) /\ Proving(i, k[3])
    <3>1. StoredRow(i, k).day = proofDay[i] /\ proofDay[i] \in BatchDays(i)
      BY <1>3, <2>1 DEF StoredRow, BatchDays
    <3>2. QED
      BY <1>4, <2>1, <3>1 DEF Mine
  <2>2. CASE ~(Mine(i, k) /\ Proving(i, k[3])) /\ Mine(i, k) /\ Touching(i, k[3])
    <3>1. StoredRow(i, k) = [rows[k] EXCEPT !.day = touch[i][k[3]]]
      BY <2>2 DEF StoredRow
    <3>2. StoredRow(i, k).day = touch[i][k[3]]
      BY <1>3, <3>1 DEF Proofs
    <3>3. touch[i][k[3]] \in {touch[i][f] : f \in {g \in Files : Touching(i, g)}}
      BY <1>3, <2>2
    <3>4. QED
      BY <1>4, <2>2, <3>2, <3>3 DEF BatchDays, Mine
  <2>3. CASE StoredRow(i, k) = rows[k]
    BY <1>4, <2>3
  <2>4. QED
    BY <2>1, <2>2, <2>3 DEF StoredRow
<1>6. StaleEngine(i, k[1]) \/ Stale(StoredRow(i, k).day)
  BY <1>5 DEF CommitTransaction, PrunedRow
<1>7. CASE Stale(StoredRow(i, k).day)
  <2>1. \A d \in Days : Stale(d) => Unused(d)
    BY <1>2 DEF Stale, Unused
  <2>2. QED
    BY <1>1, <1>2, <1>3, <1>5, <1>7, <2>1 DEF AgedOut
<1>8. CASE StaleEngine(i, k[1])
  <2>1. CASE k[1] = run[i].engine
    <3>1. StoredEngineDay(i, k[1]) \in BatchDays(i)
      BY <1>2, <2>1, LastDay DEF StoredEngineDay
    <3>2. QED
      BY <1>1, <1>2, <1>8, <2>1, <3>1 DEF StaleEngine, Stale, Unused, AgedOut
  <2>2. CASE k[1] # run[i].engine
    <3>1. StoredEngineDay(i, k[1]) = engineDay[k[1]] /\ engineDay[k[1]] \in Days
      BY <1>3, <1>8, <2>2 DEF TypeOK, StaleEngine, StoredEngineDay
    <3>2. QED
      BY <1>1, <1>2, <1>8, <2>2, <3>1 DEF StaleEngine, Stale, Unused, AgedOut
  <2>3. QED
    BY <2>1, <2>2
<1>9. QED
  BY <1>1, <1>6, <1>7, <1>8

\* A proof disappears only with its database or by age: opening a current
\* database never empties it, and a commit drops nothing else.
THEOREM ProofsAreKept == Spec => ProofsSurvive
<1> DEFINE Survives ==
      \A k \in Keys : (rows[k] # None /\ rows'[k] = None) =>
         \/ lock = Cleaner
         \/ dbState = "unusable"
         \/ \E i \in Invocations : lock = i /\ phase[i] = "opened" /\ AgedOut(i, k)
<1>1. ASSUME TypeOK, Shape, StoreShape, [Next]_vars PROVE [Survives]_vars
  <2>1. CASE rows' = rows
    BY <2>1
  <2>2. ASSUME NEW i \in Invocations, CommitTransaction(i) PROVE Survives
    BY <1>1, <2>2, CommitKeeps
  <2>3. ASSUME NEW i \in Invocations, OpenDatabase(i) \/ QuarantineDatabase(i) \/ CreateDatabase(i)
        PROVE  Survives
    BY <1>1, <2>3 DEF OpenDatabase, QuarantineDatabase, CreateDatabase, StoreShape, storeVars
  <2>4. CASE CleanerRemoves
    BY <2>4 DEF CleanerRemoves
  <2>5. ASSUME NEW i \in Invocations,
               Prepare(i) \/ EndLookup(i) \/ EndProbe(i) \/ Persist(i) \/ AcquireLock(i) \/ StoreFails(i)
                 \/ Forget(i)
        PROVE  rows' = rows
    BY <2>5 DEF Prepare, EndLookup, EndProbe, Persist, AcquireLock, StoreFails, Forget, storeVars
  <2>6. ASSUME NEW i \in Invocations, NEW f \in Files, FileStep(i, f) PROVE rows' = rows
    BY <2>6 DEF FileStep, LookupRow, StatCandidate, ProbeReadFails, ValidateSource, OpenSource, ReadSourceFails,
       ReadSource, TruncateSource, WriteSource, WriteSourceFails, StatWritten, storeVars
  <2>7. CASE Environment
    BY <2>1, <2>4, <2>7 DEF Environment, CleanerLocks, DamageDatabase, ChangeClock, EditFile,
       ChangeMarker, storeVars
  <2>8. CASE UNCHANGED vars
    BY <2>8
  <2> HIDE DEF Survives
  <2>9. QED
    BY <1>1, <2>1, <2>2, <2>3, <2>5, <2>6, <2>7, <2>8
    DEF Next, InvocationStep, ExitNormally, Die
<1>2. Init => StoreShape
  BY InitStore
<1>3. TypeOK /\ Shape /\ StoreShape /\ [Next]_vars => StoreShape'
  BY StoreStep
<1> HIDE DEF Survives
<1>4. TypeOK /\ Shape /\ StoreShape /\ [Next]_vars => [Survives]_vars
  BY <1>1
<1>5. Spec => [][Survives]_vars
  BY <1>2, <1>3, <1>4, TypeCorrect, PTL DEF Spec
<1>6. QED
  BY <1>5 DEF ProofsSurvive, Survives
=============================================================================
