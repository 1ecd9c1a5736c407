---------------------------- MODULE CacheProtocol ----------------------------
(***************************************************************************)
(* pydocfmt check with its clean-proof cache (cache/session.py,            *)
(* cache/coordinator.py, cache/store.py, formatter.format_disk_file), as   *)
(* several invocations, editors and pydocfmt clean act on the same files   *)
(* and the same cache.                                                     *)
(*                                                                         *)
(* An invocation probes the store once without the lock, accepts a stored  *)
(* proof only after reading and hashing the whole file, analyses the rest  *)
(* (possibly rewriting it) and commits its new proofs in one transaction   *)
(* under the mutation lock.  Any store step may fail; the invocation then  *)
(* runs uncached.                                                          *)
(*                                                                         *)
(* The SHA-256 digest of a content is the content itself: digests of       *)
(* different contents are taken to differ.                                 *)
(***************************************************************************)
EXTENDS UncachedCheck, Integers

CONSTANTS
    SizeOf,        \* byte length of each content
    Mtimes,        \* modification times a file may carry
    MaxDay,        \* bound: the clock shows days 0..MaxDay
    ProofTtlDays,  \* _PROOF_TTL_DAYS, 30 in the code
    Responsive,    \* invocations the scheduler keeps running
    Free, Cleaner  \* the lock is free, or held by pydocfmt clean

ASSUME ProtocolAssumption ==
    /\ SizeOf \in [Contents -> Nat]
    /\ MaxDay \in Nat /\ ProofTtlDays \in Nat
    /\ Responsive \subseteq Invocations
    /\ Free \notin Invocations /\ Cleaner \notin Invocations /\ Free # Cleaner

VARIABLES
    mtime,      \* modification time of every file
    marker,     \* path context the file system gives every file now
    today,      \* the day the wall clock shows; it may go backwards
    rows,       \* clean_proofs: a proof for every key, or None
    engineDay,  \* cache_state: last day an engine was used, or None
    pruneDay,   \* cache_state: last-prune-day, or None
    dbState,    \* the database at the live path
    lock,       \* holder of .pydocfmt.lock, or Free
    phase,      \* where an invocation is
    cacheable,  \* files it has a cache identity for
    stage,      \* where it is with every file
    candidate,  \* the proof it looked up for every file, or None
    hint,       \* size and mtime a worker saw when it opened the file, or None
    snapshot,   \* clean state a worker left for persistence, or None
    touch,      \* day to record for the proof of a hit, or None
    proofDay    \* day its new proofs will carry, or None

diskVars  == <<mtime, marker, today>>
storeVars == <<rows, engineDay, pruneDay, dbState>>
probeVars == <<phase, cacheable, stage, candidate, hint, snapshot, touch, proofDay>>
vars      == <<uncachedVars, diskVars, storeVars, lock, probeVars>>

Days == 0..MaxDay

\* Primary key of clean_proofs.
Keys == Engines \X Analyses \X Files

\* CleanProof without its key; the size follows from the content.
Proofs == [context : Contexts, content : Contents, mtime : Mtimes \cup {None}, day : Days]

\* CleanSourceSnapshot
Snapshots == [content : Contents, mtime : Mtimes \cup {None}]

\* What fstat told the worker that opened a file.
Hints == [size : Nat, mtime : Mtimes]

ASSUME AbsentAssumption ==
    None \notin Proofs /\ None \notin Snapshots /\ None \notin Hints /\ None \notin Days

Phases == {"idle", "prepared", "probing", "formatting", "committing", "locked", "moved", "opened", "done"}

Stages == {"unseen", "queried", "possible", "hit", "missed", "opened", "planned", "truncated", "written", "done"}

\* Types of the state; among them, that an mtime hint kept for a proof is one
\* that fstat gave, never another field of its result.
TypeOK ==
    /\ UncachedTypeOK
    /\ mtime \in [Files -> Mtimes] /\ marker \in [Files -> Contexts] /\ today \in Days
    /\ rows \in [Keys -> Proofs \cup {None}]
    /\ engineDay \in [Engines -> Days \cup {None}] /\ pruneDay \in Days \cup {None}
    /\ dbState \in {"absent", "current", "unusable"}
    /\ lock \in Invocations \cup {Free, Cleaner}
    /\ phase \in [Invocations -> Phases]
    /\ cacheable \in [Invocations -> SUBSET Files]
    /\ stage \in [Invocations -> [Files -> Stages]]
    /\ candidate \in [Invocations -> [Files -> Proofs \cup {None}]]
    /\ hint \in [Invocations -> [Files -> Hints \cup {None}]]
    /\ snapshot \in [Invocations -> [Files -> Snapshots \cup {None}]]
    /\ touch \in [Invocations -> [Files -> Days \cup {None}]]
    /\ proofDay \in [Invocations -> Days \cup {None}]

-----------------------------------------------------------------------------
EmptyStore ==
    /\ rows' = [k \in Keys |-> None]
    /\ engineDay' = [e \in Engines |-> None]
    /\ pruneDay' = None

Init ==
    /\ UncachedInit
    /\ mtime \in [Files -> Mtimes]
    /\ marker \in [Files -> Contexts]
    /\ today = 0
    /\ rows = [k \in Keys |-> None]
    /\ engineDay = [e \in Engines |-> None]
    /\ pruneDay = None
    /\ dbState = "absent"
    /\ lock = Free
    /\ phase = [i \in Invocations |-> "idle"]
    /\ cacheable = [i \in Invocations |-> {}]
    /\ stage = [i \in Invocations |-> [f \in Files |-> "unseen"]]
    /\ candidate = [i \in Invocations |-> NoneForAll]
    /\ hint = [i \in Invocations |-> NoneForAll]
    /\ snapshot = [i \in Invocations |-> NoneForAll]
    /\ touch = [i \in Invocations |-> NoneForAll]
    /\ proofDay = [i \in Invocations |-> None]

SetStage(i, f, s) == stage' = [stage EXCEPT ![i][f] = s]

Collects(i, f) == f \in cacheable[i]

\* Modification times a write can leave: clocks are coarse and editors
\* restore timestamps, so any.
TouchFile(f) == \E t \in Mtimes : mtime' = [mtime EXCEPT ![f] = t]

-----------------------------------------------------------------------------
(* CacheSession.prepare, CacheCoordinator.probe                            *)

\* Identities are fixed here: the path context the cache key and the rules
\* will both see is the one observed now.  Caching may be off, a rule may
\* not be FILE_LOCAL and a fingerprint may fail, so any files may lack one.
PrepareContext(i) == marker

Prepare(i) ==
    /\ phase[i] = "idle"
    /\ \E launch \in Launches[i] :
         run' = [run EXCEPT ![i] = [engine |-> launch.engine, analysis |-> launch.analysis,
                                    mode |-> launch.mode, context |-> PrepareContext(i)]]
    /\ \E identified \in SUBSET Files :
         /\ cacheable' = [cacheable EXCEPT ![i] = identified]
         /\ stage' = [stage EXCEPT ![i] =
                [f \in Files |-> IF f \in identified THEN "unseen" ELSE "missed"]]
    /\ phase' = [phase EXCEPT ![i] = "prepared"]
    /\ report' = [report EXCEPT ![i] = NoneForAll]
    /\ writing' = [writing EXCEPT ![i] = NoneForAll]
    /\ UNCHANGED <<disk, diskVars, storeVars, lock, candidate, hint, snapshot, touch, proofDay>>

KeyOf(i, f) == <<run[i].engine, run[i].analysis, f>>

\* CacheStore.lookup takes no lock, and every chunk of keys is a SELECT of its
\* own: another invocation may commit between two of them.  A row that does
\* not decode is dropped, a store that cannot be read yields none; both are
\* the second disjunct.
LookupRow(i, f) ==
    /\ phase[i] = "prepared" /\ stage[i][f] = "unseen"
    /\ SetStage(i, f, "queried")
    /\ \/ /\ dbState = "current"
          /\ candidate' = [candidate EXCEPT ![i][f] = rows[KeyOf(i, f)]]
       \/ UNCHANGED candidate
    /\ UNCHANGED <<uncachedVars, diskVars, storeVars, lock,
                   phase, cacheable, hint, snapshot, touch, proofDay>>

EndLookup(i) ==
    /\ phase[i] = "prepared"
    /\ \A f \in Files : stage[i][f] # "unseen"
    /\ phase' = [phase EXCEPT ![i] = "probing"]
    /\ UNCHANGED <<uncachedVars, diskVars, storeVars, lock,
                   cacheable, stage, candidate, hint, snapshot, touch, proofDay>>

\* Mutant: a proof is taken for every package position of the file.
AnyContextAgrees(i, f) == TRUE

ContextAgrees(i, f) == candidate[i][f].context = run[i].context[f]

\* Size and mtime only ever reject.
MetadataAgrees(i, f) ==
    /\ SizeOf[candidate[i][f].content] = SizeOf[disk[f]]
    /\ candidate[i][f].mtime \in {None, mtime[f]}

\* Mutant: a file with the recorded size and mtime is not read.
MetadataDecides(i, f) == TRUE

\* The complete current bytes decide.
DigestAgrees(i, f) == candidate[i][f].content = disk[f]

Compatible(i, f) == candidate[i][f] # None /\ ContextAgrees(i, f) /\ MetadataAgrees(i, f)

\* Rejected, unreadable or without a proof: left to normal analysis.
Miss(i, f) ==
    /\ SetStage(i, f, "missed")
    /\ candidate' = [candidate EXCEPT ![i][f] = None]
    /\ UNCHANGED report

StatCandidate(i, f) ==
    /\ phase[i] = "probing" /\ stage[i][f] = "queried"
    /\ \/ Compatible(i, f) /\ SetStage(i, f, "possible") /\ UNCHANGED <<candidate, report>>
       \/ ~Compatible(i, f) /\ Miss(i, f)
    /\ UNCHANGED <<disk, run, writing, diskVars, storeVars, lock,
                   phase, cacheable, hint, snapshot, touch, proofDay>>

\* os.stat or the complete read fails.
ProbeReadFails(i, f) ==
    /\ phase[i] = "probing" /\ stage[i][f] \in {"queried", "possible"}
    /\ candidate[i][f] # None
    /\ Miss(i, f)
    /\ UNCHANGED <<disk, run, writing, diskVars, storeVars, lock,
                   phase, cacheable, hint, snapshot, touch, proofDay>>

\* Validation threads, in any order, once every candidate has been stat'ed.
ValidateSource(i, f) ==
    /\ phase[i] = "probing" /\ stage[i][f] = "possible"
    /\ \A g \in Files : stage[i][g] # "queried"
    /\ \/ /\ DigestAgrees(i, f)
          /\ SetStage(i, f, "hit")
          /\ SetReport(i, f, CachedClean)
          /\ UNCHANGED candidate
       \/ /\ ~DigestAgrees(i, f)
          /\ Miss(i, f)
    /\ UNCHANGED <<disk, run, writing, diskVars, storeVars, lock,
                   phase, cacheable, hint, snapshot, touch, proofDay>>

\* Retention of a reused proof is updated at most once per day.
TouchOf(i, f) ==
    IF stage[i][f] = "hit" /\ candidate[i][f].day # today THEN today ELSE None

EndProbe(i) ==
    /\ phase[i] = "probing"
    /\ \A f \in Files : stage[i][f] \in {"hit", "missed"}
    /\ touch' = [touch EXCEPT ![i] = [f \in Files |-> TouchOf(i, f)]]
    /\ candidate' = [candidate EXCEPT ![i] = NoneForAll]
    /\ phase' = [phase EXCEPT ![i] = "formatting"]
    /\ UNCHANGED <<uncachedVars, diskVars, storeVars, lock,
                   cacheable, stage, hint, snapshot, proofDay>>

-----------------------------------------------------------------------------
(* formatter.format_disk_file, run by the workers for every miss           *)

\* open and fstat; without a cache identity nothing is remembered.
OpenSource(i, f) ==
    /\ phase[i] = "formatting" /\ stage[i][f] = "missed"
    /\ SetStage(i, f, "opened")
    /\ \/ /\ Collects(i, f)
          /\ hint' = [hint EXCEPT ![i][f] = [size |-> SizeOf[disk[f]], mtime |-> mtime[f]]]
       \/ UNCHANGED hint
    /\ UNCHANGED <<uncachedVars, diskVars, storeVars, lock,
                   phase, cacheable, candidate, snapshot, touch, proofDay>>

ReadSourceFails(i, f) ==
    /\ phase[i] = "formatting" /\ stage[i][f] \in {"missed", "opened"}
    /\ SetStage(i, f, "done")
    /\ SetReport(i, f, FailedResult)
    /\ hint' = [hint EXCEPT ![i][f] = None]
    /\ UNCHANGED <<disk, run, writing, diskVars, storeVars, lock,
                   phase, cacheable, candidate, snapshot, touch, proofDay>>

\* The mtime seen at open is kept only when the size still agrees.
HintedMtime(i, f, c) ==
    IF hint[i][f] # None /\ hint[i][f].size = SizeOf[c] THEN hint[i][f].mtime ELSE None

\* Mutant: what --diff would leave is remembered for what it read.
PlannedSnapshot(i, f, plan, c) ==
    IF Collects(i, f) /\ plan.verdict = "clean"
    THEN [content |-> c, mtime |-> HintedMtime(i, f, c)]
    ELSE None

\* Only a clean state that exists on disk is remembered: text that --diff
\* would change, or that still has findings or errors, is not.
UnwrittenSnapshot(i, f, plan, c) ==
    IF Collects(i, f) /\ plan.verdict = "clean" /\ plan.source = c
    THEN [content |-> c, mtime |-> HintedMtime(i, f, c)]
    ELSE None

ReadSource(i, f) ==
    /\ phase[i] = "formatting" /\ stage[i][f] = "opened"
    /\ LET plan == Plan(i, f, disk[f])
       IN  \/ /\ WritesBack(i, plan, disk[f])
              /\ writing' = [writing EXCEPT ![i][f] =
                     [source |-> plan.source, verdict |-> plan.verdict, truncated |-> FALSE]]
              /\ SetStage(i, f, "planned")
              /\ UNCHANGED <<report, snapshot>>
           \/ /\ ~WritesBack(i, plan, disk[f])
              /\ SetReport(i, f, ResultOf(plan, disk[f]))
              /\ snapshot' = [snapshot EXCEPT ![i][f] = UnwrittenSnapshot(i, f, plan, disk[f])]
              /\ SetStage(i, f, "done")
              /\ UNCHANGED writing
    /\ hint' = [hint EXCEPT ![i][f] = None]
    /\ UNCHANGED <<disk, run, diskVars, storeVars, lock,
                   phase, cacheable, candidate, touch, proofDay>>

\* open(path, "w") empties the file; an editor or another invocation may act
\* before the new text is flushed.
TruncateSource(i, f) ==
    /\ phase[i] = "formatting" /\ stage[i][f] = "planned"
    /\ SetStage(i, f, "truncated")
    /\ disk' = [disk EXCEPT ![f] = Empty]
    /\ TouchFile(f)
    /\ writing' = [writing EXCEPT ![i][f].truncated = TRUE]
    /\ UNCHANGED <<run, report, marker, today, storeVars, lock,
                   phase, cacheable, candidate, hint, snapshot, touch, proofDay>>

WrittenSnapshot(i, f) ==
    IF Collects(i, f) /\ writing[i][f].verdict = "clean"
    THEN [content |-> writing[i][f].source, mtime |-> None]
    ELSE None

WriteSource(i, f) ==
    /\ phase[i] = "formatting" /\ stage[i][f] = "truncated"
    /\ SetStage(i, f, "written")
    /\ disk' = [disk EXCEPT ![f] = writing[i][f].source]
    /\ TouchFile(f)
    /\ SetReport(i, f, [verdict |-> writing[i][f].verdict, modified |-> TRUE])
    /\ snapshot' = [snapshot EXCEPT ![i][f] = WrittenSnapshot(i, f)]
    /\ writing' = [writing EXCEPT ![i][f] = None]
    /\ UNCHANGED <<run, marker, today, storeVars, lock,
                   phase, cacheable, candidate, hint, touch, proofDay>>

WriteSourceFails(i, f) ==
    /\ phase[i] = "formatting" /\ stage[i][f] \in {"planned", "truncated"}
    /\ SetStage(i, f, "done")
    /\ SetReport(i, f, FailedResult)
    /\ writing' = [writing EXCEPT ![i][f] = None]
    /\ UNCHANGED <<disk, run, diskVars, storeVars, lock,
                   phase, cacheable, candidate, hint, snapshot, touch, proofDay>>

\* Mutant: what the file holds after the write is hashed, not what was written.
RehashWritten(i, f) ==
    /\ phase[i] = "formatting" /\ stage[i][f] = "written"
    /\ SetStage(i, f, "done")
    /\ snapshot' = [snapshot EXCEPT ![i][f] =
           IF @ = None THEN None ELSE [content |-> disk[f], mtime |-> mtime[f]]]
    /\ UNCHANGED <<uncachedVars, diskVars, storeVars, lock,
                   phase, cacheable, candidate, hint, touch, proofDay>>

\* os.stat after the write; by then the file may be somebody else's.
StatWritten(i, f) ==
    /\ phase[i] = "formatting" /\ stage[i][f] = "written"
    /\ SetStage(i, f, "done")
    /\ \/ /\ snapshot[i][f] # None
          /\ SizeOf[disk[f]] = SizeOf[snapshot[i][f].content]
          /\ snapshot' = [snapshot EXCEPT ![i][f].mtime = mtime[f]]
       \/ UNCHANGED snapshot
    /\ UNCHANGED <<uncachedVars, diskVars, storeVars, lock,
                   phase, cacheable, candidate, hint, touch, proofDay>>

-----------------------------------------------------------------------------
(* CacheCoordinator.persist, CacheStore.commit                             *)

Proving(i, f) == snapshot[i][f] # None

Touching(i, f) == touch[i][f] # None

\* Nothing is persisted before every file has its result.
Persist(i) ==
    /\ phase[i] = "formatting"
    /\ \A f \in Files : stage[i][f] \in {"hit", "done"}
    /\ IF \E f \in Files : Proving(i, f) \/ Touching(i, f)
       THEN /\ phase' = [phase EXCEPT ![i] = "committing"]
            /\ proofDay' = [proofDay EXCEPT ![i] = today]
       ELSE /\ phase' = [phase EXCEPT ![i] = "done"]
            /\ UNCHANGED proofDay
    /\ UNCHANGED <<uncachedVars, diskVars, storeVars, lock,
                   cacheable, stage, candidate, hint, snapshot, touch>>

AcquireLock(i) ==
    /\ phase[i] = "committing" /\ lock = Free
    /\ lock' = i
    /\ phase' = [phase EXCEPT ![i] = "locked"]
    /\ UNCHANGED <<uncachedVars, diskVars, storeVars,
                   cacheable, stage, candidate, hint, snapshot, touch, proofDay>>

ReleaseLock(i) == lock' = IF lock = i THEN Free ELSE lock

\* Mutant: the lock is awaited without a deadline.
StoreFailsOnlyLocked(i) ==
    /\ phase[i] \in {"locked", "moved", "opened"}
    /\ phase' = [phase EXCEPT ![i] = "done"]
    /\ ReleaseLock(i)
    /\ UNCHANGED <<uncachedVars, diskVars, storeVars,
                   cacheable, stage, candidate, hint, snapshot, touch, proofDay>>

\* The lock wait times out, or the root, the database or the transaction
\* raises: rolled back, and this invocation runs without persistence.
StoreFails(i) ==
    /\ phase[i] \in {"committing", "locked", "moved", "opened"}
    /\ phase' = [phase EXCEPT ![i] = "done"]
    /\ ReleaseLock(i)
    /\ UNCHANGED <<uncachedVars, diskVars, storeVars,
                   cacheable, stage, candidate, hint, snapshot, touch, proofDay>>

\* Mutant: a run without a hit replaces the database it finds.
OpenDatabaseAfterMisses(i) ==
    /\ phase[i] = "locked" /\ dbState = "current"
    /\ IF \E f \in Files : stage[i][f] = "hit" THEN UNCHANGED storeVars
       ELSE EmptyStore /\ UNCHANGED dbState
    /\ phase' = [phase EXCEPT ![i] = "opened"]
    /\ UNCHANGED <<uncachedVars, diskVars, lock,
                   cacheable, stage, candidate, hint, snapshot, touch, proofDay>>

\* _open_current_writable_database judges what is at the live path now, with
\* the lock held, and keeps a database it supports.
OpenDatabase(i) ==
    /\ phase[i] = "locked" /\ dbState = "current"
    /\ phase' = [phase EXCEPT ![i] = "opened"]
    /\ UNCHANGED <<uncachedVars, diskVars, storeVars, lock,
                   cacheable, stage, candidate, hint, snapshot, touch, proofDay>>

\* An unsupported or corrupt one is moved aside; the process may die before
\* it creates another.
QuarantineDatabase(i) ==
    /\ phase[i] = "locked" /\ dbState = "unusable"
    /\ EmptyStore /\ dbState' = "absent"
    /\ phase' = [phase EXCEPT ![i] = "moved"]
    /\ UNCHANGED <<uncachedVars, diskVars, lock,
                   cacheable, stage, candidate, hint, snapshot, touch, proofDay>>

CreateDatabase(i) ==
    /\ phase[i] \in {"locked", "moved"} /\ dbState = "absent"
    /\ EmptyStore /\ dbState' = "current"
    /\ phase' = [phase EXCEPT ![i] = "opened"]
    /\ UNCHANGED <<uncachedVars, diskVars, lock,
                   cacheable, stage, candidate, hint, snapshot, touch, proofDay>>

Mine(i, k) == k[1] = run[i].engine /\ k[2] = run[i].analysis

\* UPDATE of touched rows that still exist, then INSERT OR UPDATE of proofs.
StoredRow(i, k) ==
    LET f == k[3]
    IN  IF Mine(i, k) /\ Proving(i, f)
        THEN [context |-> run[i].context[f], content |-> snapshot[i][f].content,
              mtime |-> snapshot[i][f].mtime, day |-> proofDay[i]]
        ELSE IF Mine(i, k) /\ Touching(i, f) /\ rows[k] # None
        THEN [rows[k] EXCEPT !.day = touch[i][f]]
        ELSE rows[k]

\* The most recent day of this batch replaces the recorded one.
BatchDays(i) ==
    {touch[i][f] : f \in {g \in Files : Touching(i, g)}}
      \cup (IF \E f \in Files : Proving(i, f) THEN {proofDay[i]} ELSE {})

StoredEngineDay(i, e) ==
    IF e = run[i].engine
    THEN CHOOSE d \in BatchDays(i) : \A other \in BatchDays(i) : other <= d
    ELSE engineDay[e]

PruneDue == pruneDay # today

\* Mutant: a proof goes one day too early.
StaleEarly(day) == day <= today - ProofTtlDays

Stale(day) == day < today - ProofTtlDays

StaleEngine(i, e) == StoredEngineDay(i, e) # None /\ Stale(StoredEngineDay(i, e))

\* Engine namespaces out of use go with all their proofs.
PrunedRow(i, k) ==
    LET row == StoredRow(i, k)
    IN  IF row # None /\ (StaleEngine(i, k[1]) \/ Stale(row.day)) THEN None ELSE row

PrunedEngineDay(i, e) == IF StaleEngine(i, e) THEN None ELSE StoredEngineDay(i, e)

CommitTransaction(i) ==
    /\ phase[i] = "opened"
    /\ IF PruneDue
       THEN /\ rows' = [k \in Keys |-> PrunedRow(i, k)]
            /\ engineDay' = [e \in Engines |-> PrunedEngineDay(i, e)]
            /\ pruneDay' = today
       ELSE /\ rows' = [k \in Keys |-> StoredRow(i, k)]
            /\ engineDay' = [e \in Engines |-> StoredEngineDay(i, e)]
            /\ UNCHANGED pruneDay
    /\ phase' = [phase EXCEPT ![i] = "done"]
    /\ ReleaseLock(i)
    /\ UNCHANGED <<uncachedVars, diskVars, dbState,
                   cacheable, stage, candidate, hint, snapshot, touch, proofDay>>

-----------------------------------------------------------------------------
(* End of an invocation, and everybody else                                *)

Forget(i) ==
    /\ Leave(i)
    /\ phase' = [phase EXCEPT ![i] = "idle"]
    /\ cacheable' = [cacheable EXCEPT ![i] = {}]
    /\ stage' = [stage EXCEPT ![i] = [f \in Files |-> "unseen"]]
    /\ candidate' = [candidate EXCEPT ![i] = NoneForAll]
    /\ hint' = [hint EXCEPT ![i] = NoneForAll]
    /\ snapshot' = [snapshot EXCEPT ![i] = NoneForAll]
    /\ touch' = [touch EXCEPT ![i] = NoneForAll]
    /\ proofDay' = [proofDay EXCEPT ![i] = None]
    /\ ReleaseLock(i)
    /\ UNCHANGED <<diskVars, storeVars>>

ExitNormally(i) == phase[i] = "done" /\ Forget(i)

\* The kernel drops the lock and SQLite discards the open transaction.
Die(i) == phase[i] # "idle" /\ Forget(i)

CleanerLocks ==
    /\ lock = Free
    /\ lock' = Cleaner
    /\ UNCHANGED <<uncachedVars, diskVars, storeVars, probeVars>>

\* pydocfmt clean removes the version directory, or fails, and unlocks.
CleanerRemoves ==
    /\ lock = Cleaner
    /\ lock' = Free
    /\ \/ EmptyStore /\ dbState' = "absent"
       \/ UNCHANGED storeVars
    /\ UNCHANGED <<uncachedVars, diskVars, probeVars>>

\* Another release, a full disk, a bad restore or a death during creation
\* leaves a database this implementation does not accept.
DamageDatabase ==
    /\ dbState # "unusable"
    /\ dbState' = "unusable"
    /\ UNCHANGED <<uncachedVars, diskVars, rows, engineDay, pruneDay, lock, probeVars>>

EditFile(f) ==
    /\ Edit(f)
    /\ TouchFile(f)
    /\ UNCHANGED <<marker, today, storeVars, lock, probeVars>>

\* An ancestor __init__.py appears or disappears.
ChangeMarker(f) ==
    /\ \E x \in Contexts : marker' = [marker EXCEPT ![f] = x]
    /\ UNCHANGED <<uncachedVars, mtime, today, storeVars, lock, probeVars>>

ChangeClock ==
    /\ today' \in Days
    /\ UNCHANGED <<uncachedVars, mtime, marker, storeVars, lock, probeVars>>

FileStep(i, f) ==
    \/ LookupRow(i, f)
    \/ StatCandidate(i, f) \/ ProbeReadFails(i, f) \/ ValidateSource(i, f)
    \/ OpenSource(i, f) \/ ReadSourceFails(i, f) \/ ReadSource(i, f)
    \/ TruncateSource(i, f) \/ WriteSource(i, f) \/ WriteSourceFails(i, f)
    \/ StatWritten(i, f)

\* What a started invocation does of its own accord.
InvocationStep(i) ==
    \/ EndLookup(i) \/ EndProbe(i) \/ Persist(i)
    \/ AcquireLock(i) \/ StoreFails(i) \/ OpenDatabase(i) \/ QuarantineDatabase(i) \/ CreateDatabase(i) \/ CommitTransaction(i)
    \/ ExitNormally(i)
    \/ \E f \in Files : FileStep(i, f)

Environment ==
    \/ CleanerLocks \/ CleanerRemoves \/ DamageDatabase \/ ChangeClock
    \/ \E f \in Files : EditFile(f) \/ ChangeMarker(f)

Next ==
    \/ \E i \in Invocations : Prepare(i) \/ InvocationStep(i) \/ Die(i)
    \/ Environment

Spec == Init /\ [][Next]_vars

\* Only responsive invocations are sure to be scheduled: any other one, and
\* the cleaner, may hang for ever, even while it holds the lock.
FairSpec == Spec /\ \A i \in Responsive : WF_vars(InvocationStep(i))

-----------------------------------------------------------------------------
(* Properties                                                              *)

\* Every stored proof is true: a fresh run of that engine with those settings,
\* in that path context, over that content has nothing to diagnose, rewrite
\* or display - whatever was edited, committed, cleaned or killed meanwhile.
RowsProveClean ==
    \A k \in Keys : rows[k] # None =>
        CleanFor(k[1], k[2], rows[k].context, rows[k].content)

\* A report stands for what an uncached run would say of a content the file
\* really had while the invocation ran: no stale, foreign or half-validated
\* proof ever changes a report or a source write.
CacheTransparent == UncachedSpec

\* What makes them inductive: which stages a phase admits, and what the
\* reports, planned writes, candidates and snapshots of a stage are.
PhaseShape(i) ==
    /\ phase[i] = "idle" <=> run[i] = None
    /\ phase[i] \in {"committing", "locked", "moved", "opened"} =>
         proofDay[i] # None /\ \E f \in Files : Proving(i, f) \/ Touching(i, f)
    /\ \A f \in Files :
         /\ phase[i] = "idle" => stage[i][f] = "unseen"
         /\ phase[i] = "prepared" => stage[i][f] \in {"unseen", "queried", "missed"}
         /\ phase[i] = "probing" => stage[i][f] \in {"queried", "possible", "hit", "missed"}
         /\ phase[i] = "formatting" => stage[i][f] \notin {"unseen", "queried", "possible"}
         /\ phase[i] \in {"committing", "locked", "moved", "opened", "done"} => stage[i][f] \in {"hit", "done"}

StageShape(i, f) ==
    /\ report[i][f] # None <=> stage[i][f] \in {"hit", "written", "done"}
    /\ writing[i][f] # None <=> stage[i][f] \in {"planned", "truncated"}
    /\ writing[i][f] # None => (writing[i][f].truncated <=> stage[i][f] = "truncated")
    /\ candidate[i][f] # None => phase[i] \in {"prepared", "probing"}
    /\ stage[i][f] = "possible" =>
         candidate[i][f] # None /\ candidate[i][f].context = run[i].context[f]
    /\ snapshot[i][f] # None => stage[i][f] \in {"written", "done"}

Shape == \A i \in Invocations : PhaseShape(i) /\ \A f \in Files : StageShape(i, f)

\* The claims an invocation carries between the file and the store are true.
CarriedSound(i, f) ==
    LET Clean(x, c) == CleanFor(run[i].engine, run[i].analysis, x, c)
    IN  /\ candidate[i][f] # None => Clean(candidate[i][f].context, candidate[i][f].content)
        /\ writing[i][f] # None /\ writing[i][f].verdict = "clean" =>
             Clean(run[i].context[f], writing[i][f].source)
        /\ snapshot[i][f] # None => Clean(run[i].context[f], snapshot[i][f].content)

Sound == RowsProveClean /\ \A i \in Invocations, f \in Files : CarriedSound(i, f)

\* No proof outlives the record of its engine, the only handle by which the
\* daily pruning of abandoned engines reaches it.
RowsHaveEngine ==
    \A k \in Keys : rows[k] # None => engineDay[k[1]] # None

Unused(day) == today - ProofTtlDays > day

AgedOut(i, k) ==
    \/ Unused(rows[k].day)
    \/ k[1] = run[i].engine /\ \E d \in BatchDays(i) : Unused(d)
    \/ k[1] # run[i].engine /\ Unused(engineDay[k[1]])

\* A proof disappears only through pydocfmt clean, with a database this
\* implementation cannot use, or by its age or that of its engine's last use;
\* a writer that looked up long ago never throws a newer database away.
ProofsSurvive ==
    [][\A k \in Keys : (rows[k] # None /\ rows'[k] = None) =>
         \/ lock = Cleaner
         \/ dbState = "unusable"
         \/ \E i \in Invocations :
              lock = i /\ phase[i] = "opened" /\ AgedOut(i, k)]_vars

\* A responsive invocation comes to its end although others hang, possibly
\* for ever and with the mutation lock in their hands.
InvocationsFinish ==
    \A i \in Responsive : (phase[i] # "idle") ~> (phase[i] = "idle")

\* What makes the two inductive: a writer holds the lock, and no database
\* means no proof.
StoreShape ==
    /\ RowsHaveEngine
    /\ \A i \in Invocations : phase[i] \in {"locked", "moved", "opened"} => lock = i
    /\ \A i \in Invocations : phase[i] = "opened" => dbState # "absent"
    /\ dbState = "absent" => \A k \in Keys : rows[k] = None

=============================================================================
