------------------------- MODULE CacheDirectoryProofs -------------------------
(***************************************************************************)
(* Proofs about CacheDirectory, for any numbers of writers, cleaners,      *)
(* groups and failing operations.                                          *)
(***************************************************************************)
EXTENDS CacheDirectory, TLAPS

\* The part of the types that every step touches.
PcShape ==
    /\ holder \in Processes \cup {None}
    /\ pc \in [Processes -> Steps]
    /\ \A p \in Processes :
         /\ pc[p] \in Locked => holder = p
         /\ holder = p => pc[p] \in Locked \cup {"inspect", "claim", "make"}

DataShape ==
    /\ root \in {"absent", "directory", "other"}
    /\ tag \in {"absent", "partial", "exact", "foreign"}
    /\ lockFile \in BOOLEAN /\ unrelated \in BOOLEAN /\ usable \in BOOLEAN
    /\ versions \in [Versions -> {"absent", "directory", "other"}]
    /\ live \subseteq Members
    /\ dbDay \in Days
    /\ groups \in [Names -> [members : SUBSET Members, day : Days]]
    /\ faults \in 0..MaxFaults /\ today \in Days

Shape == PcShape /\ DataShape

\* Going to a step that needs the lock takes the lock, and the holder goes
\* only to such steps or back to looking at the root.
LEMMA GotoShape ==
  ASSUME PcShape, NEW p \in Processes, NEW s \in Steps, Goto(p, s),
         s \in Locked => holder = p,
         holder = p => s \in Locked \cup {"inspect", "claim", "make"}
  PROVE  PcShape'
<1>1. holder' = holder /\ pc' \in [Processes -> Steps]
  BY DEF Goto, PcShape
<1>2. ASSUME NEW q \in Processes
      PROVE  /\ pc'[q] \in Locked => holder' = q
             /\ holder' = q => pc'[q] \in Locked \cup {"inspect", "claim", "make"}
  <2>1. CASE q = p
    BY <1>1, <2>1 DEF Goto, PcShape
  <2>2. CASE q # p
    BY <1>1, <2>2 DEF Goto, PcShape
  <2>3. QED
    BY <2>1, <2>2
<1>3. QED
  BY <1>1, <1>2 DEF PcShape

\* Whoever leaves does not keep the lock.
LEMMA LeaveShape ==
  ASSUME PcShape, NEW p \in Processes, NEW s \in Ended, Leave(p, s)
  PROVE  PcShape'
<1>1. holder' \in Processes \cup {None} /\ holder' # p /\ pc' \in [Processes -> Steps]
  BY CacheDirectoryAssumption DEF Leave, PcShape, Steps
<1>2. ASSUME NEW q \in Processes
      PROVE  /\ pc'[q] \in Locked => holder' = q
             /\ holder' = q => pc'[q] \in Locked \cup {"inspect", "claim", "make"}
  <2>1. CASE q = p
    BY <1>1, <2>1 DEF Leave, PcShape, Ended, Locked
  <2>2. CASE q # p
    BY <1>1, <2>2, CacheDirectoryAssumption DEF Leave, PcShape
  <2>3. QED
    BY <2>1, <2>2
<1>3. QED
  BY <1>1, <1>2 DEF PcShape

\* The three kinds of steps: looking, waiting for the lock, work under it.
LEMMA GotoLook ==
  ASSUME PcShape, NEW p \in Processes, NEW s \in {"inspect", "claim", "make"}, Goto(p, s)
  PROVE  PcShape'
<1>1. s \in Steps /\ s \notin Locked
  BY DEF Steps, Locked
<1>2. QED
  BY <1>1, GotoShape

\* Before the lock.
LEMMA GotoWait ==
  ASSUME PcShape, NEW p \in Processes, NEW s \in {"lock", "recheck", "acquire"}, Goto(p, s),
         holder # p
  PROVE  PcShape'
<1>1. s \in Steps /\ s \notin Locked
  BY DEF Steps, Locked
<1>2. QED
  BY <1>1, GotoShape

\* Under the lock.
LEMMA GotoWork ==
  ASSUME PcShape, NEW p \in Processes, NEW s \in Locked, Goto(p, s), holder = p
  PROVE  PcShape'
<1>1. s \in Steps
  BY DEF Steps
<1>2. QED
  BY <1>1, GotoShape

\* Every root a run may find is a typed one, and nobody holds its lock.
LEMMA InitShape == ASSUME Init PROVE Shape
<1>1. PcShape
  BY CacheDirectoryAssumption DEF Init, PcShape, Steps, Locked, Processes
<1>2. DataShape
  <2>1. 0 \in Days
    BY CacheDirectoryAssumption DEF Days
  <2>2. Gone \in [members : SUBSET Members, day : Days]
    BY <2>1 DEF Gone
  <2>3. groups \in [Names -> [members : SUBSET Members, day : Days]]
    BY <2>2 DEF Init
  <2>4. live \subseteq Members /\ usable \in BOOLEAN
    <3>1. live \in {{}, {"db"}, Members}
      BY DEF Init
    <3>2. usable = FALSE \/ usable = (live # {})
      BY DEF Init
    <3>3. usable \in BOOLEAN
      BY <3>2
    <3>4. QED
      BY <3>1, <3>3 DEF Members
  <2>5. versions \in [Versions -> {"absent", "directory", "other"}]
    BY DEF Init
  <2>6. /\ root \in {"absent", "directory", "other"} /\ tag \in {"absent", "partial", "exact", "foreign"}
        /\ lockFile \in BOOLEAN /\ unrelated \in BOOLEAN
    BY DEF Init
  <2>7. faults \in 0..MaxFaults /\ today \in Days /\ dbDay \in Days
    BY CacheDirectoryAssumption DEF Init
  <2>8. QED
    BY <2>3, <2>4, <2>5, <2>6, <2>7 DEF DataShape
<1>3. QED
  BY <1>1, <1>2 DEF Shape

\* Failures are counted up to their bound.
LEMMA FaultsCount == ASSUME DataShape, FileFails PROVE faults' \in 0..MaxFaults
  BY CacheDirectoryAssumption DEF DataShape, FileFails

\* A look at the root, and the directory itself.
LEMMA LookingKeepsShape ==
  ASSUME Shape, NEW w \in Writers, InspectRoot(w) \/ InspectChildren(w) \/ MakeRoot(w)
  PROVE  Shape'
<1>. USE DEF Shape
<1>1. w \in Processes
  BY DEF Processes
<1>2. DataShape'
  BY DEF DataShape, InspectRoot, InspectChildren, MakeRoot, rootVars, dataVars
<1>3. CASE InspectRoot(w)
  <2>1. Leave(w, "failed") \/ Goto(w, "make") \/ Goto(w, "claim")
    BY <1>3 DEF InspectRoot, DataShape
  <2>2. QED
    BY <1>1, <1>2, <2>1, GotoLook, LeaveShape DEF Ended
<1>4. CASE InspectChildren(w)
  <2>1. Leave(w, "failed") \/ Goto(w, "make")
    BY <1>4 DEF InspectChildren
  <2>2. QED
    BY <1>1, <1>2, <2>1, GotoLook, LeaveShape DEF Ended
<1>5. CASE MakeRoot(w)
  <2>1. (holder = w /\ Goto(w, "tag")) \/ (holder # w /\ Goto(w, "lock"))
    BY <1>5 DEF MakeRoot
  <2>2. QED
    BY <1>1, <1>2, <2>1, GotoWork, GotoWait DEF Locked
<1>6. QED
  BY <1>3, <1>4, <1>5

\* Waiting for the lock, getting it, giving up.
LEMMA LockingKeepsShape ==
  ASSUME Shape, NEW p \in Processes,
         \/ CheckLockable(p) \/ Recheck(p) \/ Acquire(p) \/ TimeOut(p)
         \/ OperationFails(p) \/ Die(p)
  PROVE  Shape'
<1>. USE DEF Shape
<1>1. DataShape'
  <2>1. UNCHANGED <<root, tag, versions, dataVars, unrelated, today>> /\ lockFile' \in BOOLEAN
    BY DEF DataShape, CheckLockable, Recheck, Acquire, TimeOut, OperationFails, Die, rootVars
  <2>2. faults' \in 0..MaxFaults
    BY FaultsCount DEF DataShape, CheckLockable, Recheck, Acquire, TimeOut, OperationFails, Die
  <2>3. QED
    BY <2>1, <2>2 DEF DataShape, dataVars
<1>2. CASE CheckLockable(p) \/ Recheck(p)
  <2>1. holder # p
    BY <1>2 DEF CheckLockable, Recheck, At, PcShape, Locked
  <2>2. Goto(p, "acquire") \/ Goto(p, "recheck") \/ Leave(p, "failed")
    BY <1>2 DEF CheckLockable, Recheck
  <2>3. QED
    BY <1>1, <2>1, <2>2, GotoWait, LeaveShape DEF Ended
<1>3. CASE Acquire(p)
  <2>1. holder = None /\ holder' = p
    BY <1>3 DEF Acquire
  <2>2. PICK s \in {"inspect", "verify"} : pc' = [pc EXCEPT ![p] = s]
    BY <1>3 DEF Acquire
  <2>3. pc' \in [Processes -> Steps]
    BY <2>2 DEF PcShape, Steps, Locked
  <2>4. \A q \in Processes : q # p => pc'[q] = pc[q] /\ pc[q] \notin Locked
    BY <2>1, <2>2, CacheDirectoryAssumption DEF PcShape
  <2>5. pc'[p] = s
    BY <2>2 DEF PcShape
  <2>6. PcShape'
    BY <2>1, <2>3, <2>4, <2>5 DEF PcShape, Locked
  <2>7. QED
    BY <1>1, <2>6
<1>4. CASE TimeOut(p) \/ OperationFails(p) \/ Die(p)
  <2>1. Leave(p, "failed") \/ Leave(p, "dead")
    BY <1>4 DEF TimeOut, OperationFails, Die
  <2>2. QED
    BY <1>1, <2>1, LeaveShape DEF Ended
<1>5. QED
  BY <1>2, <1>3, <1>4

\* Laying out the root and opening the database.
LEMMA LayingOutKeepsShape ==
  ASSUME Shape, NEW w \in Writers,
         \/ CreateTag(w) \/ WriteTag(w) \/ MakeVersion(w) \/ OpenDatabase(w)
         \/ CreateDatabase(w) \/ InitializeSchema(w) \/ Store(w)
  PROVE  Shape'
<1>. USE DEF Shape
<1>1. w \in Processes
  BY DEF Processes
<1>2. holder = w
  BY <1>1 DEF PcShape, Locked, At, CreateTag, WriteTag, MakeVersion, OpenDatabase, CreateDatabase,
     InitializeSchema, Store
<1>3. DataShape'
  <2>1. /\ root' \in {"absent", "directory", "other"}
        /\ tag' \in {"absent", "partial", "exact", "foreign"}
        /\ lockFile' \in BOOLEAN /\ unrelated' \in BOOLEAN /\ usable' \in BOOLEAN
    BY DEF DataShape, CreateTag, WriteTag, MakeVersion, OpenDatabase, CreateDatabase,
       InitializeSchema, Store, rootVars, dataVars
  <2>2. versions' \in [Versions -> {"absent", "directory", "other"}]
    BY DEF DataShape, CreateTag, WriteTag, MakeVersion, OpenDatabase, CreateDatabase,
       InitializeSchema, Store, rootVars, Versions
  <2>3. live' \subseteq Members /\ dbDay' \in Days /\ groups' = groups
    BY DEF DataShape, CreateTag, WriteTag, MakeVersion, OpenDatabase, CreateDatabase,
       InitializeSchema, Store, dataVars, Members
  <2>4. faults' = faults /\ today' = today
    BY DEF DataShape, CreateTag, WriteTag, MakeVersion, OpenDatabase, CreateDatabase,
       InitializeSchema, Store
  <2>5. QED
    BY <2>1, <2>2, <2>3, <2>4 DEF DataShape
<1>4. \/ \E s \in Locked : Goto(w, s)
      \/ \E s \in Ended : Leave(w, s)
  BY DEF DataShape, CreateTag, WriteTag, MakeVersion, OpenDatabase, CreateDatabase,
     InitializeSchema, Store, Locked, Ended
<1>5. QED
  BY <1>1, <1>2, <1>3, <1>4, GotoWork, LeaveShape

\* The pruning leaves groups that were there, whole or in part.
LEMMA RetainKeepsData ==
  ASSUME DataShape, RetainGroups
  PROVE  /\ groups' \in [Names -> [members : SUBSET Members, day : Days]]
         /\ faults' \in 0..MaxFaults
<1>1. Gone \in [members : SUBSET Members, day : Days]
  BY CacheDirectoryAssumption DEF Gone, Days
<1>2. PICK kept \in SUBSET Present :
        \/ /\ groups' = [g \in Names |-> IF g \in kept THEN groups[g] ELSE Gone]
           /\ UNCHANGED faults
        \/ \E g \in Present \ kept, left \in SUBSET Members, done \in SUBSET (Present \ kept) :
             /\ groups' = [h \in Names |->
                              CASE h = g -> [groups[g] EXCEPT !.members = left]
                                [] h # g /\ h \in done -> Gone
                                [] h # g /\ h \notin done -> groups[h]]
             /\ FileFails
  BY DEF RetainGroups
<1>3. CASE UNCHANGED faults /\ groups' = [g \in Names |-> IF g \in kept THEN groups[g] ELSE Gone]
  BY <1>1, <1>3 DEF DataShape
<1>4. CASE \E g \in Present \ kept, left \in SUBSET Members, done \in SUBSET (Present \ kept) :
             /\ groups' = [h \in Names |->
                              CASE h = g -> [groups[g] EXCEPT !.members = left]
                                [] h # g /\ h \in done -> Gone
                                [] h # g /\ h \notin done -> groups[h]]
             /\ FileFails
  <2>1. PICK g \in Names, left \in SUBSET Members, done \in SUBSET Names :
             /\ groups' = [h \in Names |->
                              CASE h = g -> [groups[g] EXCEPT !.members = left]
                                [] h # g /\ h \in done -> Gone
                                [] h # g /\ h \notin done -> groups[h]]
             /\ FileFails
    BY <1>4 DEF Present
  <2>2. [groups[g] EXCEPT !.members = left] \in [members : SUBSET Members, day : Days]
    BY DEF DataShape
  <2>3. \A h \in Names : groups'[h] \in [members : SUBSET Members, day : Days]
    BY <1>1, <2>1, <2>2 DEF DataShape
  <2>4. groups' \in [Names -> [members : SUBSET Members, day : Days]]
    BY <2>1, <2>3
  <2>5. QED
    BY <2>1, <2>4, FaultsCount
<1>5. QED
  BY <1>2, <1>3, <1>4

\* Moving a database aside, taking the move back, pruning.
LEMMA QuarantineKeepsShape ==
  ASSUME Shape, NEW w \in Writers,
         MoveMember(w) \/ MoveFails(w) \/ RollBack(w) \/ Retain(w) \/ Tidy(w)
  PROVE  Shape'
<1>. USE DEF Shape
<1>1. w \in Processes /\ w \in Names
  BY DEF Processes, Names
<1>2. holder = w
  BY <1>1 DEF PcShape, Locked, At, MoveMember, MoveFails, RollBack, Retain, Tidy
<1>3. PcShape'
  <2>1. \/ \E s \in Locked : Goto(w, s)
        \/ \E s \in Ended : Leave(w, s)
    BY DEF MoveMember, MoveFails, RollBack, Retain, Tidy, Locked, Ended
  <2>2. QED
    BY <1>1, <1>2, <2>1, GotoWork, LeaveShape
<1>4. DataShape'
  <2>1. /\ UNCHANGED <<root, tag, lockFile, versions, unrelated, usable, dbDay, today>>
    BY DEF MoveMember, MoveFails, RollBack, Retain, Tidy, rootVars, dataVars
  <2>2. live' \subseteq Members
    <3>1. CASE RollBack(w)
      <4>1. groups[w].members \subseteq Members
        BY <1>1 DEF DataShape
      <4>2. QED
        BY <3>1, <4>1 DEF RollBack, MovedBack, DataShape
    <3>2. CASE ~RollBack(w)
      BY <3>2 DEF MoveMember, MoveFails, Retain, Tidy, DataShape, dataVars, Members
    <3>3. QED
      BY <3>1, <3>2
  <2>3. /\ groups' \in [Names -> [members : SUBSET Members, day : Days]]
        /\ faults' \in 0..MaxFaults
    <3>1. CASE MoveMember(w)
      <4>1. PICK m \in Members :
              groups' = [groups EXCEPT ![w] = [members |-> @.members \cup {m},
                                               day |-> dbDay]]
        BY <3>1 DEF MoveMember, DataShape
      <4>2. groups[w].members \cup {m} \in SUBSET Members
        BY <1>1 DEF DataShape
      <4>3. QED
        BY <1>1, <3>1, <4>1, <4>2 DEF MoveMember, DataShape
    <3>2. CASE MoveFails(w)
      BY <3>2, FaultsCount DEF MoveFails, DataShape, dataVars
    <3>3. CASE RollBack(w)
      <4>1. PICK back \in SUBSET MovedBack(w) :
              /\ groups' = [groups EXCEPT ![w].members = @ \ back]
              /\ (UNCHANGED faults \/ FileFails)
        BY <3>3 DEF RollBack
      <4>2. groups[w].members \ back \in SUBSET Members
        BY <1>1 DEF DataShape
      <4>3. groups' \in [Names -> [members : SUBSET Members, day : Days]]
        BY <1>1, <4>1, <4>2 DEF DataShape
      <4>4. QED
        BY <4>1, <4>3, FaultsCount DEF DataShape
    <3>4. CASE Retain(w) \/ Tidy(w)
      BY <3>4, RetainKeepsData DEF Retain, Tidy
    <3>5. QED
      BY <3>1, <3>2, <3>3, <3>4
  <2>4. QED
    BY <2>1, <2>2, <2>3 DEF DataShape
<1>5. QED
  BY <1>3, <1>4

\* pydocfmt clean.
LEMMA CleaningKeepsShape ==
  ASSUME Shape, NEW c \in Cleaners, CleanerStep(c)
  PROVE  Shape'
<1>. USE DEF Shape
<1>1. c \in Processes
  BY DEF Processes
<1>2. CASE StartCleaning(c)
  <2>1. holder # c
    BY <1>1, <1>2 DEF StartCleaning, At, PcShape, Locked
  <2>2. Goto(c, "lock") \/ Leave(c, "cleaned") \/ Leave(c, "failed")
    BY <1>2 DEF StartCleaning, DataShape
  <2>3. DataShape'
    BY <1>2 DEF StartCleaning, DataShape, rootVars, dataVars
  <2>4. QED
    BY <1>1, <2>1, <2>2, <2>3, GotoWait, LeaveShape DEF Ended
<1>3. CASE VerifyTag(c) \/ FinishCleaning(c)
  <2>1. holder = c
    BY <1>1, <1>3 DEF VerifyTag, FinishCleaning, At, PcShape, Locked
  <2>2. Goto(c, "remove") \/ Leave(c, "cleaned") \/ Leave(c, "failed")
    BY <1>3 DEF VerifyTag, FinishCleaning
  <2>3. DataShape'
    BY <1>3 DEF VerifyTag, FinishCleaning, DataShape, rootVars, dataVars
  <2>4. QED
    BY <1>1, <2>1, <2>2, <2>3, GotoWork, LeaveShape DEF Ended, Locked
<1>4. CASE RemoveVersion(c)
  <2>1. holder = c
    BY <1>1, <1>4 DEF RemoveVersion, At, PcShape, Locked
  <2>2. Goto(c, "remove") \/ Leave(c, "failed")
    BY <1>4 DEF RemoveVersion
  <2>3. /\ UNCHANGED <<root, tag, lockFile, unrelated, usable, dbDay, today>>
    BY <1>4 DEF RemoveVersion
  <2>4. Gone \in [members : SUBSET Members, day : Days]
    BY CacheDirectoryAssumption DEF Gone, Days
  <2>5. PICK v \in Versions :
           \/ UNCHANGED <<versions, live, groups, faults>>
           \/ /\ versions' = [versions EXCEPT ![v] = "absent"]
              /\ live' = IF v = 1 THEN {} ELSE live
              /\ groups' = IF v = 1 THEN [g \in Names |-> Gone] ELSE groups
              /\ UNCHANGED faults
           \/ /\ FileFails
              /\ \E kept \in SUBSET live, lost \in SUBSET Names :
                   IF v = 1
                   THEN /\ live' = kept
                        /\ groups' = [g \in Names |-> IF g \in lost THEN Gone ELSE groups[g]]
                   ELSE UNCHANGED <<live, groups>>
              /\ UNCHANGED versions
    BY <1>4 DEF RemoveVersion
  <2>6. versions' \in [Versions -> {"absent", "directory", "other"}] /\ live' \subseteq Members
    BY <2>5 DEF DataShape
  <2>7. groups' \in [Names -> [members : SUBSET Members, day : Days]]
    BY <2>4, <2>5 DEF DataShape
  <2>8. faults' \in 0..MaxFaults
    BY <2>5, FaultsCount DEF DataShape
  <2>9. DataShape'
    BY <2>3, <2>6, <2>7, <2>8 DEF DataShape
  <2>10. QED
    BY <1>1, <2>1, <2>2, <2>9, GotoWork, LeaveShape DEF Ended, Locked
<1>5. QED
  BY <1>2, <1>3, <1>4 DEF CleanerStep

\* Every step keeps the types and the lock.
LEMMA NextShape == ASSUME Shape, [Next]_vars PROVE Shape'
<1>1. CASE UNCHANGED vars
  BY <1>1 DEF vars, rootVars, dataVars, Shape, PcShape, DataShape
<1>2. CASE AddUnrelated \/ SpoilDatabase \/ NextDay
  BY <1>2 DEF AddUnrelated, SpoilDatabase, NextDay, Shape, PcShape, DataShape, rootVars, dataVars
<1>3. CASE \E w \in Writers : WriterStep(w)
  BY <1>3, LookingKeepsShape, LayingOutKeepsShape, QuarantineKeepsShape DEF WriterStep
<1>4. CASE \E c \in Cleaners : CleanerStep(c)
  BY <1>4, CleaningKeepsShape
<1>5. CASE \E p \in Processes : \/ CheckLockable(p) \/ Recheck(p) \/ Acquire(p) \/ TimeOut(p)
                                \/ OperationFails(p) \/ Die(p)
  BY <1>5, LockingKeepsShape
<1>6. QED
  BY <1>1, <1>2, <1>3, <1>4, <1>5 DEF Next

\* Hence they hold in every run.
LEMMA ShapeInvariant == Spec => []Shape
<1>1. Init => Shape
  BY InitShape
<1>2. Shape /\ [Next]_vars => Shape'
  BY NextShape
<1>3. QED
  BY <1>1, <1>2, PTL DEF Spec

\* Types, and mutual exclusion: at any time at most one writer or cleaner
\* lays out, repairs, fills or empties the root, and it holds the lock.
THEOREM DirectoryTypes == Spec => []TypeOK
<1>1. Shape => TypeOK
  BY DEF Shape, PcShape, DataShape, TypeOK
<1>2. QED
  BY <1>1, ShapeInvariant, PTL

-----------------------------------------------------------------------------
(* What the lock protects                                                  *)

\* Where the writers are tells what the root is like.
RootShape ==
    /\ \A w \in Writers :
         /\ pc[w] = "claim" => root = "directory" /\ (holder = w => tag # "exact")
         /\ pc[w] = "write" => tag = "partial"
         /\ pc[w] = "version" => tag = "exact"
         /\ pc[w] = "rollback" => faults > 0

\* As long as nothing but writers and cleaners touches the root, it is not
\* laid out before it is tagged, and a tag is empty only while it is written.
Orderly ==
    ~Disturbed =>
        /\ tag = "absent" => \A v \in Versions : versions[v] = "absent"
        /\ tag = "partial" => \E w \in Writers : pc[w] = "write"

Sound == Shape /\ RootShape /\ Orderly

\* Every root a run may find is like that.
LEMMA InitSound == ASSUME Init PROVE Sound
<1>1. Shape
  BY InitShape
<1>2. RootShape
  BY DEF Init, RootShape, Processes
<1>3. Orderly
  BY DEF Init, Orderly
<1>4. QED
  BY <1>1, <1>2, <1>3 DEF Sound

\* Writers tag, write and lay out only under the lock.
LEMMA WritersHold ==
  ASSUME Shape, NEW w \in Writers, pc[w] \in Locked
  PROVE  holder = w
  BY DEF Shape, PcShape, Processes

\* A step of a writer moves that writer alone.
LEMMA WriterSteps ==
  ASSUME DataShape, NEW w \in Writers, WriterStep(w)
  PROVE  pc[w] # "dead" /\ \E s \in Steps : Goto(w, s) \/ Leave(w, s)
<1>1. CASE \/ InspectRoot(w) \/ InspectChildren(w) \/ MakeRoot(w)
           \/ CreateTag(w) \/ WriteTag(w) \/ MakeVersion(w)
  BY <1>1 DEF InspectRoot, InspectChildren, MakeRoot, CreateTag, WriteTag, MakeVersion,
     At, DataShape, Steps, Locked, Ended
<1>2. CASE \/ OpenDatabase(w) \/ MoveMember(w) \/ MoveFails(w) \/ RollBack(w) \/ Retain(w)
           \/ CreateDatabase(w) \/ InitializeSchema(w) \/ Store(w) \/ Tidy(w)
  BY <1>2 DEF OpenDatabase, MoveMember, MoveFails, RollBack, Retain, CreateDatabase,
     InitializeSchema, Store, Tidy, At, Steps, Locked, Ended
<1>3. QED
  BY <1>1, <1>2 DEF WriterStep

\* A step of a cleaner moves that cleaner alone.
LEMMA CleanerSteps ==
  ASSUME DataShape, NEW c \in Cleaners, CleanerStep(c)
  PROVE  pc[c] # "dead" /\ \E s \in Steps : Goto(c, s) \/ Leave(c, s)
<1>1. pc[c] # "dead"
  BY DEF CleanerStep, StartCleaning, VerifyTag, RemoveVersion, FinishCleaning, At
<1>2. \/ Goto(c, "lock") \/ Goto(c, "remove") \/ Leave(c, "cleaned") \/ Leave(c, "failed")
  BY DEF CleanerStep, StartCleaning, VerifyTag, RemoveVersion, FinishCleaning, DataShape
<1>3. QED
  BY <1>1, <1>2 DEF Steps, Locked, Ended

\* What a step may do to the root: make it, tag it, lay it out or empty it.
LEMMA StepsOnRoot ==
  ASSUME Shape, [Next]_vars
  PROVE  /\ root # "absent" => root' = root
         /\ faults' >= faults
         /\ unrelated => unrelated'
         /\ tag' = tag \/ \E w \in Writers : CreateTag(w) \/ WriteTag(w)
         /\ \/ versions' = versions
            \/ \E w \in Writers : MakeVersion(w)
            \/ \E c \in Cleaners : RemoveVersion(c)
         /\ \A p \in Processes : pc[p] = "dead" => pc'[p] = "dead"
<1>. USE DEF Next, WriterStep, CleanerStep, vars, rootVars, InspectRoot, InspectChildren, MakeRoot,
     CheckLockable, Recheck, Acquire, TimeOut, OpenDatabase, MoveMember, MoveFails, RollBack, Retain,
     CreateDatabase, InitializeSchema, Store, Tidy, StartCleaning, VerifyTag, FinishCleaning,
     OperationFails, Die, AddUnrelated, SpoilDatabase, NextDay
<1>1. root # "absent" => root' = root
  BY DEF CreateTag, WriteTag, MakeVersion, RemoveVersion
<1>2. faults' >= faults
  <2>1. FileFails => faults' >= faults
    BY CacheDirectoryAssumption DEF FileFails, Shape, DataShape
  <2>2. faults' = faults => faults' >= faults
    BY CacheDirectoryAssumption DEF Shape, DataShape
  <2>3. faults' = faults \/ FileFails
    BY DEF CreateTag, WriteTag, MakeVersion, RemoveVersion, RetainGroups
  <2>4. QED
    BY <2>1, <2>2, <2>3
<1>3. unrelated => unrelated'
  BY DEF CreateTag, WriteTag, MakeVersion, RemoveVersion
<1>4. tag' = tag \/ \E w \in Writers : CreateTag(w) \/ WriteTag(w)
  BY DEF MakeVersion, RemoveVersion
<1>5. \/ versions' = versions
      \/ \E w \in Writers : MakeVersion(w)
      \/ \E c \in Cleaners : RemoveVersion(c)
  BY DEF CreateTag, WriteTag
<1>6. ASSUME NEW p \in Processes, pc[p] = "dead"
      PROVE  pc'[p] = "dead"
  <2>1. \A q \in Processes, s \in Steps : q # p /\ (Goto(q, s) \/ Leave(q, s)) => pc'[p] = "dead"
    BY <1>6 DEF Goto, Leave, Shape, PcShape
  <2>2. CASE \E w \in Writers : WriterStep(w)
    <3>1. PICK w \in Writers : WriterStep(w)
      BY <2>2
    <3>2. pc[w] # "dead" /\ \E s \in Steps : Goto(w, s) \/ Leave(w, s)
      BY <3>1, WriterSteps DEF Shape
    <3>3. QED
      BY <1>6, <2>1, <3>2 DEF Processes
  <2>3. CASE \E c \in Cleaners : CleanerStep(c)
    <3>1. PICK c \in Cleaners : CleanerStep(c)
      BY <2>3
    <3>2. pc[c] # "dead" /\ \E s \in Steps : Goto(c, s) \/ Leave(c, s)
      BY <3>1, CleanerSteps DEF Shape
    <3>3. QED
      BY <1>6, <2>1, <3>2 DEF Processes
  <2>4. CASE \E q \in Processes : \/ CheckLockable(q) \/ Recheck(q) \/ TimeOut(q)
                                  \/ OperationFails(q) \/ Die(q)
    <3>1. PICK q \in Processes : \/ CheckLockable(q) \/ Recheck(q) \/ TimeOut(q)
                                 \/ OperationFails(q) \/ Die(q)
      BY <2>4
    <3>2. pc[q] # "dead" /\ \E s \in Steps : Goto(q, s) \/ Leave(q, s)
      BY <3>1 DEF At, Steps, Ended
    <3>3. QED
      BY <1>6, <2>1, <3>2
  <2>5. CASE \E q \in Processes : Acquire(q)
    BY <1>6, <2>5 DEF Shape, PcShape, At
  <2>6. CASE UNCHANGED pc
    BY <1>6, <2>6
  <2>7. QED
    BY <2>2, <2>3, <2>4, <2>5, <2>6 DEF AddUnrelated, SpoilDatabase, NextDay, Next, vars
<1>7. QED
  BY <1>1, <1>2, <1>3, <1>4, <1>5, <1>6

\* The lock passes to nobody who does not acquire it.
LEMMA OnlyAcquireTakes ==
  ASSUME Shape, [Next]_vars, NEW p \in Processes, holder' = p, holder # p
  PROVE  Acquire(p)
<1>1. p # None
  BY CacheDirectoryAssumption
<1>2. \A q \in Processes, s \in Steps : ~Goto(q, s) /\ ~Leave(q, s)
  BY <1>1 DEF Goto, Leave
<1>3. \A w \in Writers : ~WriterStep(w)
  BY <1>2, WriterSteps DEF Shape, Processes
<1>4. \A c \in Cleaners : ~CleanerStep(c)
  BY <1>2, CleanerSteps DEF Shape, Processes
<1>5. \A q \in Processes : /\ ~CheckLockable(q) /\ ~Recheck(q) /\ ~TimeOut(q)
                           /\ ~OperationFails(q) /\ ~Die(q)
  BY <1>2 DEF CheckLockable, Recheck, TimeOut, OperationFails, Die, Steps, Ended
<1>6. \A q \in Processes : Acquire(q) => q = p
  BY DEF Acquire
<1>7. QED
  BY <1>3, <1>4, <1>5, <1>6 DEF Next, AddUnrelated, SpoilDatabase, NextDay, vars

\* Where a process goes, it and nobody else.
LEMMA OthersStay ==
  ASSUME Shape, [Next]_vars, NEW w \in Writers, pc'[w] # pc[w]
  PROVE  \/ WriterStep(w)
         \/ CheckLockable(w) \/ Recheck(w) \/ Acquire(w) \/ TimeOut(w) \/ OperationFails(w) \/ Die(w)
<1>1. \A q \in Processes, s \in Steps : Goto(q, s) \/ Leave(q, s) => q = w
  BY DEF Goto, Leave, Shape, PcShape, Processes
<1>2. CASE \E u \in Writers : WriterStep(u)
  BY <1>1, <1>2, WriterSteps DEF Shape, Processes
<1>3. CASE \E c \in Cleaners : CleanerStep(c)
  <2>1. PICK c \in Cleaners : CleanerStep(c)
    BY <1>3
  <2>2. c = w
    BY <1>1, <2>1, CleanerSteps DEF Shape, Processes
  <2>3. QED
    BY <2>2, CacheDirectoryAssumption
<1>4. CASE \E p \in Processes : \/ CheckLockable(p) \/ Recheck(p) \/ Acquire(p) \/ TimeOut(p)
                                \/ OperationFails(p) \/ Die(p)
  <2>1. PICK p \in Processes : \/ CheckLockable(p) \/ Recheck(p) \/ Acquire(p) \/ TimeOut(p)
                               \/ OperationFails(p) \/ Die(p)
    BY <1>4
  <2>2. CASE Acquire(p)
    BY <2>2 DEF Acquire, Shape, PcShape, Processes
  <2>3. CASE \/ CheckLockable(p) \/ Recheck(p) \/ TimeOut(p) \/ OperationFails(p) \/ Die(p)
    <3>1. \E s \in Steps : Goto(p, s) \/ Leave(p, s)
      BY <2>3 DEF CheckLockable, Recheck, TimeOut, OperationFails, Die, Steps, Ended
    <3>2. QED
      BY <1>1, <2>3, <3>1
  <2>4. QED
    BY <2>1, <2>2, <2>3
<1>5. CASE AddUnrelated \/ SpoilDatabase \/ NextDay \/ UNCHANGED vars
  BY <1>5 DEF AddUnrelated, SpoilDatabase, NextDay, vars
<1>6. QED
  BY <1>2, <1>3, <1>4, <1>5 DEF Next

\* Whatever else has happened to the root stays known.
LEMMA DisturbedStays ==
  ASSUME Shape, RootShape, [Next]_vars, Disturbed
  PROVE  Disturbed'
<1>1. CASE faults > 0 \/ unrelated \/ root = "other"
  <2>1. faults' > 0 \/ unrelated' \/ root' = "other"
    BY <1>1, StepsOnRoot, NextShape, CacheDirectoryAssumption DEF Shape, DataShape
  <2>2. QED
    BY <2>1 DEF Disturbed
<1>2. CASE tag = "foreign"
  <2>1. tag' = "foreign"
    BY <1>2, StepsOnRoot DEF CreateTag, WriteTag, At, RootShape
  <2>2. QED
    BY <2>1 DEF Disturbed
<1>3. CASE \E v \in Versions : versions[v] = "other"
  <2>1. PICK v \in Versions : versions[v] = "other"
    BY <1>3
  <2>2. versions'[v] = "other"
    <3>1. ASSUME NEW w \in Writers, MakeVersion(w) PROVE versions'[v] = "other"
      BY <2>1, <3>1 DEF MakeVersion, Shape, DataShape
    <3>2. ASSUME NEW c \in Cleaners, RemoveVersion(c) PROVE versions'[v] = "other"
      BY <2>1, <3>2 DEF RemoveVersion, Shape, DataShape
    <3>3. QED
      BY <2>1, <3>1, <3>2, StepsOnRoot
  <2>3. QED
    BY <2>2 DEF Disturbed
<1>4. CASE \E p \in Processes : pc[p] = "dead"
  BY <1>4, StepsOnRoot DEF Disturbed
<1>5. QED
  BY <1>1, <1>2, <1>3, <1>4 DEF Disturbed

\* A writer knows what it has seen or done under the lock.
LEMMA StepRootShape ==
  ASSUME Shape, RootShape, [Next]_vars
  PROVE  RootShape'
<1>1. SUFFICES ASSUME NEW w \in Writers
               PROVE  /\ pc'[w] = "claim" => root' = "directory" /\ (holder' = w => tag' # "exact")
                      /\ pc'[w] = "write" => tag' = "partial"
                      /\ pc'[w] = "version" => tag' = "exact"
                      /\ pc'[w] = "rollback" => faults' > 0
  BY DEF RootShape
<1>2. CASE pc'[w] = pc[w]
  <2>1. root = "directory" => root' = "directory"
    BY StepsOnRoot
  <2>2. faults > 0 => faults' > 0
    BY StepsOnRoot, NextShape, CacheDirectoryAssumption DEF Shape, DataShape
  <2>3. holder = w => tag' = tag
    <3>1. ASSUME NEW u \in Writers, CreateTag(u) \/ WriteTag(u), holder = w
          PROVE  FALSE
      <4>1. u = w
        BY <3>1, WritersHold DEF CreateTag, WriteTag, At, Locked
      <4>2. QED
        BY <1>2, <3>1, <4>1 DEF CreateTag, WriteTag, At, Goto, Leave, Shape, PcShape, DataShape, Processes
    <3>2. QED
      BY <3>1, StepsOnRoot
  <2>4. pc[w] \in {"write", "version"} => holder = w
    BY WritersHold DEF Locked
  <2>5. pc[w] = "claim" /\ holder' = w => holder = w
    BY <1>2, OnlyAcquireTakes DEF Acquire, At, Processes
  <2>6. QED
    BY <1>2, <2>1, <2>2, <2>3, <2>4, <2>5 DEF RootShape
<1>3. CASE pc'[w] # pc[w]
  <2>1. CASE InspectRoot(w) \/ InspectChildren(w) \/ MakeRoot(w)
    BY <2>1 DEF InspectRoot, InspectChildren, MakeRoot, Goto, Leave, Owned, Shape, PcShape, DataShape,
       Processes, rootVars
  <2>2. CASE CreateTag(w) \/ WriteTag(w) \/ MakeVersion(w)
    BY <2>2 DEF CreateTag, WriteTag, MakeVersion, Goto, Leave, Shape, PcShape, DataShape, Processes
  <2>3. CASE MoveFails(w)
    BY <2>3, CacheDirectoryAssumption DEF MoveFails, FileFails, Goto, Shape, PcShape, DataShape, Processes
  <2>4. CASE \/ OpenDatabase(w) \/ MoveMember(w) \/ RollBack(w) \/ Retain(w)
             \/ CreateDatabase(w) \/ InitializeSchema(w) \/ Store(w) \/ Tidy(w)
    BY <2>4 DEF OpenDatabase, MoveMember, RollBack, Retain, CreateDatabase, InitializeSchema, Store, Tidy,
       Goto, Leave, Shape, PcShape, Processes
  <2>5. CASE \/ CheckLockable(w) \/ Recheck(w) \/ Acquire(w) \/ TimeOut(w) \/ OperationFails(w) \/ Die(w)
    BY <2>5 DEF CheckLockable, Recheck, Acquire, TimeOut, OperationFails, Die, Goto, Leave, Shape, PcShape,
       Processes
  <2>6. QED
    BY <1>3, <2>1, <2>2, <2>3, <2>4, <2>5, OthersStay DEF WriterStep
<1>4. QED
  BY <1>2, <1>3

\* A failing file operation is remembered.
LEMMA FailureDisturbs ==
  ASSUME Shape, NEW p \in Processes, OperationFails(p)
  PROVE  Disturbed'
<1>1. faults' > 0
  BY CacheDirectoryAssumption DEF OperationFails, FileFails, Shape, DataShape
<1>2. QED
  BY <1>1 DEF Disturbed

\* Only tagging, laying out and emptying could disturb the order.
LEMMA StepOrderly ==
  ASSUME Sound, [Next]_vars
  PROVE  Orderly'
<1>. USE DEF Sound
<1>1. SUFFICES ASSUME ~Disturbed'
               PROVE  /\ tag' = "absent" => \A v \in Versions : versions'[v] = "absent"
                      /\ tag' = "partial" => \E w \in Writers : pc'[w] = "write"
  BY DEF Orderly
<1>2. ~Disturbed
  BY <1>1, DisturbedStays
<1>3. ASSUME tag' = "absent" PROVE \A v \in Versions : versions'[v] = "absent"
  <2>1. tag = "absent"
    BY <1>3, StepsOnRoot DEF CreateTag, WriteTag
  <2>2. \A v \in Versions : versions[v] = "absent"
    BY <1>2, <2>1 DEF Orderly
  <2>3. \A w \in Writers : ~MakeVersion(w)
    BY <2>1 DEF MakeVersion, At, RootShape
  <2>4. \A c \in Cleaners : ~RemoveVersion(c)
    BY <2>2 DEF RemoveVersion
  <2>5. QED
    BY <2>2, <2>3, <2>4, StepsOnRoot
<1>4. ASSUME tag' = "partial" PROVE \E w \in Writers : pc'[w] = "write"
  <2>1. CASE tag = "partial"
    <3>1. PICK w \in Writers : pc[w] = "write"
      BY <1>2, <2>1 DEF Orderly
    <3>2. CASE pc'[w] # pc[w]
      <4>1. ~WriterStep(w)
        <5>1. ~WriteTag(w)
          BY <1>4 DEF WriteTag
        <5>2. QED
          BY <3>1, <5>1 DEF WriterStep, InspectRoot, InspectChildren, MakeRoot, CreateTag, MakeVersion,
             OpenDatabase, MoveMember, MoveFails, RollBack, Retain, CreateDatabase, InitializeSchema,
             Store, Tidy, At
      <4>2. ~OperationFails(w)
        BY <1>1, FailureDisturbs DEF Processes
      <4>3. ~Die(w)
        BY <1>1 DEF Die, Leave, Disturbed, Shape, PcShape, Processes
      <4>4. QED
        BY <3>1, <3>2, <4>1, <4>2, <4>3, OthersStay DEF CheckLockable, Recheck, Acquire, TimeOut, At
    <3>3. QED
      BY <3>1, <3>2
  <2>2. CASE tag # "partial"
    <3>1. PICK w \in Writers : CreateTag(w) /\ tag = "absent"
      BY <1>4, <2>2, StepsOnRoot DEF CreateTag, WriteTag
    <3>2. QED
      BY <3>1 DEF CreateTag, Goto, Shape, PcShape, Processes
  <2>3. QED
    BY <2>1, <2>2
<1>5. QED
  BY <1>3, <1>4

\* The strengthened invariant.
LEMMA SoundInvariant == Spec => []Sound
<1>1. Init => Sound
  BY InitSound
<1>2. Sound /\ [Next]_vars => Sound'
  <2>1. ASSUME Sound, [Next]_vars PROVE Sound'
    BY <2>1, NextShape, StepRootShape, StepOrderly DEF Sound
  <2>2. QED
    BY <2>1
<1>3. QED
  BY <1>1, <1>2, PTL DEF Spec

\* A directory in which somebody else keeps data, and which pydocfmt has not
\* tagged, is not tagged later: neither by a writer that looked before the data
\* came and waits for the lock, nor by one that is about to look.
THEOREM DataStaysTheirs == Spec => NeverClaimsData
<1>1. ASSUME Sound, [Next]_vars, SomebodyElses PROVE SomebodyElses'
  <2>. USE <1>1 DEF Sound
  <2>1. root' = "directory" /\ unrelated'
    BY StepsOnRoot, NextShape DEF SomebodyElses, Shape, DataShape
  <2>2. tag' = tag
    <3>1. \A w \in Writers : ~CreateTag(w)
      BY WritersHold DEF SomebodyElses, CreateTag, At, Locked
    <3>2. \A w \in Writers : ~WriteTag(w)
      BY DEF SomebodyElses, WriteTag, At, RootShape
    <3>3. QED
      BY <3>1, <3>2, StepsOnRoot
  <2>3. ASSUME NEW w \in Writers, holder' = w, pc'[w] \in {"make", "tag"} PROVE FALSE
    <3>1. CASE pc'[w] = pc[w]
      <4>1. holder # w
        BY <2>3, <3>1 DEF SomebodyElses
      <4>2. PICK p \in Processes : Acquire(p)
        BY <2>3, <4>1, OnlyAcquireTakes DEF Processes
      <4>3. QED
        BY <2>3, <3>1, <4>2 DEF Acquire, At, Shape, PcShape, Processes
    <3>2. CASE pc'[w] # pc[w]
      <4>1. ~Claimable /\ ~Owned /\ root = "directory"
        BY DEF SomebodyElses, Claimable, Owned
      <4>2. CASE InspectRoot(w) \/ InspectChildren(w) \/ MakeRoot(w)
        BY <2>3, <4>1, <4>2 DEF InspectRoot, InspectChildren, MakeRoot, Goto, Leave, At, SomebodyElses,
           Shape, PcShape, Processes
      <4>3. CASE \/ CreateTag(w) \/ WriteTag(w) \/ MakeVersion(w) \/ OpenDatabase(w) \/ MoveMember(w)
                 \/ MoveFails(w) \/ RollBack(w) \/ Retain(w) \/ CreateDatabase(w) \/ InitializeSchema(w)
                 \/ Store(w) \/ Tidy(w)
        BY <2>3, <4>3 DEF CreateTag, WriteTag, MakeVersion, OpenDatabase, MoveMember, MoveFails, RollBack,
           Retain, CreateDatabase, InitializeSchema, Store, Tidy, Goto, Leave, Shape, PcShape, DataShape,
           Processes
      <4>4. CASE \/ CheckLockable(w) \/ Recheck(w) \/ Acquire(w) \/ TimeOut(w) \/ OperationFails(w) \/ Die(w)
        BY <2>3, <4>4 DEF CheckLockable, Recheck, Acquire, TimeOut, OperationFails, Die, Goto, Leave,
           Shape, PcShape, Processes
      <4>5. QED
        BY <3>2, <4>2, <4>3, <4>4, OthersStay DEF WriterStep
    <3>3. QED
      BY <3>1, <3>2
  <2>4. QED
    BY <2>1, <2>2, <2>3 DEF SomebodyElses
<1>2. ASSUME UNCHANGED vars, SomebodyElses PROVE SomebodyElses'
  BY <1>2 DEF SomebodyElses, vars, rootVars
<1>3. Sound /\ [Next]_vars => [SomebodyElses => SomebodyElses']_vars
  BY <1>1, <1>2
<1>4. QED
  BY <1>3, SoundInvariant, PTL DEF Spec, NeverClaimsData

\* A writer that gets the lock of an undisturbed root never gives up: whatever
\* any number of other writers and cleaners did before, it stores.
THEOREM LockIsEnough == Spec => LockedWriterStores
<1>1. ASSUME Sound, [Next]_vars, NEW w \in Writers, holder = w, pc'[w] = "failed"
      PROVE  Disturbed'
  <2>. USE <1>1 DEF Sound
  <2>1. SUFFICES ASSUME ~Disturbed' PROVE FALSE
    OBVIOUS
  <2>2. ~Disturbed
    BY <2>1, DisturbedStays
  <2>3. pc[w] \in Locked \cup {"inspect", "claim", "make"} /\ pc'[w] # pc[w]
    BY DEF Shape, PcShape, Processes, Locked
  <2>4. CASE InspectRoot(w) \/ MakeRoot(w)
    BY <2>2, <2>4 DEF InspectRoot, MakeRoot, Goto, Shape, PcShape, DataShape, Processes, Disturbed
  <2>5. CASE InspectChildren(w)
    <3>1. root = "directory" /\ At(w, "claim")
      BY <2>5 DEF InspectChildren, RootShape, At
    <3>2. Claimable \/ tag = "exact"
      <4>1. tag # "partial"
        BY <2>2, <3>1, WritersHold DEF Orderly, At, Locked
      <4>2. QED
        BY <2>2, <3>1, <4>1 DEF Orderly, Claimable, Disturbed, Shape, DataShape
    <3>3. tag # "exact"
      BY <3>1 DEF RootShape, At
    <3>4. Goto(w, "make")
      BY <2>5, <3>2, <3>3 DEF InspectChildren
    <3>5. QED
      BY <3>4 DEF Goto, Shape, PcShape, Processes
  <2>6. CASE CreateTag(w)
    <3>1. tag \notin {"partial", "foreign"}
      BY <2>2, <2>6, WritersHold DEF Orderly, CreateTag, At, Locked, Disturbed
    <3>2. QED
      BY <2>6, <3>1 DEF CreateTag, Goto, Shape, PcShape, DataShape, Processes
  <2>7. CASE MakeVersion(w)
    BY <2>2, <2>7 DEF MakeVersion, Goto, Shape, PcShape, Processes, Disturbed, Versions
  <2>8. CASE RollBack(w)
    BY <2>2, <2>8, CacheDirectoryAssumption DEF RollBack, At, RootShape, Disturbed
  <2>9. CASE \/ WriteTag(w) \/ OpenDatabase(w) \/ MoveMember(w) \/ MoveFails(w) \/ Retain(w)
             \/ CreateDatabase(w) \/ InitializeSchema(w) \/ Store(w) \/ Tidy(w)
    BY <2>9 DEF WriteTag, OpenDatabase, MoveMember, MoveFails, Retain, CreateDatabase, InitializeSchema,
       Store, Tidy, Goto, Leave, Shape, PcShape, Processes
  <2>10. CASE OperationFails(w)
    BY <2>1, <2>10, FailureDisturbs DEF Processes
  <2>11. CASE CheckLockable(w) \/ Recheck(w) \/ Acquire(w) \/ TimeOut(w) \/ Die(w)
    BY <2>3, <2>11 DEF CheckLockable, Recheck, Acquire, TimeOut, Die, Leave, At, Locked, Shape, PcShape,
       Processes
  <2>12. QED
    BY <2>3, <2>4, <2>5, <2>6, <2>7, <2>8, <2>9, <2>10, <2>11, OthersStay DEF WriterStep
<1>2. Sound /\ [Next]_vars =>
        [\A w \in Writers : holder = w /\ pc'[w] = "failed" => Disturbed']_vars
  BY <1>1
<1>3. QED
  BY <1>2, SoundInvariant, PTL DEF Spec, LockedWriterStores

\* A single failing file operation, at any member of the group, leaves the
\* group whole, either where it was or in quarantine.
THEOREM QuarantineIsWhole == Spec => QuarantineWhole
<1>1. ASSUME Sound, [Next]_vars, NEW w \in Writers, pc[w] \in {"move", "rollback"},
             pc'[w] \notin {"move", "rollback", "dead"}, faults' <= 1
      PROVE  live' = {} \/ groups'[w].members = {}
  <2>. USE <1>1 DEF Sound
  <2>1. CASE MoveMember(w)
    BY <2>1 DEF MoveMember, Goto, Shape, PcShape, Processes
  <2>2. CASE RollBack(w)
    <3>1. ~FileFails
      BY <2>2, CacheDirectoryAssumption DEF RollBack, FileFails, At, RootShape, Shape, DataShape
    <3>2. groups' = [groups EXCEPT ![w].members = @ \ groups[w].members]
      BY <2>2, <3>1 DEF RollBack, MovedBack
    <3>3. QED
      BY <3>2 DEF Shape, DataShape, Names
  <2>3. CASE MoveFails(w) \/ Die(w)
    BY <2>3 DEF MoveFails, Die, Goto, Leave, Shape, PcShape, Processes
  <2>4. QED
    BY <2>1, <2>2, <2>3, OthersStay DEF WriterStep, InspectRoot, InspectChildren, MakeRoot, CreateTag,
       WriteTag, MakeVersion, OpenDatabase, Retain, CreateDatabase, InitializeSchema, Store, Tidy,
       CheckLockable, Recheck, Acquire, TimeOut, OperationFails, At
<1>2. Sound /\ [Next]_vars =>
        [\A w \in Writers :
            /\ pc[w] \in {"move", "rollback"}
            /\ pc'[w] \notin {"move", "rollback", "dead"}
            /\ faults' <= 1
            => live' = {} \/ groups'[w].members = {}]_vars
  BY <1>1
<1>3. QED
  BY <1>2, SoundInvariant, PTL DEF Spec, QuarantineWhole
=============================================================================
