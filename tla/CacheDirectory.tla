---------------------------- MODULE CacheDirectory ----------------------------
(***************************************************************************)
(* cache/directory.py and CacheStore.commit: how writers and pydocfmt      *)
(* clean claim, lock, lay out, repair and empty one cache root.            *)
(*                                                                         *)
(* Before the lock everything may happen between any two looks at the      *)
(* root; under it the file system still fails and processes still die.    *)
(* Left out: .gitignore, which comes after the tag and which nothing reads, *)
(* and symlinks, which every look refuses like any other odd entry.        *)
(***************************************************************************)
EXTENDS Naturals, FiniteSets

CONSTANTS
    Writers,      \* invocations with something to store
    Cleaners,     \* pydocfmt clean
    OldGroups,    \* quarantine groups of former runs
    MaxGroups,    \* max_count, 3 in the code
    MaxAge,       \* max_age_days, 30 in the code
    MaxFaults,    \* bound on failing file operations
    LastDay,      \* bound on the days explored
    None

Processes == Writers \cup Cleaners

Days == 0..LastDay

\* The version directory of this program, and another program's.
Versions == {1, 2}

\* Members of the database group, in the order quarantine moves them.
Members == {"db", "wal", "shm"}
MoveOrder == [db |-> 1, wal |-> 2, shm |-> 3]

\* A quarantine group is named after the process that moved it.
Names == OldGroups \cup Writers

ASSUME CacheDirectoryAssumption ==
    /\ IsFiniteSet(Writers) /\ IsFiniteSet(Cleaners) /\ IsFiniteSet(OldGroups)
    /\ MaxGroups \in Nat /\ MaxAge \in Nat /\ MaxFaults \in Nat /\ LastDay \in Nat
    /\ None \notin Processes /\ Writers \cap Cleaners = {}

VARIABLES
    root,       \* absent, directory or other
    tag,        \* absent, partial, exact or foreign
    lockFile,   \* the lock file is there
    unrelated,  \* the root has entries that are not pydocfmt's
    versions,   \* absent, directory or other, per version
    live,       \* members of the live database group
    usable,     \* the live database is one this program can use
    dbDay,      \* day the live database was last modified
    groups,     \* members and day of modification, per group
    holder,     \* process that holds the mutation lock
    pc,         \* next step of each process
    faults,     \* failed file operations so far
    today

rootVars == <<root, tag, lockFile, versions>>
dataVars == <<live, usable, dbDay, groups>>
vars     == <<rootVars, dataVars, unrelated, holder, pc, faults, today>>

Gone == [members |-> {}, day |-> 0]

Ended == {"stored", "cleaned", "failed", "dead"}

\* Steps that only the holder of the lock takes.
Locked == {"tag", "write", "version", "open", "move", "rollback", "retain", "create",
           "initialize", "store", "tidy", "verify", "remove"}

Steps ==
    {"inspect", "claim", "make", "lock", "recheck", "acquire", "clean"} \cup Locked \cup Ended

\* Types, and the lock: its holder is at work, and nobody works without it.
TypeOK ==
    /\ root \in {"absent", "directory", "other"}
    /\ tag \in {"absent", "partial", "exact", "foreign"}
    /\ lockFile \in BOOLEAN /\ unrelated \in BOOLEAN /\ usable \in BOOLEAN
    /\ versions \in [Versions -> {"absent", "directory", "other"}]
    /\ live \subseteq Members
    /\ dbDay \in Days
    /\ groups \in [Names -> [members : SUBSET Members, day : Days]]
    /\ holder \in Processes \cup {None}
    /\ pc \in [Processes -> Steps]
    /\ \A p \in Processes :
         /\ pc[p] \in Locked => holder = p
         /\ holder = p => pc[p] \in Locked \cup {"inspect", "claim", "make"}
    /\ faults \in 0..MaxFaults /\ today \in Days

-----------------------------------------------------------------------------
\* No root, a root that cannot be used, an empty one, somebody else's, or one
\* that pydocfmt used before.
Init ==
    /\ today \in Days
    /\ \/ root \in {"absent", "other"} /\ tag = "absent" /\ unrelated = FALSE /\ lockFile = FALSE
       \/ root = "directory" /\ tag \in {"absent", "foreign"} /\ unrelated \in BOOLEAN /\ lockFile = FALSE
       \/ root = "directory" /\ tag = "exact" /\ unrelated \in BOOLEAN /\ lockFile = TRUE
    /\ versions \in [Versions -> IF tag = "exact" THEN {"absent", "directory", "other"} ELSE {"absent"}]
    /\ live \in IF versions[1] = "directory" THEN {{}, {"db"}, Members} ELSE {{}}
    /\ usable \in {FALSE, live # {}} /\ dbDay \in {d \in Days : d <= today}
    /\ groups \in [Names -> {Gone} \cup [members : {Members}, day : {d \in Days : d <= today}]]
    /\ \A g \in Names : groups[g] # Gone => g \in OldGroups /\ versions[1] = "directory"
    /\ holder = None /\ faults = 0
    /\ pc = [p \in Processes |-> IF p \in Writers THEN "inspect" ELSE "clean"]

-----------------------------------------------------------------------------
Goto(p, step) == pc' = [pc EXCEPT ![p] = step] /\ UNCHANGED holder

\* Leaving the with block releases the lock; so does the system for the dead.
Leave(p, result) ==
    /\ pc' = [pc EXCEPT ![p] = result]
    /\ holder' = IF holder = p THEN None ELSE holder

At(p, step) == pc[p] = step

FileFails == faults < MaxFaults /\ faults' = faults + 1

\* cache_root_is_owned
Owned == root = "directory" /\ tag = "exact"

\* Mutant: a root with a lock file in it is taken for one of ours.
LockedIsClaimable ==
    /\ root = "directory" /\ tag = "absent"
    /\ lockFile \/ ~unrelated

\* _cache_root_is_claimable: nothing is there but perhaps the lock file.
Claimable ==
    /\ root = "directory" /\ tag = "absent" /\ ~unrelated
    /\ \A v \in Versions : versions[v] = "absent"

-----------------------------------------------------------------------------
(* prepare_cache_root_for_lock, before the lock and again under it         *)

InspectRoot(w) ==
    /\ At(w, "inspect")
    /\ CASE root = "other"              -> Leave(w, "failed")
         [] root = "absent" \/ Owned    -> Goto(w, "make")
         [] root = "directory" /\ ~Owned -> Goto(w, "claim")
    /\ UNCHANGED <<rootVars, dataVars, unrelated, faults, today>>

InspectChildren(w) ==
    /\ At(w, "claim")
    /\ IF Claimable THEN Goto(w, "make") ELSE Leave(w, "failed")
    /\ UNCHANGED <<rootVars, dataVars, unrelated, faults, today>>

MakeRoot(w) ==
    /\ At(w, "make")
    /\ root' = IF root = "absent" THEN "directory" ELSE root
    /\ Goto(w, IF holder = w THEN "tag" ELSE "lock")
    /\ UNCHANGED <<tag, lockFile, versions, dataVars, unrelated, faults, today>>

-----------------------------------------------------------------------------
(* mutation_lock and its acquisition                                       *)

CheckLockable(p) ==
    /\ At(p, "lock")
    /\ Goto(p, IF Owned \/ (p \in Writers /\ Claimable) THEN "acquire" ELSE "recheck")
    /\ UNCHANGED <<rootVars, dataVars, unrelated, faults, today>>

Recheck(p) ==
    /\ At(p, "recheck")
    /\ IF tag = "exact" THEN Goto(p, "acquire") ELSE Leave(p, "failed")
    /\ UNCHANGED <<rootVars, dataVars, unrelated, faults, today>>

Acquire(p) ==
    /\ At(p, "acquire") /\ holder = None
    /\ holder' = p
    /\ lockFile' = TRUE
    /\ pc' = [pc EXCEPT ![p] = IF p \in Writers THEN "inspect" ELSE "verify"]
    /\ UNCHANGED <<root, tag, versions, dataVars, unrelated, faults, today>>

TimeOut(p) ==
    /\ At(p, "acquire") /\ holder # None
    /\ Leave(p, "failed")
    /\ UNCHANGED <<rootVars, dataVars, unrelated, faults, today>>

-----------------------------------------------------------------------------
(* ensure_cache_layout, under the lock                                     *)

\* Mutant: an existing marker is an error.
CreateNewTag(w) ==
    /\ At(w, "tag")
    /\ tag' = IF tag = "absent" THEN "partial" ELSE tag
    /\ IF tag = "absent" THEN Goto(w, "write") ELSE Leave(w, "failed")
    /\ UNCHANGED <<root, lockFile, versions, dataVars, unrelated, faults, today>>

\* The marker is created empty, then written; an existing one is left alone
\* and must be the exact one.
CreateTag(w) ==
    /\ At(w, "tag")
    /\ tag' = IF tag = "absent" THEN "partial" ELSE tag
    /\ CASE tag = "absent" -> Goto(w, "write")
         [] tag = "exact"  -> Goto(w, "version")
         [] tag \in {"partial", "foreign"} -> Leave(w, "failed")
    /\ UNCHANGED <<root, lockFile, versions, dataVars, unrelated, faults, today>>

WriteTag(w) ==
    /\ At(w, "write")
    /\ tag' = "exact"
    /\ Goto(w, "version")
    /\ UNCHANGED <<root, lockFile, versions, dataVars, unrelated, faults, today>>

MakeVersion(w) ==
    /\ At(w, "version")
    /\ versions' = [versions EXCEPT ![1] = IF @ = "absent" THEN "directory" ELSE @]
    /\ IF versions[1] = "other" THEN Leave(w, "failed") ELSE Goto(w, "open")
    /\ UNCHANGED <<root, tag, lockFile, dataVars, unrelated, faults, today>>

-----------------------------------------------------------------------------
(* _open_current_writable_database                                         *)

\* Opening creates the sidecars; checkpointing an incompatible database may
\* drop them again.
OpenDatabase(w) ==
    /\ At(w, "open")
    /\ \/ "db" \in live /\ usable /\ live' = Members /\ Goto(w, "store")
       \/ "db" \in live /\ ~usable /\ live' \in {live, {"db"}} /\ Goto(w, "move")
       \/ "db" \notin live /\ UNCHANGED live /\ Goto(w, "create")
    /\ UNCHANGED <<rootVars, usable, dbDay, groups, unrelated, faults, today>>

\* quarantine_database: member after member, keeping the modification times.
MoveMember(w) ==
    /\ At(w, "move")
    /\ \E m \in live :
         /\ \A n \in live : MoveOrder[m] <= MoveOrder[n]
         /\ live' = live \ {m}
         /\ groups' = [groups EXCEPT ![w] = [members |-> @.members \cup {m},
                                             day |-> dbDay]]
    /\ Goto(w, IF live' = {} THEN "retain" ELSE "move")
    /\ UNCHANGED <<rootVars, usable, dbDay, unrelated, faults, today>>

MoveFails(w) ==
    /\ At(w, "move")
    /\ FileFails
    /\ Goto(w, "rollback")
    /\ UNCHANGED <<rootVars, dataVars, unrelated, today>>

\* Mutant: the first member stays where it was moved.
MovedBackButFirst(w) == groups[w].members \ {"db"}

MovedBack(w) == groups[w].members

\* What cannot be moved back stays in quarantine.
RollBack(w) ==
    /\ At(w, "rollback")
    /\ \E back \in SUBSET MovedBack(w) :
         /\ live' = live \cup back
         /\ groups' = [groups EXCEPT ![w].members = @ \ back]
         /\ \/ back = MovedBack(w) /\ UNCHANGED faults
            \/ back # MovedBack(w) /\ FileFails
    /\ Leave(w, "failed")
    /\ UNCHANGED <<rootVars, usable, dbDay, unrelated, today>>

\* prune_quarantine_files keeps the newest groups that are not too old, by
\* their modification times; where those agree, any.
Present == {g \in Names : groups[g].members # {}}

Recent(g) == groups[g].day + MaxAge >= today

Keeps(kept) ==
    /\ kept \subseteq {g \in Present : Recent(g)}
    /\ Cardinality(kept) <= MaxGroups
    /\ \A g \in Present \ kept :
         Recent(g) => /\ Cardinality(kept) = MaxGroups
                      /\ \A k \in kept : groups[k].day >= groups[g].day

\* An unlink that fails is ignored and ends the pruning.
RetainGroups ==
    \E kept \in SUBSET Present :
        /\ Keeps(kept)
        /\ \/ /\ groups' = [g \in Names |-> IF g \in kept THEN groups[g] ELSE Gone]
              /\ UNCHANGED faults
           \/ \E g \in Present \ kept, left \in SUBSET Members, done \in SUBSET (Present \ kept) :
                /\ left # {} /\ left \subseteq groups[g].members
                /\ groups' = [h \in Names |->
                                 CASE h = g -> [groups[g] EXCEPT !.members = left]
                                   [] h # g /\ h \in done -> Gone
                                   [] h # g /\ h \notin done -> groups[h]]
                /\ FileFails

Retain(w) ==
    /\ At(w, "retain")
    /\ RetainGroups
    /\ Goto(w, "create")
    /\ UNCHANGED <<rootVars, live, usable, dbDay, unrelated, today>>

\* SQLite creates an empty file, and drops sidecars that are not its own.
CreateDatabase(w) ==
    /\ At(w, "create")
    /\ live' = {"db"} /\ usable' = FALSE /\ dbDay' = today
    /\ Goto(w, "initialize")
    /\ UNCHANGED <<rootVars, groups, unrelated, faults, today>>

InitializeSchema(w) ==
    /\ At(w, "initialize")
    /\ usable' = TRUE /\ live' = Members
    /\ Goto(w, "store")
    /\ UNCHANGED <<rootVars, dbDay, groups, unrelated, faults, today>>

-----------------------------------------------------------------------------
(* _commit_locked: the transaction, daily pruning, closing                 *)

Store(w) ==
    /\ At(w, "store")
    /\ dbDay' = today
    /\ \/ Goto(w, "tidy") /\ UNCHANGED live
       \/ Leave(w, "stored") /\ live' = {"db"}
    /\ UNCHANGED <<rootVars, usable, groups, unrelated, faults, today>>

Tidy(w) ==
    /\ At(w, "tidy")
    /\ RetainGroups
    /\ live' = {"db"}
    /\ Leave(w, "stored")
    /\ UNCHANGED <<rootVars, usable, dbDay, unrelated, today>>

WriterStep(w) ==
    \/ InspectRoot(w) \/ InspectChildren(w) \/ MakeRoot(w)
    \/ CreateTag(w) \/ WriteTag(w) \/ MakeVersion(w)
    \/ OpenDatabase(w) \/ MoveMember(w) \/ MoveFails(w) \/ RollBack(w) \/ Retain(w)
    \/ CreateDatabase(w) \/ InitializeSchema(w) \/ Store(w) \/ Tidy(w)

-----------------------------------------------------------------------------
(* clean_cache                                                             *)

\* A missing root is nothing to clean; only an exact tag makes it ours.
StartCleaning(c) ==
    /\ At(c, "clean")
    /\ CASE root = "absent" -> Leave(c, "cleaned")
         [] Owned           -> Goto(c, "lock")
         [] root # "absent" /\ ~Owned -> Leave(c, "failed")
    /\ UNCHANGED <<rootVars, dataVars, unrelated, faults, today>>

VerifyTag(c) ==
    /\ At(c, "verify")
    /\ IF tag = "exact" THEN Goto(c, "remove") ELSE Leave(c, "failed")
    /\ UNCHANGED <<rootVars, dataVars, unrelated, faults, today>>

\* The version directories in the order of their names.
RemoveVersion(c) ==
    /\ At(c, "remove")
    /\ \E v \in Versions :
         /\ versions[v] # "absent" /\ \A u \in Versions : u < v => versions[u] = "absent"
         /\ IF versions[v] = "other"
            THEN /\ Leave(c, "failed")
                 /\ UNCHANGED <<versions, live, groups, faults>>
            ELSE \/ /\ versions' = [versions EXCEPT ![v] = "absent"]
                    /\ live' = IF v = 1 THEN {} ELSE live
                    /\ groups' = IF v = 1 THEN [g \in Names |-> Gone] ELSE groups
                    /\ Goto(c, "remove")
                    /\ UNCHANGED faults
                 \/ /\ FileFails
                    /\ \E kept \in SUBSET live, lost \in SUBSET Names :
                         IF v = 1
                         THEN /\ live' = kept
                              /\ groups' = [g \in Names |-> IF g \in lost THEN Gone ELSE groups[g]]
                         ELSE UNCHANGED <<live, groups>>
                    /\ Leave(c, "failed")
                    /\ UNCHANGED versions
    /\ UNCHANGED <<root, tag, lockFile, usable, dbDay, unrelated, today>>

FinishCleaning(c) ==
    /\ At(c, "remove")
    /\ \A v \in Versions : versions[v] = "absent"
    /\ Leave(c, "cleaned")
    /\ UNCHANGED <<rootVars, dataVars, unrelated, faults, today>>

CleanerStep(c) == StartCleaning(c) \/ VerifyTag(c) \/ RemoveVersion(c) \/ FinishCleaning(c)

-----------------------------------------------------------------------------
(* Failing operations, and what happens around the program              *)

\* Any other operation may fail; the commit, or the cleaning, is given up.
OperationFails(p) ==
    /\ pc[p] \notin Ended \cup {"move", "rollback", "retain", "tidy", "remove"}
    /\ FileFails
    /\ Leave(p, "failed")
    /\ UNCHANGED <<rootVars, dataVars, unrelated, today>>

Die(p) ==
    /\ pc[p] \notin Ended
    /\ Leave(p, "dead")
    /\ UNCHANGED <<rootVars, dataVars, unrelated, faults, today>>

\* Somebody keeps other data in the root.
AddUnrelated ==
    /\ root = "directory" /\ ~unrelated
    /\ unrelated' = TRUE
    /\ UNCHANGED <<rootVars, dataVars, holder, pc, faults, today>>

\* The database is damaged, or was left by a program with another schema.
SpoilDatabase ==
    /\ "db" \in live /\ usable /\ holder = None
    /\ usable' = FALSE
    /\ UNCHANGED <<rootVars, live, dbDay, groups, unrelated, holder, pc, faults, today>>

NextDay ==
    /\ today + 1 \in Days
    /\ today' = today + 1
    /\ UNCHANGED <<rootVars, dataVars, unrelated, holder, pc, faults>>

Next ==
    \/ \E w \in Writers : WriterStep(w)
    \/ \E c \in Cleaners : CleanerStep(c)
    \/ \E p \in Processes :
         \/ CheckLockable(p) \/ Recheck(p) \/ Acquire(p) \/ TimeOut(p)
         \/ OperationFails(p) \/ Die(p)
    \/ AddUnrelated \/ SpoilDatabase \/ NextDay

Spec == Init /\ [][Next]_vars

-----------------------------------------------------------------------------
(* Properties                                                              *)

\* A directory that holds other people's data stays theirs: once it is there,
\* no writer gets as far as tagging it.  Only data that appears after the last
\* look of the writer with the lock can end up in a root that pydocfmt tags.
SomebodyElses ==
    /\ root = "directory" /\ unrelated /\ tag \in {"absent", "foreign"}
    /\ \A w \in Writers : ~(holder = w /\ pc[w] \in {"make", "tag"})

NeverClaimsData == [][SomebodyElses => SomebodyElses']_vars

\* Something besides running writers and cleaners has happened to the root.
Disturbed ==
    \/ faults > 0 \/ unrelated \/ tag = "foreign" \/ root = "other"
    \/ \E v \in Versions : versions[v] = "other"
    \/ \E p \in Processes : pc[p] = "dead"

\* Whoever got the lock stores: nothing that other writers, who may be half
\* way through claiming the same root, or a cleaner do makes it fail.
LockedWriterStores ==
    [][\A w \in Writers : holder = w /\ pc'[w] = "failed" => Disturbed']_vars

\* One failing file operation does not split a database group: when the
\* quarantine is over, its members are all moved or all where they were.
QuarantineWhole ==
    [][\A w \in Writers :
          /\ pc[w] \in {"move", "rollback"}
          /\ pc'[w] \notin {"move", "rollback", "dead"}
          /\ faults' <= 1
          => live' = {} \/ groups'[w].members = {}]_vars
=============================================================================
