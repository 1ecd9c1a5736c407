---------------------------- MODULE FileSelection ----------------------------
(***************************************************************************)
(* Which files an invocation works on (file_selection.py).  The command    *)
(* line names files and directories; directories are walked, and what they *)
(* hold is filtered by patterns and by Git; then the spellings of one      *)
(* physical file are reduced to the clearest of them.  Files may disappear *)
(* at any time.                                                            *)
(*                                                                         *)
(* A path is a spelling.  What settings and Git say of it does not change  *)
(* during a run (a resolver is a snapshot) and is drawn with the command   *)
(* line in the initial state.                                              *)
(***************************************************************************)
EXTENDS Naturals, Sequences

CONSTANTS
    Directories, Paths,  \* spellings of directories, and of anything else
    Files,               \* physical files: device and inode
    Missing,             \* physical files that do not exist
    SubDirectories,      \* sorted directories that a directory lists
    Entries,             \* sorted other entries it lists, but .git
    Links,               \* directories that are symlinks
    Physical,            \* the file that a spelling opens
    DisplayPath,         \* its absolute, lexically normalized spelling
    Score,               \* _display_path_score: smaller is clearer, injective
    CommandLines,        \* arguments that may be given
    Policies             \* answers of settings and Git that may be met

\* broken: directories and paths whose settings cannot be used.
\* roots: excluded as an argument.  pruned: excluded where they are listed.
\* forced: paths whose settings say force-exclude.  cache: the safe cache
\* root, unless it is not owned and cannot be claimed.
Policy == [broken : SUBSET (Directories \cup Paths), roots : SUBSET Directories,
           pruned : SUBSET Directories, cache : SUBSET Directories,
           included : SUBSET Paths, excluded : SUBSET Paths, forced : SUBSET Paths,
           worktree : SUBSET Paths, ignored : SUBSET Paths, respect : BOOLEAN]

ASSUME FileSelectionAssumption ==
    /\ Directories \cap Paths = {}
    /\ Missing \subseteq Files /\ Links \subseteq Directories
    /\ SubDirectories \in [Directories -> Seq(Directories)]
    /\ Entries \in [Directories -> Seq(Paths)]
    /\ Physical \in [Paths -> Files] /\ DisplayPath \in [Paths -> Paths]
    /\ Score \in [Paths -> Nat]
    /\ CommandLines \subseteq Seq(Directories \cup Paths)
    /\ Policies \subseteq Policy

VARIABLES
    policy,      \* the policy of the run
    arguments,   \* its command line
    present,     \* physical files that exist
    phase,       \* where the run is
    taken,       \* number of arguments collected
    walk,        \* directories os.walk has yet to yield; the first is being read
    unread,      \* its subdirectories not yet looked at, once it is yielded
    kept,        \* those of them that are not pruned
    collected,   \* candidates and decisions, in order
    decisions,   \* those that went through deduplication
    acceptedBy   \* position of the accepted decision of a file, or 0

vars == <<policy, arguments, present, phase, taken, walk, unread, kept, collected, decisions, acceptedBy>>

walkVars == <<taken, walk, unread, kept>>
setting  == <<policy, arguments>>

Reasons == {"candidate", "included", "explicit-included", "not-included", "excluded", "gitignored",
            "duplicate", "cache-directory"}

\* FileDecision; a _Candidate is one with its reason open.
Decisions == [path : Directories \cup Paths, reason : Reasons, explicit : BOOLEAN]

Phases == {"collecting", "walking", "reading", "evaluating", "filtering", "deduplicating", "done", "failed"}

Accepted(d) == d.reason \in {"included", "explicit-included"}

\* Directories are only ever rejected.
WellFormed(d) == Accepted(d) \/ d.reason = "candidate" => d.path \in Paths

\* Types of the state; a file passes deduplication at its place in the stream.
TypeOK ==
    /\ policy \in Policy /\ arguments \in Seq(Directories \cup Paths)
    /\ present \subseteq Files
    /\ phase \in Phases
    /\ taken \in 0..Len(arguments)
    /\ walk \in Seq(Directories) /\ unread \in Seq(Directories) /\ kept \in Seq(Directories)
    /\ collected \in Seq(Decisions) /\ decisions \in Seq(Decisions)
    /\ Len(decisions) <= Len(collected)
    /\ acceptedBy \in [Files -> 0..Len(decisions)]
    /\ \A n \in DOMAIN collected : WellFormed(collected[n])

-----------------------------------------------------------------------------
Init ==
    /\ policy \in Policies
    /\ arguments \in CommandLines
    /\ present = Files \ Missing
    /\ phase = "collecting" /\ taken = 0
    /\ walk = <<>> /\ unread = <<>> /\ kept = <<>>
    /\ collected = <<>> /\ decisions = <<>>
    /\ acceptedBy = [f \in Files |-> 0]

Candidate(p, explicit) == [path |-> p, reason |-> "candidate", explicit |-> explicit]

Decided(p, reason, explicit) == [path |-> p, reason |-> reason, explicit |-> explicit]

Argument == arguments[taken + 1]

Collecting ==
    /\ phase = "collecting"
    /\ taken < Len(arguments)
    /\ Argument \notin policy.broken
    /\ taken' = taken + 1
    /\ UNCHANGED <<setting, present, unread, kept, decisions, acceptedBy>>

CollectFile ==
    /\ Collecting
    /\ Argument \in Paths
    /\ collected' = Append(collected, Candidate(Argument, TRUE))
    /\ UNCHANGED <<phase, walk>>

\* The exclude patterns of its own settings, or those forced, match it.
RejectRoot ==
    /\ Collecting
    /\ Argument \in policy.roots
    /\ collected' = Append(collected, Decided(Argument, "excluded", TRUE))
    /\ UNCHANGED <<phase, walk>>

WalkRoot ==
    /\ Collecting
    /\ Argument \in Directories \ policy.roots
    /\ walk' = <<Argument>>
    /\ phase' = "walking"
    /\ UNCHANGED collected

\* os.walk yields the next directory and its entries.
EnterDirectory ==
    /\ phase = "walking" /\ walk # <<>>
    /\ Head(walk) \notin policy.broken
    /\ unread' = SubDirectories[Head(walk)]
    /\ kept' = <<>>
    /\ phase' = "reading"
    /\ UNCHANGED <<setting, present, taken, walk, collected, decisions, acceptedBy>>

ReadDirectory ==
    /\ phase = "reading" /\ unread # <<>>
    /\ unread' = Tail(unread)
    /\ UNCHANGED <<setting, present, phase, taken, walk, decisions, acceptedBy>>

PruneDirectory ==
    /\ ReadDirectory
    /\ Head(unread) \in policy.cache \cup policy.pruned
    /\ collected' = Append(collected, Decided(Head(unread),
           IF Head(unread) \in policy.cache THEN "cache-directory" ELSE "excluded", FALSE))
    /\ UNCHANGED kept

\* Mutant: symlinks to directories are followed.
KeepAnyDirectory ==
    /\ ReadDirectory
    /\ Head(unread) \notin policy.cache \cup policy.pruned
    /\ kept' = Append(kept, Head(unread))
    /\ UNCHANGED collected

\* os.walk lists symlinks to directories but does not follow them.
KeepDirectory ==
    /\ ReadDirectory
    /\ Head(unread) \notin policy.cache \cup policy.pruned
    /\ kept' = IF Head(unread) \in Links THEN kept ELSE Append(kept, Head(unread))
    /\ UNCHANGED collected

\* Files come after pruned directories and before what subdirectories hold.
CollectEntries ==
    /\ phase = "reading" /\ unread = <<>>
    /\ LET files == Entries[Head(walk)]
       IN  collected' = collected \o [n \in 1..Len(files) |-> Candidate(files[n], FALSE)]
    /\ walk' = kept \o Tail(walk)
    /\ phase' = "walking"
    /\ UNCHANGED <<setting, present, taken, unread, kept, decisions, acceptedBy>>

EndWalk ==
    /\ phase = "walking" /\ walk = <<>>
    /\ phase' = "collecting"
    /\ UNCHANGED <<setting, present, walkVars, collected, decisions, acceptedBy>>

EndCollection ==
    /\ phase = "collecting" /\ taken = Len(arguments)
    /\ phase' = "evaluating"
    /\ UNCHANGED <<setting, present, walkVars, collected, decisions, acceptedBy>>

\* The settings of a directory or path do not load, or have an empty pattern.
SettingsFail ==
    /\ \/ phase = "collecting" /\ taken < Len(arguments) /\ Argument \in policy.broken
       \/ phase = "walking" /\ walk # <<>> /\ Head(walk) \in policy.broken
    /\ phase' = "failed"
    /\ UNCHANGED <<setting, present, walkVars, collected, decisions, acceptedBy>>

EvaluateCandidate(c) ==
    [c EXCEPT !.reason =
        CASE c.reason # "candidate" -> c.reason
          [] c.reason = "candidate" /\ c.explicit ->
               IF c.path \in policy.forced \cap policy.excluded THEN "excluded" ELSE "explicit-included"
          [] OTHER ->
               IF c.path \notin policy.included THEN "not-included"
               ELSE IF c.path \in policy.excluded THEN "excluded" ELSE "included"]

EvaluateCandidates ==
    /\ phase = "evaluating"
    /\ collected' = [n \in DOMAIN collected |-> EvaluateCandidate(collected[n])]
    /\ phase' = "filtering"
    /\ UNCHANGED <<setting, present, walkVars, decisions, acceptedBy>>

\* Paths for which Git is asked: accepted ones found by walking in a worktree.
Queried ==
    {collected[n].path : n \in {m \in DOMAIN collected :
        /\ Accepted(collected[m]) /\ ~collected[m].explicit
        /\ policy.respect /\ collected[m].path \in policy.worktree}}

ApplyGitignore ==
    /\ phase = "filtering"
    /\ collected' = [n \in DOMAIN collected |->
           IF /\ Accepted(collected[n]) /\ ~collected[n].explicit
              /\ collected[n].path \in Queried \cap policy.ignored
           THEN [collected[n] EXCEPT !.reason = "gitignored"]
           ELSE collected[n]]
    /\ phase' = "deduplicating"
    /\ UNCHANGED <<setting, present, walkVars, decisions, acceptedBy>>

\* Git is missing or reports an error.
GitFails ==
    /\ phase = "filtering" /\ Queried # {}
    /\ phase' = "failed"
    /\ UNCHANGED <<setting, present, walkVars, collected, decisions, acceptedBy>>

Latest == collected[Len(decisions) + 1]

\* The decision as it is shown.
Displayed(d) == IF d.path \in Paths THEN [d EXCEPT !.path = DisplayPath[@]] ELSE d

AsDuplicate(d) == [d EXCEPT !.reason = "duplicate"]

Deduplicating ==
    /\ phase = "deduplicating"
    /\ Len(decisions) < Len(collected)
    /\ UNCHANGED <<setting, present, phase, walkVars, collected>>

\* path_identity_key: os.stat finds the file.
Identified == Accepted(Latest) /\ Physical[Latest.path] \in present

PassOn ==
    /\ Deduplicating
    /\ ~Identified
    /\ decisions' = Append(decisions, Displayed(Latest))
    /\ UNCHANGED acceptedBy

AcceptFirst ==
    /\ Deduplicating
    /\ Identified
    /\ acceptedBy[Physical[Latest.path]] = 0
    /\ decisions' = Append(decisions, Displayed(Latest))
    /\ acceptedBy' = [acceptedBy EXCEPT ![Physical[Latest.path]] = Len(decisions) + 1]

Clearer(d, e) == Score[d.path] < Score[e.path]

\* Mutant: the spelling that is replaced stays accepted.
ReplaceSpellingKeeping ==
    /\ Deduplicating
    /\ Identified
    /\ LET earlier == acceptedBy[Physical[Latest.path]]
       IN  earlier # 0 /\ Clearer(Displayed(Latest), decisions[earlier])
    /\ decisions' = Append(decisions, Displayed(Latest))
    /\ acceptedBy' = [acceptedBy EXCEPT ![Physical[Latest.path]] = Len(decisions) + 1]

\* A clearer spelling takes the place of the accepted one.
ReplaceSpelling ==
    /\ Deduplicating
    /\ Identified
    /\ LET earlier == acceptedBy[Physical[Latest.path]]
       IN  /\ earlier # 0
           /\ Clearer(Displayed(Latest), decisions[earlier])
           /\ decisions' = Append([decisions EXCEPT ![earlier] = AsDuplicate(@)], Displayed(Latest))
           /\ acceptedBy' = [acceptedBy EXCEPT ![Physical[Latest.path]] = Len(decisions) + 1]

\* Mutant: a later spelling is rejected however clear.
RejectLater ==
    /\ Deduplicating
    /\ Identified
    /\ acceptedBy[Physical[Latest.path]] # 0
    /\ decisions' = Append(decisions, AsDuplicate(Displayed(Latest)))
    /\ UNCHANGED acceptedBy

RejectAlias ==
    /\ Deduplicating
    /\ Identified
    /\ LET earlier == acceptedBy[Physical[Latest.path]]
       IN  /\ earlier # 0
           /\ ~Clearer(Displayed(Latest), decisions[earlier])
    /\ decisions' = Append(decisions, AsDuplicate(Displayed(Latest)))
    /\ UNCHANGED acceptedBy

EndDeduplication ==
    /\ phase = "deduplicating" /\ Len(decisions) = Len(collected)
    /\ phase' = "done"
    /\ UNCHANGED <<setting, present, walkVars, collected, decisions, acceptedBy>>

\* Somebody removes a file, under all its names.
Vanish ==
    /\ \E f \in present : present' = present \ {f}
    /\ UNCHANGED <<setting, phase, walkVars, collected, decisions, acceptedBy>>

Next ==
    \/ CollectFile \/ RejectRoot \/ WalkRoot
    \/ EnterDirectory \/ PruneDirectory \/ KeepDirectory \/ CollectEntries \/ EndWalk
    \/ EndCollection \/ SettingsFail
    \/ EvaluateCandidates \/ ApplyGitignore \/ GitFails
    \/ PassOn \/ AcceptFirst \/ ReplaceSpelling \/ RejectAlias \/ EndDeduplication
    \/ Vanish

Spec == Init /\ [][Next]_vars

-----------------------------------------------------------------------------
(* What the documentation promises, without saying how. *)

Members(s) == {s[n] : n \in DOMAIN s}

\* Directories below the arguments that are walked: the least set that holds
\* the walked arguments and what is not pruned in its members.
Walked ==
    LET Closed(dirs) ==
            /\ (Members(arguments) \cap Directories) \ policy.roots \subseteq dirs
            /\ \A d \in dirs : Members(SubDirectories[d]) \ (policy.cache \cup policy.pruned \cup Links) \subseteq dirs
    IN  {d \in Directories : \A dirs \in SUBSET Directories : Closed(dirs) => d \in dirs}

Discovered == UNION {Members(Entries[d]) : d \in Walked}

Explicit == Members(arguments) \cap Paths

\* The decision table of the documentation.
Wanted ==
    (Explicit \ (policy.forced \cap policy.excluded))
    \cup (((Discovered \cap policy.included) \ policy.excluded)
          \ (IF policy.respect THEN policy.worktree \cap policy.ignored ELSE {}))

\* The paths handed to the formatter.
Selected == {decisions[n].path : n \in {m \in DOMAIN decisions : Accepted(decisions[m])}}

\* Lexical normalization of a spelling does not change the file it opens:
\* no ".." follows a symlink to a directory.
NormalizationKeepsFile == \A p \in Paths : Physical[DisplayPath[p]] = Physical[p]

\* The files selected are exactly those that the decision table accepts for
\* some spelling of theirs, whatever the order of the arguments, the overlap
\* of walks and the spellings; an explicit argument is never lost to a
\* gitignored or excluded alias of it (select_files as a whole).
SelectsAsDocumented ==
    phase = "done" =>
        {Physical[p] : p \in Selected} = {Physical[p] : p \in Wanted}

\* No file is selected under two spellings, so that no two workers ever
\* rewrite the same file at once (_deduplicated_decisions).  A file that
\* disappeared on the way cannot be told apart and is not rewritten either.
SelectedOnce ==
    \A m, n \in DOMAIN decisions :
        /\ Accepted(decisions[m]) /\ Accepted(decisions[n])
        /\ Physical[decisions[m].path] = Physical[decisions[n].path]
        /\ Physical[decisions[m].path] \in present
        => m = n

\* A spelling is only given up for one of the same file that stays selected
\* and is at least as clear (_deduplicated_decisions).
ClearestSpellingKept ==
    \A n \in DOMAIN decisions : decisions[n].reason = "duplicate" =>
        \E m \in DOMAIN decisions :
            /\ Accepted(decisions[m])
            /\ Physical[collected[m].path] = Physical[collected[n].path]
            /\ ~Clearer(decisions[n], decisions[m])
=============================================================================
