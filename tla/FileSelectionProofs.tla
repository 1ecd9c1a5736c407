------------------------- MODULE FileSelectionProofs -------------------------
(***************************************************************************)
(* Proofs about FileSelection, for any directory tree, command line and    *)
(* policy.                                                                 *)
(*                                                                         *)
(* Deduplication: the accepted decision of a file is the one acceptedBy    *)
(* points at, and what was rejected for it is no clearer (Dedup).  A file  *)
(* that could not be found is gone for good.                               *)
(***************************************************************************)
EXTENDS FileSelection, SequenceTheorems, TLAPS

\* The file that the n-th collected spelling opens.
FileOf(n) == Physical[collected[n].path]

\* Nothing is deduplicated before everything is collected and filtered.
Order ==
    /\ phase \notin {"deduplicating", "done"} =>
         decisions = <<>> /\ acceptedBy = [f \in Files |-> 0]
    /\ \A n \in DOMAIN collected : collected[n].reason # "duplicate"
    /\ phase = "reading" => walk # <<>>

Dedup ==
    /\ \A n \in DOMAIN decisions :
         /\ Accepted(decisions[n]) \/ decisions[n].reason = "duplicate" => Accepted(collected[n])
         /\ Accepted(collected[n]) => decisions[n].path = DisplayPath[collected[n].path]
    /\ \A f \in Files : acceptedBy[f] # 0 =>
         Accepted(decisions[acceptedBy[f]]) /\ FileOf(acceptedBy[f]) = f
    /\ \A n \in DOMAIN decisions : Accepted(decisions[n]) =>
         n = acceptedBy[FileOf(n)] \/ FileOf(n) \notin present
    /\ \A n \in DOMAIN decisions : decisions[n].reason = "duplicate" =>
         /\ acceptedBy[FileOf(n)] # 0
         /\ ~Clearer(decisions[n], decisions[acceptedBy[FileOf(n)]])

IInv == TypeOK /\ Order /\ Dedup

LEMMA InitIInv == ASSUME Init PROVE IInv
<1>1. TypeOK
  BY FileSelectionAssumption DEF Init, TypeOK, Phases
<1>2. Order /\ Dedup
  BY DEF Init, Order, Dedup
<1>3. QED
  BY <1>1, <1>2 DEF IInv

\* A step that appends something undecided or rejected to the stream.
LEMMA Appending ==
  ASSUME TypeOK, NEW d \in Decisions, WellFormed(d), d.reason # "duplicate", collected' = Append(collected, d)
  PROVE  /\ collected' \in Seq(Decisions) /\ Len(decisions) <= Len(collected')
         /\ \A n \in DOMAIN collected' : WellFormed(collected'[n])
         /\ Order => \A n \in DOMAIN collected' : collected'[n].reason # "duplicate"
<1>1. collected \in Seq(Decisions) /\ decisions \in Seq(Decisions) /\ Len(decisions) <= Len(collected)
  BY DEF TypeOK
<1>2. /\ collected' \in Seq(Decisions) /\ Len(collected') = Len(collected) + 1
      /\ \A n \in DOMAIN collected' : collected'[n] = IF n = Len(collected) + 1 THEN d ELSE collected[n]
      /\ \A n \in DOMAIN collected' : n = Len(collected) + 1 \/ n \in DOMAIN collected
  BY <1>1
<1>3. QED
  BY <1>1, <1>2 DEF TypeOK, Order

\* The next argument is one.
LEMMA ArgumentType ==
  ASSUME TypeOK, Collecting
  PROVE  Argument \in Directories \cup Paths /\ taken' \in 0..Len(arguments)
BY DEF TypeOK, Collecting, Argument

\* The steps of collection, and those that only change phase.
LEMMA CollectionTypes ==
  ASSUME TypeOK, CollectFile \/ RejectRoot \/ WalkRoot \/ EnterDirectory \/ PruneDirectory
                 \/ KeepDirectory \/ EndWalk \/ EndCollection \/ SettingsFail \/ GitFails
                 \/ EndDeduplication \/ Vanish
  PROVE  TypeOK'
<1>1. CASE CollectFile
  <2>1. /\ Candidate(Argument, TRUE) \in Decisions
        /\ WellFormed(Candidate(Argument, TRUE))
        /\ Candidate(Argument, TRUE).reason # "duplicate"
    BY <1>1, ArgumentType DEF CollectFile, Candidate, Decisions, Reasons, Accepted, WellFormed
  <2>2. QED
    BY <1>1, <2>1, Appending, ArgumentType DEF CollectFile, Collecting, TypeOK, setting
<1>2. CASE RejectRoot
  <2>1. /\ Decided(Argument, "excluded", TRUE) \in Decisions
        /\ WellFormed(Decided(Argument, "excluded", TRUE))
        /\ Decided(Argument, "excluded", TRUE).reason # "duplicate"
    BY <1>2, ArgumentType DEF RejectRoot, Decided, Decisions, Reasons, Accepted, WellFormed
  <2>2. QED
    BY <1>2, <2>1, Appending, ArgumentType DEF RejectRoot, Collecting, TypeOK, setting
<1>3. CASE WalkRoot
  BY <1>3, ArgumentType DEF WalkRoot, Collecting, TypeOK, Phases, setting
<1>4. CASE EnterDirectory
  BY <1>4, FileSelectionAssumption DEF EnterDirectory, TypeOK, Phases, setting
<1>5. CASE PruneDirectory
  <2>. DEFINE d == Decided(Head(unread), IF Head(unread) \in policy.cache THEN "cache-directory" ELSE "excluded", FALSE)
  <2>1. Head(unread) \in Directories /\ Tail(unread) \in Seq(Directories)
    BY <1>5 DEF PruneDirectory, ReadDirectory, TypeOK
  <2>2. d \in Decisions /\ WellFormed(d) /\ d.reason # "duplicate"
    BY <2>1 DEF Decided, Decisions, Reasons, Accepted, WellFormed
  <2>3. collected' = Append(collected, d) /\ unread' = Tail(unread) /\ kept' = kept
        /\ UNCHANGED <<setting, present, phase, taken, walk, decisions, acceptedBy>>
    BY <1>5 DEF PruneDirectory, ReadDirectory
  <2>4. QED
    BY <2>1, <2>2, <2>3, Appending DEF TypeOK, setting
<1>6. CASE KeepDirectory
  BY <1>6 DEF KeepDirectory, ReadDirectory, TypeOK, setting
<1>7. CASE EndWalk \/ EndCollection \/ SettingsFail \/ GitFails \/ EndDeduplication \/ Vanish
  BY <1>7 DEF EndWalk, EndCollection, SettingsFail, GitFails, EndDeduplication, Vanish, TypeOK,
              Phases, walkVars, setting
<1>8. QED
  BY <1>1, <1>2, <1>3, <1>4, <1>5, <1>6, <1>7

\* A function on 1..n is a sequence.
LEMMA FunctionSeq ==
  ASSUME NEW S, NEW n \in Nat, NEW f \in [1..n -> S]
  PROVE  f \in Seq(S) /\ Len(f) = n
<1>1. f \in UNION {[1..m -> S] : m \in Nat}
  OBVIOUS
<1>2. f \in Seq(S)
  BY <1>1, SeqDef, Zenon
<1>3. DOMAIN f = 1..n /\ DOMAIN f = 1..Len(f) /\ Len(f) \in Nat
  BY <1>2, LenProperties
<1>4. QED
  BY <1>2, <1>3

\* The files of a directory are appended as candidates.
LEMMA EntriesTypes ==
  ASSUME TypeOK, Order, CollectEntries
  PROVE  TypeOK' /\ \A n \in DOMAIN collected' : collected'[n].reason # "duplicate"
<1>. DEFINE files == Entries[Head(walk)]
            new == [n \in 1..Len(files) |-> Candidate(files[n], FALSE)]
<1>1. Head(walk) \in Directories /\ Tail(walk) \in Seq(Directories)
  BY DEF TypeOK, Order, CollectEntries
<1>2. files \in Seq(Paths) /\ Len(files) \in Nat
  BY <1>1, FileSelectionAssumption
<1>3. \A n \in 1..Len(files) :
        new[n] \in Decisions /\ WellFormed(new[n]) /\ new[n].reason # "duplicate"
  BY <1>2 DEF Candidate, Decisions, Reasons, Accepted, WellFormed
<1>4. new \in Seq(Decisions) /\ Len(new) = Len(files)
  <2>1. new \in [1..Len(files) -> Decisions]
    BY <1>3
  <2>. HIDE DEF new, files
  <2>2. QED
    BY <1>2, <2>1, FunctionSeq
<1>5. collected' = collected \o new
  BY DEF CollectEntries
<1>. HIDE DEF new, files
<1>6. collected \in Seq(Decisions) /\ Len(collected) \in Nat
  BY DEF TypeOK
<1>7. /\ collected' \in Seq(Decisions) /\ Len(collected') = Len(collected) + Len(files)
      /\ \A n \in 1..(Len(collected) + Len(files)) :
           collected'[n] = IF n <= Len(collected) THEN collected[n] ELSE new[n - Len(collected)]
  <2>1. /\ collected \o new \in Seq(Decisions)
        /\ Len(collected \o new) = Len(collected) + Len(new)
        /\ \A n \in 1..(Len(collected) + Len(new)) :
             (collected \o new)[n] = IF n <= Len(collected) THEN collected[n] ELSE new[n - Len(collected)]
    BY <1>4, <1>6, ConcatProperties
  <2>2. QED
    BY <1>4, <1>5, <2>1
<1>8. \A n \in DOMAIN collected' : WellFormed(collected'[n]) /\ collected'[n].reason # "duplicate"
  <2>. SUFFICES ASSUME NEW n \in DOMAIN collected'
                PROVE  WellFormed(collected'[n]) /\ collected'[n].reason # "duplicate"
    OBVIOUS
  <2>1. n \in 1..(Len(collected) + Len(files))
    BY <1>7, LenProperties
  <2>2. CASE n <= Len(collected)
    BY <1>6, <1>7, <2>1, <2>2 DEF TypeOK, Order
  <2>3. CASE ~(n <= Len(collected))
    <3>1. n - Len(collected) \in 1..Len(files)
      BY <1>2, <1>6, <2>1, <2>3
    <3>2. QED
      BY <1>3, <1>7, <2>1, <2>3, <3>1
  <2>4. QED
    BY <2>2, <2>3
<1>9. walk' \in Seq(Directories) /\ phase' = "walking"
      /\ UNCHANGED <<setting, present, taken, unread, kept, decisions, acceptedBy>>
  BY <1>1 DEF CollectEntries, TypeOK
<1>10. Len(decisions') <= Len(collected')
  BY <1>2, <1>6, <1>7, <1>9 DEF TypeOK
<1>11. QED
  BY <1>7, <1>8, <1>9, <1>10 DEF TypeOK, Phases, setting

\* Evaluation and filtering change reasons, and never a rejection.
LEMMA FilterTypes ==
  ASSUME TypeOK, Order, EvaluateCandidates \/ ApplyGitignore
  PROVE  TypeOK' /\ \A n \in DOMAIN collected' : collected'[n].reason # "duplicate"
<1>1. collected \in Seq(Decisions)
  BY DEF TypeOK
<1>2. ASSUME NEW c \in Decisions, WellFormed(c), c.reason # "duplicate"
      PROVE  /\ EvaluateCandidate(c) \in Decisions /\ WellFormed(EvaluateCandidate(c))
             /\ EvaluateCandidate(c).reason # "duplicate"
             /\ Accepted(c) => [c EXCEPT !.reason = "gitignored"] \in Decisions
             /\ WellFormed([c EXCEPT !.reason = "gitignored"])
             /\ [c EXCEPT !.reason = "gitignored"].reason # "duplicate"
  BY <1>2 DEF EvaluateCandidate, Decisions, Reasons, Accepted, WellFormed
<1>3. DOMAIN collected' = DOMAIN collected
  BY DEF EvaluateCandidates, ApplyGitignore
<1>4. \A n \in DOMAIN collected :
        collected'[n] \in Decisions /\ WellFormed(collected'[n]) /\ collected'[n].reason # "duplicate"
  <2>0. \A n \in DOMAIN collected :
          collected[n] \in Decisions /\ WellFormed(collected[n]) /\ collected[n].reason # "duplicate"
    BY <1>1 DEF TypeOK, Order
  <2>1. CASE EvaluateCandidates
    <3>1. \A n \in DOMAIN collected : collected'[n] = EvaluateCandidate(collected[n])
      BY <2>1 DEF EvaluateCandidates
    <3>2. QED
      BY <1>2, <2>0, <3>1
  <2>2. CASE ApplyGitignore
    <3>1. \A n \in DOMAIN collected :
            \/ Accepted(collected[n]) /\ collected'[n] = [collected[n] EXCEPT !.reason = "gitignored"]
            \/ collected'[n] = collected[n]
      BY <2>2 DEF ApplyGitignore
    <3>2. QED
      BY <1>2, <2>0, <3>1
  <2>3. QED
    BY <2>1, <2>2
<1>5. collected' \in Seq(Decisions) /\ Len(collected') = Len(collected)
  <2>1. Len(collected) \in Nat /\ DOMAIN collected = 1..Len(collected)
    BY <1>1
  <2>2. collected' = [n \in 1..Len(collected) |-> collected'[n]]
    BY <2>1 DEF EvaluateCandidates, ApplyGitignore
  <2>3. collected' \in [1..Len(collected) -> Decisions]
    BY <1>4, <2>1, <2>2
  <2>4. QED
    BY <2>1, <2>3, FunctionSeq
<1>6. QED
  BY <1>3, <1>4, <1>5 DEF EvaluateCandidates, ApplyGitignore, TypeOK, Phases, setting, walkVars

\* What one step of deduplication works on.
LEMMA NextSpelling ==
  ASSUME IInv, Deduplicating
  PROVE  LET n == Len(decisions) + 1 IN
         /\ n \in DOMAIN collected /\ Latest = collected[n] /\ n \in Nat
         /\ Latest \in Decisions /\ WellFormed(Latest) /\ Latest.reason # "duplicate"
         /\ Displayed(Latest) \in Decisions /\ Displayed(Latest).reason = Latest.reason
         /\ Accepted(Displayed(Latest)) <=> Accepted(Latest)
         /\ Accepted(Latest) => /\ Latest.path \in Paths
                                /\ Displayed(Latest).path = DisplayPath[Latest.path]
                                /\ Physical[Latest.path] \in Files /\ FileOf(n) = Physical[Latest.path]
         /\ n <= Len(collected) /\ DOMAIN decisions = 1..(n - 1)
<1>. DEFINE n == Len(decisions) + 1
<1>1. n \in 1..Len(collected) /\ n \in Nat /\ DOMAIN decisions = 1..(n - 1)
  BY DEF IInv, TypeOK, Deduplicating
<1>2. n \in DOMAIN collected /\ Latest = collected[n] /\ Latest \in Decisions
  BY <1>1 DEF IInv, TypeOK, Latest
<1>3. WellFormed(Latest) /\ Latest.reason # "duplicate"
  BY <1>2 DEF IInv, TypeOK, Order
<1>4. /\ Displayed(Latest) \in Decisions /\ Displayed(Latest).reason = Latest.reason
      /\ Latest.path \in Paths => Displayed(Latest).path = DisplayPath[Latest.path]
  BY <1>2, FileSelectionAssumption DEF Displayed, Decisions
<1>5. Accepted(Displayed(Latest)) <=> Accepted(Latest)
  BY <1>4 DEF Accepted
<1>6. Accepted(Latest) => Latest.path \in Paths /\ Physical[Latest.path] \in Files
  BY <1>3, FileSelectionAssumption DEF WellFormed
<1>7. QED
  BY <1>1, <1>2, <1>3, <1>4, <1>5, <1>6 DEF FileOf

\* A decision is appended; earlier ones stay.
LEMMA Appended ==
  ASSUME NEW s \in Seq(Decisions), NEW e \in Decisions
  PROVE  /\ Append(s, e) \in Seq(Decisions) /\ Len(Append(s, e)) = Len(s) + 1
         /\ DOMAIN Append(s, e) = 1..(Len(s) + 1) /\ Len(s) \in Nat
         /\ \A m \in 1..(Len(s) + 1) : Append(s, e)[m] = IF m = Len(s) + 1 THEN e ELSE s[m]
OBVIOUS

\* What every step of deduplication leaves alone.
LEMMA DedupFrame ==
  ASSUME IInv, Deduplicating, decisions' \in Seq(Decisions), Len(decisions') = Len(decisions) + 1,
         acceptedBy' \in [Files -> 0..Len(decisions')]
  PROVE  TypeOK' /\ Order' /\ UNCHANGED <<collected, present>> /\ \A m : FileOf(m)' = FileOf(m)
<1>1. Len(decisions') <= Len(collected)
  BY NextSpelling
<1>2. UNCHANGED <<policy, arguments, present, phase, taken, walk, unread, kept, collected>>
  BY DEF Deduplicating, setting, walkVars
<1>3. QED
  BY <1>1, <1>2 DEF IInv, TypeOK, Order, Deduplicating, FileOf

\* Nothing is known of a spelling that cannot be found.
LEMMA PassOnKeeps == ASSUME IInv, PassOn PROVE IInv'
<1>. DEFINE n == Len(decisions) + 1
<1>1. Deduplicating /\ decisions' = Append(decisions, Displayed(Latest)) /\ acceptedBy' = acceptedBy
  BY DEF PassOn
<1>2. /\ decisions' \in Seq(Decisions) /\ Len(decisions') = n /\ DOMAIN decisions' = 1..n /\ n \in Nat
      /\ \A m \in 1..n : decisions'[m] = IF m = n THEN Displayed(Latest) ELSE decisions[m]
  BY <1>1, NextSpelling, Appended DEF IInv, TypeOK
<1>3. acceptedBy' \in [Files -> 0..Len(decisions')]
  BY <1>1, <1>2 DEF IInv, TypeOK
<1>4. TypeOK' /\ Order' /\ UNCHANGED <<collected, present>> /\ \A m : FileOf(m)' = FileOf(m)
  BY <1>1, <1>2, <1>3, DedupFrame
<1>5. \A f \in Files : acceptedBy[f] # n /\ (acceptedBy[f] # 0 => acceptedBy[f] \in DOMAIN decisions)
  BY <1>2 DEF IInv, TypeOK
<1>6. Accepted(Latest) => FileOf(n) \notin present
  BY <1>1, NextSpelling DEF PassOn, Identified
<1>7. \A m \in DOMAIN decisions : decisions'[m] = decisions[m] /\ m # n
  BY <1>2, NextSpelling, <1>1
<1>8. \A m \in DOMAIN decisions : Accepted(decisions[m]) \/ decisions[m].reason = "duplicate" => FileOf(m) \in Files
  BY <1>1, FileSelectionAssumption DEF IInv, TypeOK, Dedup, FileOf, WellFormed
<1>9. Dedup'
  BY <1>1, <1>2, <1>4, <1>5, <1>6, <1>7, <1>8, NextSpelling DEF IInv, Dedup
<1>10. QED
  BY <1>4, <1>9 DEF IInv

\* The first spelling of a file that is found is accepted.
LEMMA AcceptFirstKeeps == ASSUME IInv, AcceptFirst PROVE IInv'
<1>. DEFINE n == Len(decisions) + 1
            file == Physical[Latest.path]
<1>1. /\ Deduplicating /\ decisions' = Append(decisions, Displayed(Latest))
      /\ acceptedBy[file] = 0 /\ acceptedBy' = [acceptedBy EXCEPT ![file] = n]
      /\ Accepted(Latest) /\ file \in Files /\ FileOf(n) = file
  BY NextSpelling DEF AcceptFirst, Identified, Deduplicating
<1>2. /\ decisions' \in Seq(Decisions) /\ Len(decisions') = n /\ DOMAIN decisions' = 1..n /\ n \in Nat
      /\ \A m \in 1..n : decisions'[m] = IF m = n THEN Displayed(Latest) ELSE decisions[m]
  BY <1>1, NextSpelling, Appended DEF IInv, TypeOK
<1>3. /\ acceptedBy' \in [Files -> 0..Len(decisions')]
      /\ \A f \in Files : acceptedBy'[f] = IF f = file THEN n ELSE acceptedBy[f]
  BY <1>1, <1>2 DEF IInv, TypeOK
<1>4. TypeOK' /\ Order' /\ UNCHANGED <<collected, present>> /\ \A m : FileOf(m)' = FileOf(m)
  BY <1>1, <1>2, <1>3, DedupFrame
<1>5. \A f \in Files : acceptedBy[f] # n /\ (acceptedBy[f] # 0 => acceptedBy[f] \in DOMAIN decisions)
  BY <1>2 DEF IInv, TypeOK
<1>6. \A m \in DOMAIN decisions : decisions'[m] = decisions[m] /\ m # n
  BY <1>2, NextSpelling, <1>1
<1>7. \A m \in DOMAIN decisions : Accepted(decisions[m]) \/ decisions[m].reason = "duplicate" => FileOf(m) \in Files
  BY <1>1, FileSelectionAssumption DEF IInv, TypeOK, Dedup, FileOf, WellFormed
<1>. HIDE DEF file, n
<1>8. Dedup'
  <2>1. \A m \in DOMAIN decisions' :
          /\ Accepted(decisions'[m]) \/ decisions'[m].reason = "duplicate" => Accepted(collected[m])
          /\ Accepted(collected[m]) => decisions'[m].path = DisplayPath[collected[m].path]
    BY <1>1, <1>2, <1>6, NextSpelling DEF IInv, Dedup, n
  <2>2. \A f \in Files : acceptedBy'[f] # 0 =>
          Accepted(decisions'[acceptedBy'[f]]) /\ FileOf(acceptedBy'[f]) = f
    BY <1>1, <1>2, <1>3, <1>5, <1>6, NextSpelling DEF IInv, Dedup, n
  <2>3. \A m \in DOMAIN decisions' : Accepted(decisions'[m]) =>
          m = acceptedBy'[FileOf(m)] \/ FileOf(m) \notin present
    BY <1>1, <1>2, <1>3, <1>6, <1>7, NextSpelling DEF IInv, Dedup, n
  <2>4. \A m \in DOMAIN decisions' : decisions'[m].reason = "duplicate" =>
          /\ acceptedBy'[FileOf(m)] # 0
          /\ ~Clearer(decisions'[m], decisions'[acceptedBy'[FileOf(m)]])
    BY <1>1, <1>2, <1>3, <1>5, <1>6, <1>7, NextSpelling DEF IInv, Dedup, n
  <2>5. QED
    BY <1>4, <2>1, <2>2, <2>3, <2>4 DEF Dedup
<1>9. QED
  BY <1>4, <1>8 DEF IInv

\* A spelling that is no clearer than the accepted one is rejected for it.
LEMMA RejectAliasKeeps == ASSUME IInv, RejectAlias PROVE IInv'
<1>. DEFINE n == Len(decisions) + 1
            d == Displayed(Latest)
            file == Physical[Latest.path]
<1>1. /\ Deduplicating /\ decisions' = Append(decisions, AsDuplicate(d)) /\ acceptedBy' = acceptedBy
      /\ acceptedBy[file] # 0 /\ ~Clearer(d, decisions[acceptedBy[file]])
      /\ Accepted(Latest) /\ file \in Files /\ FileOf(n) = file
  BY NextSpelling DEF RejectAlias, Identified, Deduplicating
<1>2. /\ AsDuplicate(d) \in Decisions /\ AsDuplicate(d).path = d.path
      /\ AsDuplicate(d).reason = "duplicate" /\ ~Accepted(AsDuplicate(d))
  BY <1>1, NextSpelling DEF AsDuplicate, Decisions, Reasons, Accepted
<1>3. /\ decisions' \in Seq(Decisions) /\ Len(decisions') = n /\ DOMAIN decisions' = 1..n /\ n \in Nat
      /\ \A m \in 1..n : decisions'[m] = IF m = n THEN AsDuplicate(d) ELSE decisions[m]
  BY <1>1, <1>2, Appended DEF IInv, TypeOK
<1>4. acceptedBy' \in [Files -> 0..Len(decisions')]
  BY <1>1, <1>3 DEF IInv, TypeOK
<1>5. TypeOK' /\ Order' /\ UNCHANGED <<collected, present>> /\ \A m : FileOf(m)' = FileOf(m)
  BY <1>1, <1>3, <1>4, DedupFrame
<1>6. \A f \in Files : acceptedBy[f] # n /\ (acceptedBy[f] # 0 => acceptedBy[f] \in DOMAIN decisions)
  BY <1>3 DEF IInv, TypeOK
<1>7. \A m \in DOMAIN decisions : decisions'[m] = decisions[m] /\ m # n
  BY <1>3, NextSpelling, <1>1
<1>8. \A m \in DOMAIN decisions : Accepted(decisions[m]) \/ decisions[m].reason = "duplicate" => FileOf(m) \in Files
  BY <1>1, FileSelectionAssumption DEF IInv, TypeOK, Dedup, FileOf, WellFormed
<1>9. ~Clearer(AsDuplicate(d), decisions[acceptedBy[file]])
  BY <1>1, <1>2 DEF Clearer
<1>. HIDE DEF file, n, d
<1>10. Dedup'
  <2>1. \A m \in DOMAIN decisions' :
          /\ Accepted(decisions'[m]) \/ decisions'[m].reason = "duplicate" => Accepted(collected[m])
          /\ Accepted(collected[m]) => decisions'[m].path = DisplayPath[collected[m].path]
    BY <1>1, <1>2, <1>3, <1>7, NextSpelling DEF IInv, Dedup, n, d
  <2>2. \A f \in Files : acceptedBy'[f] # 0 =>
          Accepted(decisions'[acceptedBy'[f]]) /\ FileOf(acceptedBy'[f]) = f
    BY <1>1, <1>6, <1>7 DEF IInv, Dedup
  <2>3. \A m \in DOMAIN decisions' : Accepted(decisions'[m]) =>
          m = acceptedBy'[FileOf(m)] \/ FileOf(m) \notin present
    BY <1>1, <1>2, <1>3, <1>7, NextSpelling DEF IInv, Dedup, n
  <2>4. \A m \in DOMAIN decisions' : decisions'[m].reason = "duplicate" =>
          /\ acceptedBy'[FileOf(m)] # 0
          /\ ~Clearer(decisions'[m], decisions'[acceptedBy'[FileOf(m)]])
    BY <1>1, <1>3, <1>6, <1>7, <1>8, <1>9, NextSpelling DEF IInv, Dedup, n
  <2>5. QED
    BY <1>5, <2>1, <2>2, <2>3, <2>4 DEF Dedup
<1>11. QED
  BY <1>5, <1>10 DEF IInv

\* A clearer spelling takes over what had been rejected for the earlier one.
LEMMA ReplaceSpellingKeeps == ASSUME IInv, ReplaceSpelling PROVE IInv'
<1>. DEFINE n == Len(decisions) + 1
            d == Displayed(Latest)
            file == Physical[Latest.path]
            a == acceptedBy[file]
            marked == [decisions EXCEPT ![a] = AsDuplicate(@)]
<1>1. /\ Deduplicating /\ decisions' = Append(marked, d)
      /\ a # 0 /\ Clearer(d, decisions[a]) /\ acceptedBy' = [acceptedBy EXCEPT ![file] = n]
      /\ Accepted(Latest) /\ file \in Files /\ FileOf(n) = file
  BY NextSpelling DEF ReplaceSpelling, Identified, Deduplicating
<1>2. a \in DOMAIN decisions /\ Accepted(decisions[a]) /\ FileOf(a) = file
  BY <1>1 DEF IInv, TypeOK, Dedup
<1>3. /\ AsDuplicate(decisions[a]) \in Decisions /\ AsDuplicate(decisions[a]).path = decisions[a].path
      /\ AsDuplicate(decisions[a]).reason = "duplicate" /\ ~Accepted(AsDuplicate(decisions[a]))
  <2>1. decisions[a] \in Decisions
    BY <1>2 DEF IInv, TypeOK
  <2>. HIDE DEF a
  <2>2. QED
    BY <2>1 DEF AsDuplicate, Decisions, Reasons, Accepted
<1>4. /\ marked \in Seq(Decisions) /\ Len(marked) = Len(decisions)
      /\ \A m \in DOMAIN decisions : marked[m] = IF m = a THEN AsDuplicate(decisions[a]) ELSE decisions[m]
  BY <1>2, <1>3 DEF IInv, TypeOK
<1>5. d \in Decisions /\ Accepted(d) /\ d.reason # "duplicate" /\ d.path = DisplayPath[Latest.path]
      /\ Latest = collected[n] /\ DOMAIN decisions = 1..(n - 1)
  BY <1>1, NextSpelling DEF Accepted
<1>. HIDE DEF marked
<1>6. /\ decisions' \in Seq(Decisions) /\ Len(decisions') = n /\ DOMAIN decisions' = 1..n /\ n \in Nat /\ n # 0
      /\ \A m \in 1..n : decisions'[m] = IF m = n THEN d ELSE marked[m]
  BY <1>1, <1>4, <1>5, Appended
<1>7. /\ acceptedBy' \in [Files -> 0..Len(decisions')]
      /\ \A f \in Files : acceptedBy'[f] = IF f = file THEN n ELSE acceptedBy[f]
  BY <1>1, <1>6 DEF IInv, TypeOK
<1>8. TypeOK' /\ Order' /\ UNCHANGED <<collected, present>> /\ \A m : FileOf(m)' = FileOf(m)
  BY <1>1, <1>6, <1>7, DedupFrame
<1>9. \A f \in Files : acceptedBy[f] # n /\ (acceptedBy[f] # 0 => acceptedBy[f] \in DOMAIN decisions)
  BY <1>6 DEF IInv, TypeOK
<1>10. \A m \in DOMAIN decisions :
         m # n /\ m \in 1..n /\ decisions'[m] = IF m = a THEN AsDuplicate(decisions[a]) ELSE decisions[m]
  BY <1>4, <1>5, <1>6
<1>11. \A m \in DOMAIN decisions : Accepted(decisions[m]) \/ decisions[m].reason = "duplicate" =>
         FileOf(m) \in Files /\ decisions[m].path \in Paths
  <2>. SUFFICES ASSUME NEW m \in DOMAIN decisions, Accepted(decisions[m]) \/ decisions[m].reason = "duplicate"
                PROVE  FileOf(m) \in Files /\ decisions[m].path \in Paths
    OBVIOUS
  <2>1. m \in DOMAIN collected
    BY DEF IInv, TypeOK
  <2>2. Accepted(collected[m]) /\ decisions[m].path = DisplayPath[collected[m].path]
    BY DEF IInv, Dedup
  <2>3. collected[m].path \in Paths
    BY <2>1, <2>2 DEF IInv, TypeOK, WellFormed
  <2>4. QED
    BY <2>2, <2>3, FileSelectionAssumption DEF FileOf
<1>12. d.path \in Paths
  BY <1>1, <1>5, FileSelectionAssumption, NextSpelling
<1>14. Score \in [Paths -> Nat] /\ Score[d.path] < Score[decisions[a].path] /\ Score[d.path] \in Nat
  BY <1>1, <1>12, FileSelectionAssumption DEF Clearer
<1>. HIDE DEF file, n, d, a
<1>13. Dedup'
  <2>1. \A m \in DOMAIN decisions' :
          /\ Accepted(decisions'[m]) \/ decisions'[m].reason = "duplicate" => Accepted(collected[m])
          /\ Accepted(collected[m]) => decisions'[m].path = DisplayPath[collected[m].path]
    BY <1>1, <1>2, <1>3, <1>5, <1>6, <1>10 DEF IInv, Dedup
  <2>2. \A f \in Files : acceptedBy'[f] # 0 =>
          Accepted(decisions'[acceptedBy'[f]]) /\ FileOf(acceptedBy'[f]) = f
    <3>. SUFFICES ASSUME NEW f \in Files, acceptedBy'[f] # 0
                  PROVE  Accepted(decisions'[acceptedBy'[f]]) /\ FileOf(acceptedBy'[f]) = f
      OBVIOUS
    <3>1. CASE f = file
      BY <1>1, <1>5, <1>6, <1>7, <3>1
    <3>2. CASE f # file
      <4>1. acceptedBy[f] \in DOMAIN decisions /\ Accepted(decisions[acceptedBy[f]])
            /\ FileOf(acceptedBy[f]) = f
        BY <1>7, <1>9, <3>2 DEF IInv, Dedup
      <4>2. acceptedBy[f] # a
        BY <1>2, <3>2, <4>1
      <4>3. QED
        BY <1>7, <1>10, <3>2, <4>1, <4>2
    <3>3. QED
      BY <3>1, <3>2
  <2>3. \A m \in DOMAIN decisions' : Accepted(decisions'[m]) =>
          m = acceptedBy'[FileOf(m)] \/ FileOf(m) \notin present
    <3>. SUFFICES ASSUME NEW m \in DOMAIN decisions', Accepted(decisions'[m]), FileOf(m) \in present
                  PROVE  m = acceptedBy'[FileOf(m)]
      OBVIOUS
    <3>1. CASE m = n
      BY <1>1, <1>7, <3>1
    <3>2. CASE m # n
      <4>1. m \in DOMAIN decisions /\ m # a /\ Accepted(decisions[m])
        BY <1>3, <1>5, <1>6, <1>10, <3>2
      <4>2. m = acceptedBy[FileOf(m)]
        BY <4>1 DEF IInv, Dedup
      <4>3. FileOf(m) # file
        BY <4>1, <4>2 DEF a
      <4>4. QED
        BY <1>7, <1>11, <4>1, <4>2, <4>3
    <3>3. QED
      BY <3>1, <3>2
  <2>4. \A m \in DOMAIN decisions' : decisions'[m].reason = "duplicate" =>
          /\ acceptedBy'[FileOf(m)] # 0
          /\ ~Clearer(decisions'[m], decisions'[acceptedBy'[FileOf(m)]])
    <3>. SUFFICES ASSUME NEW m \in DOMAIN decisions', decisions'[m].reason = "duplicate"
                  PROVE  /\ acceptedBy'[FileOf(m)] # 0
                         /\ ~Clearer(decisions'[m], decisions'[acceptedBy'[FileOf(m)]])
      OBVIOUS
    <3>1. m \in DOMAIN decisions /\ m # n
      BY <1>5, <1>6
    <3>2. CASE m = a
      <4>1. acceptedBy'[FileOf(m)] = n /\ decisions'[n] = d /\ decisions'[m].path = decisions[a].path
        BY <1>1, <1>2, <1>3, <1>6, <1>7, <1>10, <3>1, <3>2
      <4>2. n # 0 /\ decisions[a].path \in Paths
        BY <1>2, <1>6, <1>11
      <4>3. ~Clearer(decisions'[m], d)
        BY <1>14, <4>1, <4>2 DEF Clearer
      <4>4. QED
        BY <4>1, <4>2, <4>3
    <3>3. CASE m # a
      <4>1. decisions'[m] = decisions[m] /\ decisions[m].reason = "duplicate"
        BY <1>10, <3>1, <3>3
      <4>2. acceptedBy[FileOf(m)] # 0 /\ ~Clearer(decisions[m], decisions[acceptedBy[FileOf(m)]])
            /\ FileOf(m) \in Files /\ decisions[m].path \in Paths
        BY <1>11, <3>1, <4>1 DEF IInv, Dedup
      <4>3. CASE FileOf(m) = file
        <5>1. acceptedBy'[FileOf(m)] = n /\ decisions'[n] = d /\ n # 0
          BY <1>1, <1>6, <1>7, <4>3
        <5>2. ~Clearer(decisions[m], decisions[a]) /\ decisions[a].path \in Paths
          <6>1. decisions[a].path \in Paths
            BY <1>2, <1>11
          <6>2. acceptedBy[FileOf(m)] = a
            BY <4>3 DEF a
          <6>3. QED
            BY <4>2, <6>1, <6>2
        <5>3. ~Clearer(decisions'[m], d)
          BY <1>14, <4>1, <4>2, <5>2 DEF Clearer
        <5>4. QED
          BY <5>1, <5>3
      <4>4. CASE FileOf(m) # file
        <5>1. acceptedBy'[FileOf(m)] = acceptedBy[FileOf(m)] /\ acceptedBy[FileOf(m)] \in DOMAIN decisions
          BY <1>7, <1>9, <4>2, <4>4
        <5>2. acceptedBy[FileOf(m)] # a
          BY <1>2, <4>2, <4>4 DEF IInv, Dedup
        <5>3. QED
          BY <1>10, <4>1, <4>2, <5>1, <5>2
      <4>5. QED
        BY <4>3, <4>4
    <3>4. QED
      BY <3>2, <3>3
  <2>5. QED
    BY <1>8, <2>1, <2>2, <2>3, <2>4 DEF Dedup
<1>15. QED
  BY <1>8, <1>13 DEF IInv

\* Before deduplication there is nothing to keep.
LEMMA CollectionKeeps ==
  ASSUME IInv, CollectFile \/ RejectRoot \/ WalkRoot \/ EnterDirectory \/ PruneDirectory
               \/ KeepDirectory \/ CollectEntries \/ EndWalk \/ EndCollection \/ SettingsFail
               \/ EvaluateCandidates \/ ApplyGitignore \/ GitFails
  PROVE  IInv'
<1>1. phase \notin {"deduplicating", "done"} /\ UNCHANGED <<decisions, acceptedBy>>
  BY DEF CollectFile, RejectRoot, WalkRoot, Collecting, EnterDirectory, PruneDirectory, KeepDirectory,
         ReadDirectory, CollectEntries, EndWalk, EndCollection, SettingsFail, EvaluateCandidates,
         ApplyGitignore, GitFails
<1>2. TypeOK'
  BY CollectionTypes, EntriesTypes, FilterTypes DEF IInv
<1>3. \A n \in DOMAIN collected' : collected'[n].reason # "duplicate"
  <2>1. CASE CollectFile
    <3>1. Candidate(Argument, TRUE) \in Decisions /\ WellFormed(Candidate(Argument, TRUE))
      BY <2>1, ArgumentType DEF IInv, CollectFile, Candidate, Decisions, Reasons, Accepted, WellFormed
    <3>2. QED
      BY <2>1, <3>1, Appending DEF IInv, CollectFile, Candidate
  <2>2. CASE RejectRoot
    <3>1. Decided(Argument, "excluded", TRUE) \in Decisions /\ WellFormed(Decided(Argument, "excluded", TRUE))
      BY <2>2, ArgumentType DEF IInv, RejectRoot, Decided, Decisions, Reasons, Accepted, WellFormed
    <3>2. QED
      BY <2>2, <3>1, Appending DEF IInv, RejectRoot, Decided
  <2>3. CASE PruneDirectory
    <3>. DEFINE d == Decided(Head(unread), IF Head(unread) \in policy.cache THEN "cache-directory" ELSE "excluded", FALSE)
    <3>1. Head(unread) \in Directories
      BY <2>3 DEF PruneDirectory, ReadDirectory, IInv, TypeOK
    <3>2. d \in Decisions /\ WellFormed(d) /\ d.reason # "duplicate"
      BY <3>1 DEF Decided, Decisions, Reasons, Accepted, WellFormed
    <3>3. collected' = Append(collected, d)
      BY <2>3 DEF PruneDirectory
    <3>. HIDE DEF d
    <3>4. QED
      BY <3>2, <3>3, Appending DEF IInv
  <2>4. CASE CollectEntries \/ EvaluateCandidates \/ ApplyGitignore
    BY <2>4, EntriesTypes, FilterTypes DEF IInv
  <2>5. CASE UNCHANGED collected
    BY <2>5 DEF IInv, Order
  <2>6. QED
    BY <2>1, <2>2, <2>3, <2>4, <2>5
       DEF WalkRoot, EnterDirectory, KeepDirectory, EndWalk, EndCollection, SettingsFail, GitFails
<1>4. phase' = "reading" => walk' # <<>>
  BY DEF IInv, Order, CollectFile, RejectRoot, WalkRoot, Collecting, EnterDirectory, PruneDirectory,
         KeepDirectory, ReadDirectory, CollectEntries, EndWalk, EndCollection, SettingsFail,
         EvaluateCandidates, ApplyGitignore, GitFails
<1>5. decisions = <<>> /\ acceptedBy = [f \in Files |-> 0]
  BY <1>1 DEF IInv, Order
<1>6. Order' /\ Dedup'
  BY <1>1, <1>3, <1>4, <1>5 DEF Order, Dedup
<1>7. QED
  BY <1>2, <1>6 DEF IInv

LEMMA OtherKeeps == ASSUME IInv, EndDeduplication \/ Vanish PROVE IInv'
<1>1. TypeOK'
  BY CollectionTypes DEF IInv
<1>2. /\ UNCHANGED <<collected, decisions, acceptedBy, walk>> /\ present' \subseteq present
      /\ phase' = phase \/ (phase = "deduplicating" /\ phase' = "done")
  BY DEF EndDeduplication, Vanish, walkVars
<1>3. Order'
  BY <1>2 DEF IInv, Order
<1>4. Dedup'
  BY <1>2 DEF IInv, Dedup, FileOf
<1>5. QED
  BY <1>1, <1>3, <1>4 DEF IInv

LEMMA StepKeeps == ASSUME IInv, [Next]_vars PROVE IInv'
<1>1. CASE CollectFile \/ RejectRoot \/ WalkRoot \/ EnterDirectory \/ PruneDirectory \/ KeepDirectory
           \/ CollectEntries \/ EndWalk \/ EndCollection \/ SettingsFail
           \/ EvaluateCandidates \/ ApplyGitignore \/ GitFails
  BY <1>1, CollectionKeeps
<1>2. CASE PassOn
  BY <1>2, PassOnKeeps
<1>3. CASE AcceptFirst
  BY <1>3, AcceptFirstKeeps
<1>4. CASE ReplaceSpelling
  BY <1>4, ReplaceSpellingKeeps
<1>5. CASE RejectAlias
  BY <1>5, RejectAliasKeeps
<1>6. CASE EndDeduplication \/ Vanish
  BY <1>6, OtherKeeps
<1>7. CASE UNCHANGED vars
  BY <1>7 DEF vars, IInv, TypeOK, Order, Dedup, FileOf
<1>8. QED
  BY <1>1, <1>2, <1>3, <1>4, <1>5, <1>6, <1>7 DEF Next

\* The invariant holds in every reachable state.
THEOREM SelectionInvariant == Spec => []IInv
<1>1. Init => IInv
  BY InitIInv
<1>2. IInv /\ [Next]_vars => IInv'
  BY StepKeeps
<1>3. QED
  BY <1>1, <1>2, PTL DEF Spec

\* Every variable has its type, for any tree, command line and policy.
THEOREM SelectionTypes == Spec => []TypeOK
<1>1. IInv => TypeOK
  BY DEF IInv
<1>2. QED
  BY SelectionInvariant, <1>1, PTL

\* Where displaying a spelling does not change what it opens, no existing
\* file is selected twice (_deduplicated_decisions).
THEOREM FilesSelectedOnce == NormalizationKeepsFile /\ Spec => []SelectedOnce
<1>1. NormalizationKeepsFile /\ IInv => SelectedOnce
  <2>. SUFFICES ASSUME NormalizationKeepsFile, IInv,
                       NEW m \in DOMAIN decisions, NEW n \in DOMAIN decisions,
                       Accepted(decisions[m]), Accepted(decisions[n]),
                       Physical[decisions[m].path] = Physical[decisions[n].path],
                       Physical[decisions[m].path] \in present
                PROVE  m = n
    BY DEF SelectedOnce
  <2>1. ASSUME NEW k \in DOMAIN decisions, Accepted(decisions[k])
        PROVE  Physical[decisions[k].path] = FileOf(k)
    <3>1. k \in DOMAIN collected
      BY DEF IInv, TypeOK
    <3>2. Accepted(collected[k]) /\ decisions[k].path = DisplayPath[collected[k].path]
      BY <2>1 DEF IInv, Dedup
    <3>3. collected[k].path \in Paths
      BY <3>1, <3>2 DEF IInv, TypeOK, WellFormed
    <3>4. QED
      BY <3>2, <3>3 DEF NormalizationKeepsFile, FileOf
  <2>2. FileOf(m) = FileOf(n) /\ FileOf(m) \in present
    BY <2>1
  <2>3. m = acceptedBy[FileOf(m)] /\ n = acceptedBy[FileOf(n)]
    BY <2>2 DEF IInv, Dedup
  <2>4. QED
    BY <2>2, <2>3
<1>2. NormalizationKeepsFile => []NormalizationKeepsFile
  OBVIOUS
<1>3. QED
  BY SelectionInvariant, <1>1, <1>2, PTL

\* A spelling is rejected only for a selected one of the same file that is at
\* least as clear (_deduplicated_decisions).
THEOREM ClearestIsKept == Spec => []ClearestSpellingKept
<1>1. IInv => ClearestSpellingKept
  <2>. SUFFICES ASSUME IInv, NEW n \in DOMAIN decisions, decisions[n].reason = "duplicate"
                PROVE  \E m \in DOMAIN decisions :
                         /\ Accepted(decisions[m])
                         /\ Physical[collected[m].path] = Physical[collected[n].path]
                         /\ ~Clearer(decisions[n], decisions[m])
    BY DEF ClearestSpellingKept
  <2>. DEFINE m == acceptedBy[FileOf(n)]
  <2>1. n \in DOMAIN collected /\ Accepted(collected[n])
    BY DEF IInv, TypeOK, Dedup
  <2>2. FileOf(n) \in Files
    BY <2>1, FileSelectionAssumption DEF IInv, TypeOK, WellFormed, FileOf
  <2>3. m # 0 /\ ~Clearer(decisions[n], decisions[m])
    BY DEF IInv, Dedup
  <2>4. m \in DOMAIN decisions /\ Accepted(decisions[m]) /\ FileOf(m) = FileOf(n)
    BY <2>2, <2>3 DEF IInv, TypeOK, Dedup
  <2>5. QED
    BY <2>3, <2>4 DEF FileOf
<1>2. QED
  BY SelectionInvariant, <1>1, PTL

-----------------------------------------------------------------------------
(***************************************************************************)
(* Which files are selected.  During collection there is a set of          *)
(* directories that were walked, closed but for what os.walk has yet to    *)
(* yield (Explains); when nothing is left to yield it is the least closed  *)
(* one, Walked.  The filters then take from the candidates what the        *)
(* decision table takes, and deduplication keeps a spelling of each file.  *)
(***************************************************************************)

\* Subdirectories that os.walk goes on to.
Followed(d) == Members(SubDirectories[d]) \ (policy.cache \cup policy.pruned \cup Links)

Given == {arguments[k] : k \in 1..taken}

\* Spellings of a stream that are candidates, and those accepted, as arguments
\* or from walking.
Undecided(stream, explicit) ==
    {stream[n].path : n \in {m \in DOMAIN stream :
        stream[m].reason = "candidate" /\ stream[m].explicit = explicit}}

Taken(stream, explicit) ==
    {stream[n].path : n \in {m \in DOMAIN stream :
        Accepted(stream[m]) /\ stream[m].explicit = explicit}}

Explains(seen) ==
    /\ \A d \in seen : Followed(d) \subseteq seen \cup Members(walk)
    /\ (Given \cap Directories) \ policy.roots \subseteq seen \cup Members(walk)
    /\ Undecided(collected, FALSE) = UNION {Members(Entries[d]) : d \in seen}

WalkShape ==
    /\ Members(walk) \subseteq Walked
    /\ phase = "collecting" => walk = <<>>
    /\ phase = "reading" =>
         /\ Members(unread) \subseteq Members(SubDirectories[Head(walk)])
         /\ Members(kept) \subseteq Followed(Head(walk))
         /\ Followed(Head(walk)) \subseteq Members(kept) \cup Members(unread)

Collection ==
    phase \in {"collecting", "walking", "reading"} =>
        /\ WalkShape
        /\ Undecided(collected, TRUE) = Given \cap Paths
        /\ Taken(collected, TRUE) = {} /\ Taken(collected, FALSE) = {}
        /\ \E seen \in SUBSET Walked : Explains(seen)

Filters ==
    /\ phase = "evaluating" =>
         /\ Undecided(collected, TRUE) = Explicit /\ Undecided(collected, FALSE) = Discovered
         /\ Taken(collected, TRUE) = {} /\ Taken(collected, FALSE) = {}
    /\ phase = "filtering" =>
         /\ Taken(collected, TRUE) = Explicit \ (policy.forced \cap policy.excluded)
         /\ Taken(collected, FALSE) = (Discovered \cap policy.included) \ policy.excluded
    /\ phase \in {"deduplicating", "done"} => Taken(collected, TRUE) \cup Taken(collected, FALSE) = Wanted

\* An accepted spelling stays accepted or becomes a duplicate.
Answered ==
    /\ \A n \in DOMAIN decisions : Accepted(collected[n]) =>
         Accepted(decisions[n]) \/ decisions[n].reason = "duplicate"
    /\ phase = "done" => Len(decisions) = Len(collected)

SelectionInv == Collection /\ Filters /\ Answered

\* Members of sequences.
LEMMA MembersType ==
  ASSUME NEW S, NEW s \in Seq(S)
  PROVE  Members(s) \subseteq S
BY DEF Members

LEMMA MembersSplit ==
  ASSUME NEW S, NEW s \in Seq(S), s # <<>>
  PROVE  /\ Members(s) = {Head(s)} \cup Members(Tail(s))
         /\ Head(s) \in S /\ Tail(s) \in Seq(S)
<1>1. /\ Len(s) \in Nat /\ Len(s) >= 1 /\ DOMAIN s = 1..Len(s) /\ Head(s) = s[1] /\ Head(s) \in S
      /\ Tail(s) \in Seq(S) /\ Len(Tail(s)) = Len(s) - 1 /\ DOMAIN Tail(s) = 1..(Len(s) - 1)
      /\ \A n \in 1..(Len(s) - 1) : Tail(s)[n] = s[n + 1]
  BY HeadTailProperties, LenProperties
<1>2. \A n \in DOMAIN s : s[n] = Head(s) \/ s[n] \in Members(Tail(s))
  <2>. SUFFICES ASSUME NEW n \in DOMAIN s, n # 1 PROVE s[n] \in Members(Tail(s))
    BY <1>1
  <2>1. n - 1 \in 1..(Len(s) - 1) /\ Tail(s)[n - 1] = s[n]
    BY <1>1
  <2>2. QED
    BY <1>1, <2>1 DEF Members
<1>3. Members(Tail(s)) \subseteq Members(s) /\ Head(s) \in Members(s)
  <2>1. \A n \in 1..(Len(s) - 1) : n + 1 \in DOMAIN s
    BY <1>1
  <2>2. QED
    BY <1>1, <2>1 DEF Members
<1>4. QED
  BY <1>1, <1>2, <1>3 DEF Members

LEMMA MembersConcat ==
  ASSUME NEW S, NEW s \in Seq(S), NEW t \in Seq(S)
  PROVE  Members(s \o t) = Members(s) \cup Members(t)
<1>1. /\ Len(s) \in Nat /\ Len(t) \in Nat /\ DOMAIN s = 1..Len(s) /\ DOMAIN t = 1..Len(t)
      /\ s \o t \in Seq(S) /\ DOMAIN (s \o t) = 1..(Len(s) + Len(t))
      /\ \A n \in 1..(Len(s) + Len(t)) : (s \o t)[n] = IF n <= Len(s) THEN s[n] ELSE t[n - Len(s)]
  BY ConcatProperties, LenProperties
<1>2. Members(s \o t) \subseteq Members(s) \cup Members(t)
  BY <1>1 DEF Members
<1>3. \A n \in DOMAIN s : n \in DOMAIN (s \o t) /\ (s \o t)[n] = s[n]
  BY <1>1
<1>4. \A n \in DOMAIN t : Len(s) + n \in DOMAIN (s \o t) /\ (s \o t)[Len(s) + n] = t[n]
  BY <1>1
<1>5. QED
  BY <1>2, <1>3, <1>4 DEF Members

LEMMA MembersAppend ==
  ASSUME NEW S, NEW s \in Seq(S), NEW e \in S
  PROVE  Members(Append(s, e)) = Members(s) \cup {e}
<1>1. /\ Len(s) \in Nat /\ DOMAIN s = 1..Len(s) /\ DOMAIN Append(s, e) = 1..(Len(s) + 1)
      /\ \A n \in 1..(Len(s) + 1) : Append(s, e)[n] = IF n = Len(s) + 1 THEN e ELSE s[n]
  BY AppendProperties, LenProperties
<1>2. Len(s) + 1 \in 1..(Len(s) + 1)
  BY <1>1
<1>3. QED
  BY <1>1, <1>2 DEF Members

\* A decision more in the stream is a spelling more of its kind.
LEMMA StreamAppend ==
  ASSUME NEW s \in Seq(Decisions), NEW d \in Decisions, NEW explicit \in BOOLEAN
  PROVE  /\ Undecided(Append(s, d), explicit) =
              Undecided(s, explicit)
                \cup (IF d.reason = "candidate" /\ d.explicit = explicit THEN {d.path} ELSE {})
         /\ Taken(Append(s, d), explicit) =
              Taken(s, explicit)
                \cup (IF Accepted(d) /\ d.explicit = explicit THEN {d.path} ELSE {})
<1>1. /\ Len(s) \in Nat /\ DOMAIN s = 1..Len(s) /\ DOMAIN Append(s, d) = 1..(Len(s) + 1)
      /\ \A n \in 1..(Len(s) + 1) : Append(s, d)[n] = IF n = Len(s) + 1 THEN d ELSE s[n]
  BY AppendProperties, LenProperties
<1>2. Len(s) + 1 \in 1..(Len(s) + 1) /\ \A n \in DOMAIN s : n \in 1..(Len(s) + 1) /\ n # Len(s) + 1
  BY <1>1
<1>3. QED
  BY <1>1, <1>2 DEF Undecided, Taken

\* So are the files of a directory.
LEMMA StreamConcat ==
  ASSUME NEW s \in Seq(Decisions), NEW files \in Seq(Paths)
  PROVE  LET t == s \o [n \in 1..Len(files) |-> Candidate(files[n], FALSE)] IN
         /\ Undecided(t, FALSE) = Undecided(s, FALSE) \cup Members(files)
         /\ Undecided(t, TRUE) = Undecided(s, TRUE)
         /\ \A explicit \in BOOLEAN : Taken(t, explicit) = Taken(s, explicit)
<1>. DEFINE new == [n \in 1..Len(files) |-> Candidate(files[n], FALSE)]
            t == s \o new
<1>1. /\ Len(files) \in Nat /\ DOMAIN files = 1..Len(files)
      /\ \A n \in 1..Len(files) :
           /\ new[n] \in Decisions /\ new[n].path = files[n] /\ new[n].explicit = FALSE
           /\ new[n].reason = "candidate" /\ ~Accepted(new[n])
  BY LenProperties DEF Candidate, Decisions, Reasons, Accepted
<1>2. new \in [1..Len(files) -> Decisions]
  BY <1>1
<1>. HIDE DEF new
<1>3. new \in Seq(Decisions) /\ Len(new) = Len(files)
  BY <1>1, <1>2, FunctionSeq
<1>4. /\ Len(s) \in Nat /\ DOMAIN s = 1..Len(s) /\ DOMAIN t = 1..(Len(s) + Len(files))
      /\ \A n \in DOMAIN t : t[n] = IF n <= Len(s) THEN s[n] ELSE new[n - Len(s)]
  <2>1. /\ t \in Seq(Decisions) /\ Len(t) = Len(s) + Len(new)
        /\ \A n \in 1..(Len(s) + Len(new)) : t[n] = IF n <= Len(s) THEN s[n] ELSE new[n - Len(s)]
    BY <1>3, ConcatProperties
  <2>. HIDE DEF t
  <2>2. Len(s) \in Nat /\ DOMAIN s = 1..Len(s) /\ DOMAIN t = 1..Len(t)
    BY <2>1, LenProperties
  <2>3. QED
    BY <1>3, <2>1, <2>2
<1>. HIDE DEF t
<1>5. \A n \in DOMAIN t : \/ n \in DOMAIN s /\ t[n] = s[n]
                          \/ n - Len(s) \in DOMAIN files /\ t[n] = new[n - Len(s)]
  BY <1>1, <1>4
<1>6. /\ \A n \in DOMAIN s : n \in DOMAIN t /\ t[n] = s[n]
      /\ \A n \in DOMAIN files : Len(s) + n \in DOMAIN t /\ t[Len(s) + n] = new[n]
  BY <1>1, <1>4
<1>7. Undecided(t, FALSE) = Undecided(s, FALSE) \cup Members(files)
  <2>1. Undecided(t, FALSE) \subseteq Undecided(s, FALSE) \cup Members(files)
    BY <1>1, <1>5 DEF Undecided, Members
  <2>2. Undecided(s, FALSE) \subseteq Undecided(t, FALSE)
    BY <1>6 DEF Undecided
  <2>3. Members(files) \subseteq Undecided(t, FALSE)
    BY <1>1, <1>6 DEF Undecided, Members
  <2>4. QED
    BY <2>1, <2>2, <2>3
<1>8. Undecided(t, TRUE) = Undecided(s, TRUE)
  BY <1>1, <1>5, <1>6 DEF Undecided
<1>9. \A explicit \in BOOLEAN : Taken(t, explicit) = Taken(s, explicit)
  BY <1>1, <1>5, <1>6 DEF Taken
<1>10. QED
  BY <1>7, <1>8, <1>9 DEF t, new

\* Walked is the least closed set of directories.
LEMMA WalkedFacts ==
  ASSUME TypeOK
  PROVE  /\ Walked \subseteq Directories
         /\ (Members(arguments) \cap Directories) \ policy.roots \subseteq Walked
         /\ \A d \in Walked : Followed(d) \subseteq Walked
         /\ \A seen \in SUBSET Directories :
              /\ (Members(arguments) \cap Directories) \ policy.roots \subseteq seen
              /\ \A d \in seen : Followed(d) \subseteq seen
              => Walked \subseteq seen
<1>1. Walked \subseteq Directories
  BY DEF Walked
<1>2. (Members(arguments) \cap Directories) \ policy.roots \subseteq Walked
  BY DEF Walked
<1>3. ASSUME NEW d \in Walked, NEW e \in Followed(d) PROVE e \in Walked
  <2>1. e \in Directories
    <3>1. SubDirectories[d] \in Seq(Directories)
      BY <1>1, FileSelectionAssumption
    <3>2. QED
      BY <3>1, MembersType DEF Followed
  <2>2. QED
    BY <1>3, <2>1 DEF Walked, Followed
<1>4. ASSUME NEW seen \in SUBSET Directories,
             (Members(arguments) \cap Directories) \ policy.roots \subseteq seen,
             \A d \in seen : Followed(d) \subseteq seen
      PROVE  Walked \subseteq seen
  BY <1>4 DEF Walked, Followed
<1>5. QED
  BY <1>1, <1>2, <1>3, <1>4

\* What the documentation promises does not change in a run.
LEMMA PromiseKept ==
  ASSUME UNCHANGED setting
  PROVE  /\ Walked' = Walked /\ Explicit' = Explicit /\ Discovered' = Discovered /\ Wanted' = Wanted
         /\ \A d : Followed(d)' = Followed(d)
<1>1. policy' = policy /\ arguments' = arguments
  BY DEF setting
<1>2. Walked' = Walked
  BY <1>1 DEF Walked
<1>3. Explicit' = Explicit
  BY <1>1 DEF Explicit
<1>4. Discovered' = Discovered
  BY <1>2 DEF Discovered
<1>5. Wanted' = Wanted
  BY <1>1, <1>3, <1>4 DEF Wanted
<1>6. \A d : Followed(d)' = Followed(d)
  BY <1>1 DEF Followed
<1>7. QED
  BY <1>2, <1>3, <1>4, <1>5, <1>6

\* The next argument is given.
LEMMA NextArgument ==
  ASSUME TypeOK, Collecting
  PROVE  /\ Given' = Given \cup {Argument}
         /\ Argument \in Members(arguments) /\ Argument \in Directories \cup Paths
<1>1. /\ taken \in Nat /\ taken < Len(arguments) /\ taken' = taken + 1 /\ arguments' = arguments
      /\ arguments \in Seq(Directories \cup Paths)
  BY DEF TypeOK, Collecting, setting
<1>2. taken + 1 \in DOMAIN arguments
  BY <1>1
<1>3. Argument \in Members(arguments) /\ Argument \in Directories \cup Paths
  BY <1>1, <1>2 DEF Argument, Members
<1>4. 1..(taken + 1) = (1..taken) \cup {taken + 1}
  BY <1>1
<1>5. QED
  BY <1>1, <1>3, <1>4 DEF Given, Argument

\* An argument is a file, a rejected directory or the root of a walk.
LEMMA ArgumentExplained ==
  ASSUME IInv, SelectionInv, CollectFile \/ RejectRoot \/ WalkRoot
  PROVE  Collection'
<1>1. /\ Collecting /\ UNCHANGED setting /\ TypeOK
      /\ WalkShape /\ walk = <<>> /\ Undecided(collected, TRUE) = Given \cap Paths
      /\ Taken(collected, TRUE) = {} /\ Taken(collected, FALSE) = {}
  BY DEF CollectFile, RejectRoot, WalkRoot, Collecting, IInv, SelectionInv, Collection, WalkShape
<1>2. PICK seen \in SUBSET Walked : Explains(seen)
  BY <1>1 DEF Collecting, SelectionInv, Collection
<1>3. /\ Given' = Given \cup {Argument}
      /\ Argument \in Members(arguments) /\ Argument \in Directories \cup Paths
  BY <1>1, NextArgument
<1>4. /\ Walked' = Walked /\ \A d : Followed(d)' = Followed(d)
      /\ policy' = policy /\ arguments' = arguments /\ collected \in Seq(Decisions)
      /\ Members(<<>>) = {} /\ Directories \cap Paths = {}
  BY <1>1, PromiseKept, FileSelectionAssumption DEF setting, TypeOK, Members
<1>5. CASE CollectFile
  <2>. DEFINE d == Candidate(Argument, TRUE)
  <2>1. /\ collected' = Append(collected, d) /\ UNCHANGED <<phase, walk>> /\ Argument \in Paths
        /\ phase = "collecting"
    BY <1>5 DEF CollectFile, Collecting
  <2>2. /\ d \in Decisions /\ d.path = Argument /\ d.reason = "candidate" /\ d.explicit = TRUE
        /\ ~Accepted(d)
    BY <1>3 DEF Candidate, Decisions, Reasons, Accepted
  <2>. HIDE DEF d
  <2>3. /\ Undecided(collected', TRUE) = Undecided(collected, TRUE) \cup {Argument}
        /\ Undecided(collected', FALSE) = Undecided(collected, FALSE)
        /\ Taken(collected', TRUE) = {} /\ Taken(collected', FALSE) = {}
    BY <1>1, <1>4, <2>1, <2>2, StreamAppend
  <2>4. WalkShape'
    BY <1>1, <1>4, <2>1 DEF WalkShape
  <2>5. Explains(seen)'
    BY <1>2, <1>3, <1>4, <2>1, <2>3 DEF Explains
  <2>6. QED
    BY <1>1, <1>3, <1>4, <2>1, <2>3, <2>4, <2>5 DEF Collection
<1>6. CASE RejectRoot
  <2>. DEFINE d == Decided(Argument, "excluded", TRUE)
  <2>1. /\ collected' = Append(collected, d) /\ UNCHANGED <<phase, walk>> /\ Argument \in policy.roots
        /\ phase = "collecting"
    BY <1>6 DEF RejectRoot, Collecting
  <2>2. Argument \in Directories
    BY <1>1, <2>1 DEF TypeOK, Policy
  <2>3. d \in Decisions /\ d.reason # "candidate" /\ ~Accepted(d)
    BY <1>3 DEF Decided, Decisions, Reasons, Accepted
  <2>. HIDE DEF d
  <2>4. /\ \A explicit \in BOOLEAN : /\ Undecided(collected', explicit) = Undecided(collected, explicit)
                                     /\ Taken(collected', explicit) = {}
    BY <1>1, <1>4, <2>1, <2>3, StreamAppend
  <2>5. WalkShape'
    BY <1>1, <1>4, <2>1 DEF WalkShape
  <2>6. Explains(seen)'
    BY <1>2, <1>3, <1>4, <2>1, <2>4 DEF Explains
  <2>7. QED
    BY <1>1, <1>3, <1>4, <2>1, <2>2, <2>4, <2>5, <2>6 DEF Collection
<1>7. CASE WalkRoot
  <2>1. /\ walk' = <<Argument>> /\ phase' = "walking" /\ collected' = collected
        /\ Argument \in Directories \ policy.roots /\ Members(walk') = {Argument}
    BY <1>7 DEF WalkRoot, Members
  <2>2. Argument \in Walked
    BY <1>1, <1>3, <2>1, WalkedFacts
  <2>3. WalkShape'
    BY <1>4, <2>1, <2>2 DEF WalkShape
  <2>4. Explains(seen)'
    BY <1>1, <1>2, <1>3, <1>4, <2>1 DEF Explains
  <2>5. QED
    BY <1>1, <1>3, <1>4, <2>1, <2>3, <2>4 DEF Collection
<1>8. QED
  BY <1>5, <1>6, <1>7

\* The directory that is read keeps what os.walk follows of it.
LEMMA DirectoryExplained ==
  ASSUME IInv, SelectionInv, EnterDirectory \/ PruneDirectory \/ KeepDirectory
  PROVE  Collection'
<1>. DEFINE here == Head(walk)
<1>1. /\ UNCHANGED <<policy, arguments, taken, walk>> /\ phase \in {"walking", "reading"}
      /\ phase' = "reading" /\ walk # <<>> /\ walk \in Seq(Directories) /\ unread \in Seq(Directories)
      /\ kept \in Seq(Directories) /\ collected \in Seq(Decisions) /\ TypeOK
  BY DEF EnterDirectory, PruneDirectory, KeepDirectory, ReadDirectory, IInv, TypeOK, Order, setting
<1>2. /\ WalkShape /\ Undecided(collected, TRUE) = Given \cap Paths
      /\ Taken(collected, TRUE) = {} /\ Taken(collected, FALSE) = {}
  BY <1>1 DEF SelectionInv, Collection
<1>3. PICK seen \in SUBSET Walked : Explains(seen)
  BY <1>1 DEF SelectionInv, Collection
<1>4. /\ Walked' = Walked /\ \A d : Followed(d)' = Followed(d)
      /\ here \in Directories /\ SubDirectories[here] \in Seq(Directories) /\ Members(<<>>) = {}
  BY <1>1, PromiseKept, FileSelectionAssumption DEF setting, Members
<1>5. /\ Undecided(collected', TRUE) = Undecided(collected, TRUE)
      /\ Undecided(collected', FALSE) = Undecided(collected, FALSE)
      /\ Taken(collected', TRUE) = {} /\ Taken(collected', FALSE) = {}
  <2>1. CASE collected' = collected
    BY <1>2, <2>1
  <2>2. CASE PruneDirectory
    <3>. DEFINE d == Decided(Head(unread), IF Head(unread) \in policy.cache THEN "cache-directory" ELSE "excluded", FALSE)
    <3>1. collected' = Append(collected, d) /\ Head(unread) \in Directories
      BY <1>1, <2>2, MembersSplit DEF PruneDirectory, ReadDirectory
    <3>2. d \in Decisions /\ d.reason # "candidate" /\ ~Accepted(d)
      BY <3>1 DEF Decided, Decisions, Reasons, Accepted
    <3>. HIDE DEF d
    <3>3. QED
      BY <1>1, <1>2, <3>1, <3>2, StreamAppend
  <2>3. QED
    BY <2>1, <2>2 DEF EnterDirectory, KeepDirectory
<1>6. Explains(seen)'
  BY <1>1, <1>3, <1>4, <1>5 DEF Explains, Given
<1>7. /\ Members(unread') \subseteq Members(SubDirectories[here])
      /\ Members(kept') \subseteq Followed(here)
      /\ Followed(here) \subseteq Members(kept') \cup Members(unread')
  <2>1. CASE EnterDirectory
    BY <1>4, <2>1 DEF EnterDirectory, Followed
  <2>2. CASE PruneDirectory \/ KeepDirectory
    <3>1. /\ phase = "reading" /\ unread # <<>> /\ unread' = Tail(unread)
          /\ Head(unread) \in Followed(here) => kept' = Append(kept, Head(unread))
          /\ \/ kept' = kept
             \/ /\ kept' = Append(kept, Head(unread))
                /\ Head(unread) \notin policy.cache \cup policy.pruned \cup Links
      <4>1. CASE PruneDirectory
        BY <4>1 DEF PruneDirectory, ReadDirectory, Followed
      <4>2. CASE KeepDirectory
        BY <4>2 DEF KeepDirectory, ReadDirectory, Followed
      <4>3. QED
        BY <2>2, <4>1, <4>2
    <3>2. /\ Members(unread) = {Head(unread)} \cup Members(unread') /\ Head(unread) \in Directories
      BY <1>1, <3>1, MembersSplit
    <3>3. /\ Members(unread) \subseteq Members(SubDirectories[here])
          /\ Members(kept) \subseteq Followed(here)
          /\ Followed(here) \subseteq Members(kept) \cup Members(unread)
      BY <1>2, <3>1 DEF WalkShape
    <3>4. kept' = Append(kept, Head(unread)) => Members(kept') = Members(kept) \cup {Head(unread)}
      BY <1>1, <3>2, MembersAppend
    <3>5. kept' = Append(kept, Head(unread)) /\ kept' # kept => Head(unread) \in Followed(here)
      BY <3>1, <3>2, <3>3 DEF Followed
    <3>6. Members(kept') \subseteq Followed(here)
      BY <3>1, <3>3, <3>4, <3>5
    <3>7. Followed(here) \subseteq Members(kept') \cup Members(unread')
      BY <3>1, <3>2, <3>3, <3>4
    <3>8. QED
      BY <3>2, <3>3, <3>6, <3>7
  <2>3. QED
    BY <2>1, <2>2
<1>8. WalkShape'
  BY <1>1, <1>2, <1>4, <1>7 DEF WalkShape
<1>9. QED
  BY <1>1, <1>2, <1>4, <1>5, <1>6, <1>8 DEF Collection, Given

\* The files of a directory are candidates, and its directories come next.
LEMMA EntriesExplained ==
  ASSUME IInv, SelectionInv, CollectEntries
  PROVE  Collection'
<1>. DEFINE here == Head(walk)
<1>1. /\ UNCHANGED <<policy, arguments, taken>> /\ phase = "reading" /\ phase' = "walking" /\ walk # <<>>
      /\ walk \in Seq(Directories) /\ kept \in Seq(Directories) /\ collected \in Seq(Decisions)
      /\ TypeOK /\ unread = <<>> /\ walk' = kept \o Tail(walk)
  BY DEF CollectEntries, IInv, TypeOK, Order, setting
<1>2. /\ WalkShape /\ Undecided(collected, TRUE) = Given \cap Paths
      /\ Taken(collected, TRUE) = {} /\ Taken(collected, FALSE) = {}
  BY <1>1 DEF SelectionInv, Collection
<1>3. PICK seen \in SUBSET Walked : Explains(seen)
  BY <1>1 DEF SelectionInv, Collection
<1>4. /\ Walked' = Walked /\ \A d : Followed(d)' = Followed(d) /\ Given' = Given /\ Members(<<>>) = {}
  BY <1>1, PromiseKept DEF setting, Members, Given
<1>5. /\ Members(walk) = {here} \cup Members(Tail(walk)) /\ here \in Directories /\ Tail(walk) \in Seq(Directories)
  BY <1>1, MembersSplit
<1>6. Members(walk') = Members(kept) \cup Members(Tail(walk))
  BY <1>1, <1>5, MembersConcat
<1>7. /\ Undecided(collected', FALSE) = Undecided(collected, FALSE) \cup Members(Entries[here])
      /\ Undecided(collected', TRUE) = Undecided(collected, TRUE)
      /\ Taken(collected', TRUE) = {} /\ Taken(collected', FALSE) = {}
  <2>1. Entries[here] \in Seq(Paths)
    BY <1>5, FileSelectionAssumption
  <2>2. collected' = collected \o [n \in 1..Len(Entries[here]) |-> Candidate(Entries[here][n], FALSE)]
    BY DEF CollectEntries
  <2>3. QED
    BY <1>1, <1>2, <2>1, <2>2, StreamConcat
<1>8. /\ here \in Walked /\ Members(Tail(walk)) \subseteq Walked
      /\ Members(kept) \subseteq Followed(here) /\ Followed(here) \subseteq Members(kept)
  BY <1>1, <1>2, <1>4, <1>5 DEF WalkShape
<1>9. Members(walk') \subseteq Walked
  BY <1>1, <1>6, <1>8, WalkedFacts
<1>. PICK wider : wider = seen \cup {here}
  OBVIOUS
<1>10. Explains(wider)'
  <2>1. UNION {Members(Entries[d]) : d \in wider}
          = (UNION {Members(Entries[d]) : d \in seen}) \cup Members(Entries[here])
    OBVIOUS
  <2>2. Undecided(collected', FALSE) = UNION {Members(Entries[d]) : d \in wider}
    BY <1>3, <1>7, <2>1 DEF Explains
  <2>3. \A d \in wider : Followed(d) \subseteq wider \cup Members(walk')
    BY <1>3, <1>5, <1>6, <1>8 DEF Explains
  <2>4. (Given \cap Directories) \ policy.roots \subseteq wider \cup Members(walk')
    BY <1>3, <1>5, <1>6 DEF Explains
  <2>5. QED
    BY <1>1, <1>4, <2>2, <2>3, <2>4 DEF Explains
<1>11. WalkShape'
  BY <1>1, <1>4, <1>9 DEF WalkShape
<1>12. wider \in SUBSET Walked
  BY <1>3, <1>8
<1>13. QED
  BY <1>1, <1>2, <1>4, <1>7, <1>10, <1>11, <1>12 DEF Collection

LEMMA EndWalkExplained ==
  ASSUME IInv, SelectionInv, EndWalk
  PROVE  Collection'
<1>1. /\ UNCHANGED <<policy, arguments, taken, walk, collected>> /\ phase = "walking"
      /\ phase' = "collecting" /\ walk = <<>>
  BY DEF EndWalk, setting, walkVars
<1>2. /\ Walked' = Walked /\ \A d : Followed(d)' = Followed(d) /\ Given' = Given
  BY <1>1, PromiseKept DEF setting, Given
<1>3. PICK seen \in SUBSET Walked : Explains(seen)
  BY <1>1 DEF SelectionInv, Collection
<1>4. WalkShape' /\ Explains(seen)'
  BY <1>1, <1>2, <1>3 DEF WalkShape, Explains, SelectionInv, Collection
<1>5. QED
  BY <1>1, <1>2, <1>4 DEF Collection, SelectionInv

\* All that is walked was seen.
LEMMA CollectionEnds ==
  ASSUME IInv, SelectionInv, EndCollection
  PROVE  Filters'
<1>1. /\ UNCHANGED <<policy, arguments, collected>> /\ phase = "collecting" /\ phase' = "evaluating"
      /\ taken = Len(arguments) /\ arguments \in Seq(Directories \cup Paths) /\ TypeOK
  BY DEF EndCollection, setting, walkVars, IInv, TypeOK
<1>2. PICK seen \in SUBSET Walked : Explains(seen)
  BY <1>1 DEF SelectionInv, Collection
<1>3. /\ Undecided(collected, TRUE) = Given \cap Paths
      /\ Taken(collected, TRUE) = {} /\ Taken(collected, FALSE) = {} /\ walk = <<>>
  BY <1>1 DEF SelectionInv, Collection, WalkShape
<1>4. Given = Members(arguments)
  BY <1>1, LenProperties DEF Given, Members
<1>5. Walked \subseteq seen
  <2>1. seen \in SUBSET Directories /\ Members(walk) = {}
    BY <1>1, <1>3, WalkedFacts DEF Members
  <2>2. QED
    BY <1>1, <1>2, <1>4, <2>1, WalkedFacts DEF Explains
<1>6. Undecided(collected, FALSE) = Discovered
  BY <1>2, <1>5 DEF Explains, Discovered
<1>7. Explicit' = Explicit /\ Discovered' = Discovered
  BY <1>1, PromiseKept DEF setting
<1>8. QED
  BY <1>1, <1>3, <1>4, <1>6, <1>7 DEF Filters, Explicit

\* Evaluation takes what settings allow.
LEMMA EvaluationTakes ==
  ASSUME IInv, SelectionInv, EvaluateCandidates
  PROVE  Filters'
<1>1. /\ UNCHANGED <<policy, arguments>> /\ phase = "evaluating" /\ phase' = "filtering"
      /\ DOMAIN collected' = DOMAIN collected
      /\ \A n \in DOMAIN collected : collected'[n] = EvaluateCandidate(collected[n])
  BY DEF EvaluateCandidates, setting
<1>2. /\ Undecided(collected, TRUE) = Explicit /\ Undecided(collected, FALSE) = Discovered
      /\ Taken(collected, TRUE) = {} /\ Taken(collected, FALSE) = {}
  BY <1>1 DEF SelectionInv, Filters
<1>3. \A n \in DOMAIN collected : collected[n] \in Decisions /\ ~Accepted(collected[n])
  <2>1. \A n \in DOMAIN collected : collected[n] \in Decisions
    BY DEF IInv, TypeOK
  <2>2. QED
    BY <1>2, <2>1 DEF Taken, Decisions
<1>4. \A n \in DOMAIN collected :
        /\ collected'[n].path = collected[n].path /\ collected'[n].explicit = collected[n].explicit
        /\ Accepted(collected'[n]) <=>
             /\ collected[n].reason = "candidate"
             /\ IF collected[n].explicit THEN collected[n].path \notin policy.forced \cap policy.excluded
                ELSE collected[n].path \in policy.included \ policy.excluded
  <2>1. ASSUME NEW c \in Decisions, ~Accepted(c)
        PROVE  /\ EvaluateCandidate(c).path = c.path /\ EvaluateCandidate(c).explicit = c.explicit
               /\ Accepted(EvaluateCandidate(c)) <=>
                    /\ c.reason = "candidate"
                    /\ IF c.explicit THEN c.path \notin policy.forced \cap policy.excluded
                       ELSE c.path \in policy.included \ policy.excluded
    BY <2>1 DEF EvaluateCandidate, Decisions, Accepted
  <2>2. QED
    BY <1>1, <1>3, <2>1
<1>5. Taken(collected', TRUE) = Undecided(collected, TRUE) \ (policy.forced \cap policy.excluded)
  BY <1>1, <1>4 DEF Taken, Undecided
<1>6. Taken(collected', FALSE) = (Undecided(collected, FALSE) \cap policy.included) \ policy.excluded
  BY <1>1, <1>4 DEF Taken, Undecided
<1>7. Explicit' = Explicit /\ Discovered' = Discovered
  BY <1>1, PromiseKept DEF setting
<1>8. QED
  BY <1>1, <1>2, <1>5, <1>6, <1>7 DEF Filters

\* Git takes away what it ignores of the paths found by walking.
LEMMA GitignoreTakes ==
  ASSUME IInv, SelectionInv, ApplyGitignore
  PROVE  Filters'
<1>1. /\ UNCHANGED <<policy, arguments>> /\ phase = "filtering" /\ phase' = "deduplicating"
      /\ DOMAIN collected' = DOMAIN collected
      /\ \A n \in DOMAIN collected :
           collected'[n] = IF /\ Accepted(collected[n]) /\ ~collected[n].explicit
                              /\ collected[n].path \in Queried \cap policy.ignored
                           THEN [collected[n] EXCEPT !.reason = "gitignored"]
                           ELSE collected[n]
  BY DEF ApplyGitignore, setting
<1>2. /\ Taken(collected, TRUE) = Explicit \ (policy.forced \cap policy.excluded)
      /\ Taken(collected, FALSE) = (Discovered \cap policy.included) \ policy.excluded
  BY <1>1 DEF SelectionInv, Filters
<1>3. \A n \in DOMAIN collected : collected[n] \in Decisions
  BY DEF IInv, TypeOK
<1>4. \A n \in DOMAIN collected :
        /\ collected'[n].path = collected[n].path /\ collected'[n].explicit = collected[n].explicit
        /\ Accepted(collected'[n]) <=>
             /\ Accepted(collected[n])
             /\ collected[n].explicit \/ collected[n].path \notin Queried \cap policy.ignored
  <2>1. \A c \in Decisions : LET g == [c EXCEPT !.reason = "gitignored"]
                             IN  g.path = c.path /\ g.explicit = c.explicit /\ ~Accepted(g)
    BY DEF Decisions, Accepted
  <2>2. QED
    BY <1>1, <1>3, <2>1
<1>5. Taken(collected', TRUE) = Taken(collected, TRUE)
  BY <1>1, <1>4 DEF Taken
<1>6. Taken(collected', FALSE) = Taken(collected, FALSE) \ (Queried \cap policy.ignored)
  BY <1>1, <1>3, <1>4 DEF Taken, Decisions
<1>7. Queried = IF policy.respect THEN Taken(collected, FALSE) \cap policy.worktree ELSE {}
  <2>1. \A n \in DOMAIN collected : ~collected[n].explicit <=> collected[n].explicit = FALSE
    BY <1>3 DEF Decisions
  <2>2. CASE policy.respect
    BY <2>1, <2>2 DEF Queried, Taken
  <2>3. CASE ~policy.respect
    BY <2>3 DEF Queried
  <2>4. QED
    BY <2>2, <2>3
<1>8. Taken(collected', TRUE) \cup Taken(collected', FALSE) = Wanted
  BY <1>2, <1>5, <1>6, <1>7 DEF Wanted
<1>9. Wanted' = Wanted
  BY <1>1, PromiseKept DEF setting
<1>10. QED
  BY <1>1, <1>8, <1>9 DEF Filters

\* Deduplication answers every accepted spelling.
LEMMA DeduplicationAnswers ==
  ASSUME IInv, SelectionInv, PassOn \/ AcceptFirst \/ ReplaceSpelling \/ RejectAlias
  PROVE  SelectionInv'
<1>. DEFINE n == Len(decisions) + 1
<1>1. Deduplicating /\ phase = "deduplicating"
      /\ UNCHANGED <<policy, arguments, present, phase, taken, walk, unread, kept, collected>>
  BY DEF PassOn, AcceptFirst, ReplaceSpelling, RejectAlias, Deduplicating, setting, walkVars
<1>2. Collection' /\ Filters'
  <2>1. Wanted' = Wanted
    BY <1>1, PromiseKept DEF setting
  <2>2. QED
    BY <1>1, <2>1 DEF SelectionInv, Collection, Filters
<1>3. /\ n \in DOMAIN collected /\ Latest = collected[n] /\ DOMAIN decisions = 1..(n - 1) /\ n \in Nat
      /\ Displayed(Latest) \in Decisions
      /\ Accepted(Displayed(Latest)) <=> Accepted(Latest)
  BY <1>1, NextSpelling
<1>4. /\ decisions \in Seq(Decisions) /\ \A f \in Files : acceptedBy[f] # 0 => acceptedBy[f] \in DOMAIN decisions
  <2>1. decisions \in Seq(Decisions) /\ acceptedBy \in [Files -> 0..Len(decisions)]
    BY DEF IInv, TypeOK
  <2>2. QED
    BY <1>3, <2>1
<1>5. \A d \in Decisions : AsDuplicate(d) \in Decisions /\ AsDuplicate(d).reason = "duplicate"
  BY DEF AsDuplicate, Decisions, Reasons
<1>6. /\ DOMAIN decisions' = 1..n
      /\ \A m \in 1..(n - 1) : decisions'[m] = decisions[m] \/ decisions'[m].reason = "duplicate"
      /\ Accepted(Latest) => Accepted(decisions'[n]) \/ decisions'[n].reason = "duplicate"
  <2>1. CASE PassOn \/ AcceptFirst
    <3>1. decisions' = Append(decisions, Displayed(Latest))
      BY <2>1 DEF PassOn, AcceptFirst
    <3>2. QED
      BY <1>3, <1>4, <3>1, Appended
  <2>2. CASE RejectAlias
    <3>1. decisions' = Append(decisions, AsDuplicate(Displayed(Latest)))
      BY <2>2 DEF RejectAlias
    <3>2. QED
      BY <1>3, <1>4, <1>5, <3>1, Appended
  <2>3. CASE ReplaceSpelling
    <3>. DEFINE k == acceptedBy[Physical[Latest.path]]
                s == [decisions EXCEPT ![k] = AsDuplicate(@)]
    <3>1. decisions' = Append(s, Displayed(Latest)) /\ k # 0 /\ Identified
      BY <2>3 DEF ReplaceSpelling
    <3>2. k \in DOMAIN decisions /\ decisions[k] \in Decisions
      BY <1>1, <1>4, <3>1, NextSpelling DEF Identified
    <3>3. s \in Seq(Decisions) /\ Len(s) = Len(decisions)
      BY <1>4, <1>5, <3>2
    <3>4. \A m \in 1..(n - 1) : s[m] = decisions[m] \/ s[m].reason = "duplicate"
      BY <1>3, <1>5, <3>2
    <3>. HIDE DEF s, k
    <3>5. QED
      BY <1>3, <3>1, <3>3, <3>4, Appended
  <2>4. QED
    BY <2>1, <2>2, <2>3
<1>7. Answered'
  <2>1. \A m \in DOMAIN decisions' : m = n \/ m \in 1..(n - 1)
    BY <1>3, <1>6
  <2>2. \A m \in DOMAIN decisions : Accepted(collected[m]) =>
          Accepted(decisions[m]) \/ decisions[m].reason = "duplicate"
    BY DEF SelectionInv, Answered
  <2>3. \A m \in DOMAIN decisions' : Accepted(collected[m]) =>
          Accepted(decisions'[m]) \/ decisions'[m].reason = "duplicate"
    BY <1>3, <1>6, <2>1, <2>2
  <2>4. QED
    BY <1>1, <2>3 DEF Answered
<1>8. QED
  BY <1>2, <1>7 DEF SelectionInv

LEMMA InitSelection == ASSUME Init, IInv PROVE SelectionInv
<1>1. /\ phase = "collecting" /\ taken = 0 /\ walk = <<>> /\ collected = <<>> /\ decisions = <<>>
  BY DEF Init
<1>2. Given = {} /\ Members(walk) = {} /\ DOMAIN collected = {}
  BY <1>1 DEF Given, Members
<1>3. \A explicit \in BOOLEAN : Undecided(collected, explicit) = {} /\ Taken(collected, explicit) = {}
  BY <1>2 DEF Undecided, Taken
<1>4. Explains({}) /\ WalkShape
  BY <1>1, <1>2, <1>3 DEF Explains, WalkShape
<1>5. QED
  BY <1>1, <1>2, <1>3, <1>4 DEF SelectionInv, Collection, Filters, Answered

LEMMA SelectionStep == ASSUME IInv, SelectionInv, [Next]_vars PROVE SelectionInv'
<1>1. IInv'
  BY StepKeeps
<1>2. ASSUME phase' \notin {"deduplicating", "done"} PROVE Answered'
  BY <1>1, <1>2 DEF IInv, Order, Answered
<1>3. CASE CollectFile \/ RejectRoot \/ WalkRoot
  <2>1. Collection' /\ phase' \in {"collecting", "walking"}
    BY <1>3, ArgumentExplained DEF CollectFile, RejectRoot, WalkRoot, Collecting
  <2>2. QED
    BY <1>2, <2>1 DEF SelectionInv, Filters
<1>4. CASE EnterDirectory \/ PruneDirectory \/ KeepDirectory
  <2>1. Collection' /\ phase' = "reading"
    BY <1>4, DirectoryExplained DEF EnterDirectory, PruneDirectory, KeepDirectory, ReadDirectory
  <2>2. QED
    BY <1>2, <2>1 DEF SelectionInv, Filters
<1>5. CASE CollectEntries \/ EndWalk
  <2>1. Collection' /\ phase' \in {"collecting", "walking"}
    BY <1>5, EntriesExplained, EndWalkExplained DEF CollectEntries, EndWalk
  <2>2. QED
    BY <1>2, <2>1 DEF SelectionInv, Filters
<1>6. CASE SettingsFail \/ GitFails
  <2>1. phase' = "failed"
    BY <1>6 DEF SettingsFail, GitFails
  <2>2. QED
    BY <1>2, <2>1 DEF SelectionInv, Collection, Filters
<1>7. CASE EndCollection
  <2>1. Filters' /\ phase' = "evaluating"
    BY <1>7, CollectionEnds DEF EndCollection
  <2>2. QED
    BY <1>2, <2>1 DEF SelectionInv, Collection
<1>8. CASE EvaluateCandidates
  <2>1. Filters' /\ phase' = "filtering"
    BY <1>8, EvaluationTakes DEF EvaluateCandidates
  <2>2. QED
    BY <1>2, <2>1 DEF SelectionInv, Collection
<1>9. CASE ApplyGitignore
  <2>1. Filters' /\ phase' = "deduplicating" /\ decisions' = <<>>
    BY <1>9, GitignoreTakes DEF ApplyGitignore, IInv, Order
  <2>2. QED
    BY <2>1 DEF SelectionInv, Collection, Answered
<1>10. CASE PassOn \/ AcceptFirst \/ ReplaceSpelling \/ RejectAlias
  BY <1>10, DeduplicationAnswers
<1>11. CASE EndDeduplication
  <2>1. /\ phase = "deduplicating" /\ phase' = "done" /\ Len(decisions) = Len(collected)
        /\ UNCHANGED <<policy, arguments, collected, decisions>>
    BY <1>11 DEF EndDeduplication, setting
  <2>2. Wanted' = Wanted
    BY <2>1, PromiseKept DEF setting
  <2>3. QED
    BY <2>1, <2>2 DEF SelectionInv, Collection, Filters, Answered
<1>12. CASE Vanish \/ UNCHANGED vars
  <2>1. UNCHANGED <<policy, arguments, phase, taken, walk, unread, kept, collected, decisions>>
    BY <1>12 DEF Vanish, vars, setting, walkVars
  <2>2. /\ Walked' = Walked /\ Explicit' = Explicit /\ Discovered' = Discovered /\ Wanted' = Wanted
        /\ \A d : Followed(d)' = Followed(d) /\ Given' = Given
    BY <2>1, PromiseKept DEF setting, Given
  <2>3. WalkShape' <=> WalkShape
    BY <2>1, <2>2 DEF WalkShape
  <2>4. \A seen : Explains(seen)' <=> Explains(seen)
    BY <2>1, <2>2 DEF Explains
  <2>5. Collection'
    BY <2>1, <2>2, <2>3, <2>4 DEF SelectionInv, Collection
  <2>6. QED
    BY <2>1, <2>2, <2>5 DEF SelectionInv, Filters, Answered
<1>13. QED
  BY <1>3, <1>4, <1>5, <1>6, <1>7, <1>8, <1>9, <1>10, <1>11, <1>12 DEF Next

\* A decision that is still open for deduplication opens the file of its spelling.
LEMMA SpellingFile ==
  ASSUME IInv, NormalizationKeepsFile, NEW n \in DOMAIN decisions, Accepted(collected[n])
  PROVE  /\ n \in DOMAIN collected /\ collected[n].path \in Paths
         /\ Physical[decisions[n].path] = FileOf(n) /\ FileOf(n) \in Files
<1>1. n \in DOMAIN collected
  BY DEF IInv, TypeOK
<1>2. decisions[n].path = DisplayPath[collected[n].path] /\ collected[n].path \in Paths
  BY <1>1 DEF IInv, TypeOK, WellFormed, Dedup
<1>3. QED
  BY <1>1, <1>2, FileSelectionAssumption DEF NormalizationKeepsFile, FileOf

\* The invariant of collection, filters and deduplication together.
THEOREM SelectionExplained == Spec => [](IInv /\ SelectionInv)
<1>1. Init => IInv /\ SelectionInv
  BY InitIInv, InitSelection
<1>2. IInv /\ SelectionInv /\ [Next]_vars => IInv' /\ SelectionInv'
  BY StepKeeps, SelectionStep
<1>3. QED
  BY <1>1, <1>2, PTL DEF Spec

\* Where displaying a spelling does not change what it opens, the files
\* selected are exactly those of the decision table, for any directory tree,
\* command line and policy (select_files).
THEOREM SelectionAsDocumented == NormalizationKeepsFile /\ Spec => []SelectsAsDocumented
<1>1. ASSUME IInv, SelectionInv, NormalizationKeepsFile, phase = "done"
      PROVE  {Physical[p] : p \in Selected} = {Physical[p] : p \in Wanted}
  <2>1. /\ Taken(collected, TRUE) \cup Taken(collected, FALSE) = Wanted
        /\ DOMAIN decisions = DOMAIN collected
    <3>1. Len(decisions) = Len(collected) /\ Taken(collected, TRUE) \cup Taken(collected, FALSE) = Wanted
      BY <1>1 DEF SelectionInv, Filters, Answered
    <3>2. decisions \in Seq(Decisions) /\ collected \in Seq(Decisions)
      BY <1>1 DEF IInv, TypeOK
    <3>3. DOMAIN decisions = 1..Len(decisions) /\ DOMAIN collected = 1..Len(collected)
      BY <3>2, LenProperties
    <3>4. QED
      BY <3>1, <3>3
  <2>2. ASSUME NEW p \in Selected PROVE \E q \in Wanted : Physical[q] = Physical[p]
    <3>1. PICK n \in DOMAIN decisions : Accepted(decisions[n]) /\ p = decisions[n].path
      BY DEF Selected
    <3>2. Accepted(collected[n])
      BY <1>1, <3>1 DEF IInv, Dedup
    <3>3. Physical[p] = Physical[collected[n].path]
      BY <1>1, <3>1, <3>2, SpellingFile DEF FileOf
    <3>4. collected[n] \in Decisions
      BY <1>1, <2>1 DEF IInv, TypeOK
    <3>5. collected[n].path \in Wanted
      BY <2>1, <3>2, <3>4 DEF Taken, Decisions
    <3>6. QED
      BY <3>3, <3>5
  <2>3. ASSUME NEW q \in Wanted PROVE \E p \in Selected : Physical[p] = Physical[q]
    <3>1. PICK n \in DOMAIN collected : Accepted(collected[n]) /\ q = collected[n].path
      BY <2>1 DEF Taken
    <3>2. n \in DOMAIN decisions /\ Physical[decisions[n].path] = FileOf(n) /\ FileOf(n) = Physical[q] /\ FileOf(n) \in Files
      BY <1>1, <2>1, <3>1, SpellingFile DEF FileOf
    <3>3. CASE Accepted(decisions[n])
      BY <3>2, <3>3 DEF Selected
    <3>4. CASE decisions[n].reason = "duplicate"
      <4>. DEFINE m == acceptedBy[FileOf(n)]
      <4>1. m # 0
        BY <1>1, <3>2, <3>4 DEF IInv, Dedup
      <4>2. m \in DOMAIN decisions /\ Accepted(decisions[m]) /\ FileOf(m) = FileOf(n)
        BY <1>1, <3>2, <4>1 DEF IInv, TypeOK, Dedup
      <4>3. Accepted(collected[m])
        BY <1>1, <4>2 DEF IInv, Dedup
      <4>4. Physical[decisions[m].path] = FileOf(m)
        BY <1>1, <4>2, <4>3, SpellingFile
      <4>5. QED
        BY <3>2, <4>2, <4>4 DEF Selected
    <3>5. QED
      BY <1>1, <3>1, <3>2, <3>3, <3>4 DEF SelectionInv, Answered
  <2>4. {Physical[p] : p \in Selected} \subseteq {Physical[p] : p \in Wanted}
    BY <2>2
  <2>5. {Physical[p] : p \in Wanted} \subseteq {Physical[p] : p \in Selected}
    BY <2>3
  <2>6. QED
    BY <2>4, <2>5
<1>2. NormalizationKeepsFile /\ IInv /\ SelectionInv => SelectsAsDocumented
  BY <1>1 DEF SelectsAsDocumented
<1>3. NormalizationKeepsFile => []NormalizationKeepsFile
  OBVIOUS
<1>4. QED
  BY SelectionExplained, <1>2, <1>3, PTL
=============================================================================
