------------------------ MODULE SettingsResolverProofs ------------------------
(***************************************************************************)
(* Proofs about SettingsResolver, for any directories, configuration files,*)
(* command lines and edits: SettingsAreOneSnapshot, LookupsStayIndependent,*)
(* StrongestOriginsWin, SelectionsAreFair.                                 *)
(*                                                                         *)
(* A lookup goes up from its start; what it visited is not in closest, and *)
(* what it finds becomes the closest file of all of it (Search).  So each  *)
(* entry of closest is the one of the parent or the directory's own file   *)
(* (Chain), and the profile of a directory is the one kept for the source  *)
(* that its closest file gives (Shared).  What is kept is what a lookup of *)
(* its own would find, as long as nobody edits the files (Unedited),       *)
(* and the layers of a profile only raise the rank of a value's origin     *)
(* (SoundProfile).                                                         *)
(*                                                                         *)
(* A rule is enabled with the strength of its strongest match, which there *)
(* is because matches are finitely many.  Enabled rules are taken one after*)
(* the other by strength, then by code, which is a total order             *)
(* (TakenInOrder), and a rule is kept when none kept before it excludes it *)
(* (Greedy): what it loses to is not weaker, and the tie is an error       *)
(* (RivalsAreFair).                                                        *)
(***************************************************************************)
EXTENDS SettingsResolver, SequenceTheorems, FiniteSetTheorems, WellFoundedInduction, TLAPS

Sources == [kind : {"isolated", "explicit", "none", "auto"}, file : SourceFiles]

Lookups ==
    [start : Directories, at : Directories, visited : SUBSET Directories,
     source : Sources \cup {Nothing}]

SourceFor(file) == Source(IF file = Nothing THEN "none" ELSE "auto", file)

\* Configuration files are searched for.
Discovers == inputs # Nothing /\ ~invocation.isolated /\ inputs.explicit = Nothing

Shape ==
    /\ invocation \in Invocations
    /\ lookup # Nothing => lookup \in Lookups
    /\ inputs # Nothing =>
         inputs = [inline |-> inputs.inline, explicit |-> inputs.explicit] /\ inputs.explicit \in SourceFiles
    /\ DOMAIN closest \subseteq Directories
    /\ \A dir \in DOMAIN closest : closest[dir] \in {Nothing} \cup {Candidate(d) : d \in Directories}

Chain ==
    /\ \A dir \in DOMAIN closest :
         \/ closest[dir] = Candidate(dir)
         \/ dir = Root /\ closest[dir] = Nothing
         \/ dir # Root /\ ParentOf(dir) \in DOMAIN closest /\ closest[dir] = closest[ParentOf(dir)]
    /\ ~Discovers => DOMAIN closest = {}

Search ==
    lookup # Nothing =>
      /\ lookup.source = Nothing =>
           /\ lookup.visited \cap DOMAIN closest = {}
           /\ \A d \in lookup.visited : d # Root /\ (ParentOf(d) = lookup.at \/ ParentOf(d) \in lookup.visited)
           /\ lookup.start \in lookup.visited \cup {lookup.at}
      /\ lookup.source # Nothing =>
           /\ inputs # Nothing
           /\ Discovers => lookup.start \in DOMAIN closest /\ lookup.source = SourceFor(closest[lookup.start])

Shared ==
    /\ Nothing \notin DOMAIN bySource
    /\ inputs = Nothing => DOMAIN byDir = {}
    /\ Discovers => \A d \in DOMAIN byDir :
         /\ d \in DOMAIN closest /\ SourceFor(closest[d]) \in DOMAIN bySource
         /\ byDir[d] = bySource[SourceFor(closest[d])]

SnapshotInv == Shape /\ Chain /\ Search /\ Shared

LEMMA SourcesAreSources ==
  ASSUME NEW kind \in {"isolated", "explicit", "none", "auto"}, NEW file \in SourceFiles
  PROVE  Source(kind, file) \in Sources /\ Source(kind, file) # Nothing
BY ResolverAssumption DEF Source, Sources

LEMMA InitSnapshot == ASSUME Init PROVE SnapshotInv
<1>1. /\ invocation \in Invocations /\ lookup = Nothing /\ inputs = Nothing
      /\ DOMAIN closest = {} /\ DOMAIN bySource = {} /\ DOMAIN byDir = {}
  BY DEF Init, NoFunction
<1>2. QED
  BY <1>1 DEF SnapshotInv, Shape, Chain, Search, Shared, Discovers

\* The search of a lookup ends with the file that is in force where it is.
LEMMA FoundKeeps ==
  ASSUME SnapshotInv, Searching, NEW file \in {Nothing} \cup {Candidate(d) : d \in Directories},
         Found(file), UNCHANGED <<invocation, inputs, bySource, byDir>>,
         \/ lookup.at \notin DOMAIN closest /\ file = Candidate(lookup.at)
         \/ lookup.at \notin DOMAIN closest /\ lookup.at = Root /\ file = Nothing
         \/ lookup.at \in DOMAIN closest /\ file = closest[lookup.at]
  PROVE  SnapshotInv'
<1>. DEFINE at == lookup.at
            visited == lookup.visited
            start == lookup.start
<1>1. /\ lookup \in Lookups /\ lookup # Nothing /\ lookup.source = Nothing /\ Discovers /\ Discovers'
      /\ at \in Directories /\ visited \subseteq Directories /\ start \in Directories
  BY DEF Searching, Discovering, SnapshotInv, Shape, Discovers, Lookups
<1>2. /\ visited \cap DOMAIN closest = {}
      /\ \A d \in visited : d # Root /\ (ParentOf(d) = at \/ ParentOf(d) \in visited)
      /\ start \in visited \cup {at}
  BY <1>1 DEF SnapshotInv, Search
<1>3. /\ DOMAIN closest' = DOMAIN closest \cup visited \cup {at}
      /\ \A d \in DOMAIN closest : closest'[d] = closest[d]
      /\ \A d \in visited : closest'[d] = file
      /\ closest'[at] = file
  <2>1. closest' = [d \in DOMAIN closest \cup visited \cup {at} |-> IF d \in DOMAIN closest THEN closest[d] ELSE file]
    BY DEF Found
  <2>2. at \in DOMAIN closest => closest[at] = file
    OBVIOUS
  <2>3. QED
    BY <1>2, <2>1, <2>2
<1>4. lookup' = [lookup EXCEPT !.source = SourceFor(file)]
  BY DEF Found, SourceFor
<1>5. SourceFor(file) \in Sources /\ SourceFor(file) # Nothing
  <2>1. file \in SourceFiles
    BY DEF SourceFiles
  <2>2. QED
    BY <2>1, SourcesAreSources DEF SourceFor
<1>6. /\ lookup' \in Lookups /\ lookup'.source = SourceFor(file) /\ lookup'.start = start
  BY <1>1, <1>4, <1>5 DEF Lookups
<1>7. Shape'
  <2>1. \A d \in DOMAIN closest' : closest'[d] \in {Nothing} \cup {Candidate(e) : e \in Directories}
    BY <1>3 DEF SnapshotInv, Shape
  <2>2. DOMAIN closest' \subseteq Directories
    BY <1>1, <1>3 DEF SnapshotInv, Shape
  <2>3. QED
    BY <1>6, <2>1, <2>2 DEF SnapshotInv, Shape
<1>8. Chain'
  <2>1. ASSUME NEW d \in DOMAIN closest'
        PROVE  \/ closest'[d] = Candidate(d)
               \/ d = Root /\ closest'[d] = Nothing
               \/ d # Root /\ ParentOf(d) \in DOMAIN closest' /\ closest'[d] = closest'[ParentOf(d)]
    <3>1. CASE d \in DOMAIN closest
      BY <1>3, <3>1 DEF SnapshotInv, Chain
    <3>2. CASE d \in visited
      BY <1>2, <1>3, <3>2
    <3>3. CASE d = at /\ d \notin DOMAIN closest
      BY <1>3, <3>3
    <3>4. QED
      BY <1>3, <3>1, <3>2, <3>3
  <2>2. QED
    BY <1>1, <2>1 DEF Chain
<1>9. Search'
  BY <1>1, <1>2, <1>3, <1>5, <1>6 DEF Search, Discovers
<1>10. Shared'
  BY <1>1, <1>3 DEF SnapshotInv, Shared
<1>11. QED
  BY <1>7, <1>8, <1>9, <1>10 DEF SnapshotInv

\* A lookup ends without a profile.
LEMMA FailKeeps ==
  ASSUME SnapshotInv, Fail, UNCHANGED <<invocation, inputs, closest>>
  PROVE  SnapshotInv'
BY DEF Fail, SnapshotInv, Shape, Chain, Search, Shared, Discovers

\* A lookup ends with a profile, which is the one of its source.
LEMMA ResolvedKeeps ==
  ASSUME SnapshotInv, NEW profile, Resolved(profile), UNCHANGED <<invocation, inputs, closest>>,
         lookup # Nothing, lookup.source # Nothing,
         lookup.source \in DOMAIN bySource => profile = bySource[lookup.source]
  PROVE  SnapshotInv'
<1>. DEFINE source == lookup.source
            start == lookup.start
<1>1. /\ inputs # Nothing /\ (Discovers' <=> Discovers) /\ lookup' = Nothing
      /\ Discovers => start \in DOMAIN closest /\ source = SourceFor(closest[start])
  BY DEF SnapshotInv, Search, Discovers, Resolved
<1>2. /\ DOMAIN bySource' = DOMAIN bySource \cup {source} /\ DOMAIN byDir' = DOMAIN byDir \cup {start}
      /\ \A s \in DOMAIN bySource : bySource'[s] = bySource[s]
      /\ bySource'[source] = profile /\ byDir'[start] = profile
      /\ \A d \in DOMAIN byDir : d # start => byDir'[d] = byDir[d]
  BY DEF Resolved, Put
<1>3. Shared'
  <2>1. ASSUME Discovers, NEW d \in DOMAIN byDir'
        PROVE  /\ d \in DOMAIN closest /\ SourceFor(closest[d]) \in DOMAIN bySource'
               /\ byDir'[d] = bySource'[SourceFor(closest[d])]
    BY <1>1, <1>2, <2>1 DEF SnapshotInv, Shared
  <2>2. QED
    BY <1>1, <1>2, <2>1 DEF SnapshotInv, Shared
<1>4. QED
  BY <1>1, <1>3 DEF SnapshotInv, Shape, Chain, Search

LEMMA SnapshotStep == ASSUME SnapshotInv, [Next]_vars PROVE SnapshotInv'
<1>1. CASE Edit \/ PlanFiles \/ UNCHANGED vars \/ \E dir \in Directories : Retry(dir)
  <2>1. UNCHANGED <<invocation, inputs, closest, bySource, byDir, lookup>>
    BY <1>1 DEF Edit, PlanFiles, vars, Retry
  <2>2. QED
    BY <2>1 DEF SnapshotInv, Shape, Chain, Search, Shared, Discovers
<1>2. ASSUME NEW dir \in Directories, Begin(dir) PROVE SnapshotInv'
  <2>1. /\ lookup' = [start |-> dir, at |-> dir, visited |-> {}, source |-> Nothing]
        /\ UNCHANGED <<invocation, inputs, closest, bySource, byDir>>
    BY <1>2 DEF Begin
  <2>2. QED
    BY <2>1 DEF SnapshotInv, Shape, Chain, Search, Shared, Discovers, Lookups
<1>3. CASE Classify
  <2>1. CASE InputsRefused
    BY <1>3, <2>1, FailKeeps DEF Classify
  <2>2. CASE ~InputsRefused
    <3>1. /\ lookup # Nothing /\ inputs = Nothing /\ inputs' = ClassifiedInputs
          /\ UNCHANGED <<invocation, closest, bySource, byDir, lookup>>
      BY <1>3, <2>2 DEF Classify
    <3>2. DOMAIN closest = {} /\ DOMAIN byDir = {} /\ lookup.source = Nothing
      BY <3>1 DEF SnapshotInv, Chain, Search, Shared, Discovers
    <3>3. ClassifiedInputs.explicit \in SourceFiles
      <4>1. CASE PathOptions = {}
        BY <4>1 DEF ClassifiedInputs, SourceFiles
      <4>2. CASE PathOptions # {}
        <5>1. PICK i \in PathOptions : ClassifiedInputs.explicit = invocation.options[i].path
          BY <4>2 DEF ClassifiedInputs
        <5>2. i \in DOMAIN invocation.options
          BY DEF PathOptions
        <5>3. QED
          BY <5>1, <5>2 DEF SourceFiles, SnapshotInv, Shape
      <4>3. QED
        BY <4>1, <4>2
    <3>4. inputs' = [inline |-> inputs'.inline, explicit |-> inputs'.explicit]
      BY <3>1 DEF ClassifiedInputs
    <3>5. QED
      BY <3>1, <3>2, <3>3, <3>4 DEF SnapshotInv, Shape, Chain, Search, Shared
  <2>3. QED
    BY <2>1, <2>2
<1>4. CASE WithoutDiscovery
  <2>. DEFINE source == IF invocation.isolated THEN Source("isolated", Nothing) ELSE Source("explicit", inputs.explicit)
  <2>1. /\ lookup # Nothing /\ inputs # Nothing /\ lookup' = [lookup EXCEPT !.source = source]
        /\ UNCHANGED <<invocation, inputs, closest, bySource, byDir>> /\ ~Discovers
    BY <1>4 DEF WithoutDiscovery, Discovering, Discovers
  <2>2. source \in Sources /\ source # Nothing
    <3>1. inputs.explicit \in SourceFiles /\ Nothing \in SourceFiles
      BY <2>1 DEF SnapshotInv, Shape, SourceFiles
    <3>2. QED
      BY <3>1, SourcesAreSources
  <2>. HIDE DEF source
  <2>3. lookup' \in Lookups /\ lookup'.source = source
    BY <2>1, <2>2 DEF SnapshotInv, Shape, Lookups
  <2>4. QED
    BY <2>1, <2>2, <2>3 DEF SnapshotInv, Shape, Chain, Search, Shared, Discovers
<1>5. CASE FoundEarlier
  <2>1. closest[lookup.at] \in {Nothing} \cup {Candidate(d) : d \in Directories}
    BY <1>5 DEF FoundEarlier, SnapshotInv, Shape
  <2>2. QED
    BY <1>5, <2>1, FoundKeeps DEF FoundEarlier
<1>6. CASE CandidateRefused
  BY <1>6, FailKeeps DEF CandidateRefused
<1>7. CASE CandidateApplies
  <2>1. lookup.at \in Directories
    BY <1>7 DEF CandidateApplies, Examine, Searching, Discovering, SnapshotInv, Shape, Lookups
  <2>2. QED
    BY <1>7, <2>1, FoundKeeps DEF CandidateApplies, Examine
<1>8. CASE GoUp
  <2>1. CASE lookup.at = Root
    BY <1>8, <2>1, FoundKeeps DEF GoUp, Examine
  <2>2. CASE lookup.at # Root
    <3>1. /\ lookup' = [lookup EXCEPT !.visited = @ \cup {lookup.at}, !.at = ParentOf(@)]
          /\ UNCHANGED <<invocation, inputs, closest, bySource, byDir>>
          /\ lookup # Nothing /\ lookup.source = Nothing /\ lookup.at \notin DOMAIN closest /\ lookup \in Lookups
      BY <1>8, <2>2 DEF GoUp, Examine, Searching, Discovering, SnapshotInv, Shape
    <3>2. ParentOf(lookup.at) \in Directories
      BY <2>2, <3>1, ResolverAssumption DEF Lookups
    <3>3. /\ lookup' \in Lookups /\ lookup'.visited = lookup.visited \cup {lookup.at}
          /\ lookup'.at = ParentOf(lookup.at) /\ lookup'.start = lookup.start /\ lookup'.source = Nothing
      BY <3>1, <3>2 DEF Lookups
    <3>4. Search'
      BY <2>2, <3>1, <3>3 DEF SnapshotInv, Search
    <3>5. QED
      BY <3>1, <3>3, <3>4 DEF SnapshotInv, Shape, Chain, Shared, Discovers
  <2>3. QED
    BY <2>1, <2>2
<1>9. CASE ShareProfile
  <2>1. lookup.source # Nothing
    BY <1>9 DEF ShareProfile, SnapshotInv, Shared
  <2>2. QED
    BY <1>9, <2>1, ResolvedKeeps DEF ShareProfile
<1>10. CASE LoadProfile
  <2>1. CASE FileRefused(lookup.source) \/ SectionsRefused(lookup.source)
    BY <1>10, <2>1, FailKeeps DEF LoadProfile
  <2>2. CASE ~(FileRefused(lookup.source) \/ SectionsRefused(lookup.source))
    BY <1>10, <2>2, ResolvedKeeps DEF LoadProfile
  <2>3. QED
    BY <2>1, <2>2
<1>11. QED
  BY <1>1, <1>2, <1>3, <1>4, <1>5, <1>6, <1>7, <1>8, <1>9, <1>10 DEF Next

\* While files are edited, an invocation has one view of them: a directory
\* has the configuration of its parent or its own, and directories with the
\* same one the same settings (_SettingsResolutionContext, SettingsResolver).
THEOREM SettingsAreOneSnapshot == Spec => []OneSnapshot
<1>1. Init => SnapshotInv
  BY InitSnapshot
<1>2. SnapshotInv /\ [Next]_vars => SnapshotInv'
  BY SnapshotStep
<1>3. SnapshotInv => OneSnapshot
  BY DEF SnapshotInv, Chain, Shared, OneSnapshot
<1>4. QED
  BY <1>1, <1>2, <1>3, PTL DEF Spec

-----------------------------------------------------------------------------
(***************************************************************************)
(* Lookups in files that nobody edits.  Each closest file is the one that  *)
(* a lookup of its own finds (Good), for what was visited on the way up is *)
(* neither in force nor unusable; a kept profile is what its source gives, *)
(* and applying layers one after the other is taking, for each setting,    *)
(* the last layer that sets it (LastLayerWins).                            *)
(***************************************************************************)

Neither(dir) == At(dir) = Absent \/ (At(dir) # Broken /\ At(dir).table = "none")

SearchFails(dir) == \E d \in Unusable(dir) : \A e \in Applying(dir) : Len(e) < Len(d)

InForce(dir) == IF Applying(dir) = {} THEN Nothing ELSE Candidate(Nearest(Applying(dir)))

Good(dir, file) ==
    file = InForce(dir) /\ (file = Nothing <=> Applying(dir) = {}) /\ ~SearchFails(dir)

Passed(start, at) == {SubSeq(start, 1, n) : n \in (Len(at) + 1)..Len(start)}

ParsedAgrees == \A file \in DOMAIN parsed : parsed[file] = disk[file]

FailuresRight ==
    /\ inputs = Nothing /\ failures # {} => InputsRefused
    /\ \A d \in failures : OwnFails(d)

ClosestRight == \A d \in DOMAIN closest : Good(d, closest[d])

ProfilesRight ==
    /\ \A s \in DOMAIN bySource : bySource[s] = Layered(s) /\ ~FileRefused(s) /\ ~SectionsRefused(s)
    /\ \A d \in DOMAIN byDir :
         /\ OwnSource(d) \in DOMAIN bySource /\ byDir[d] = bySource[OwnSource(d)]
         /\ Discovers => ~SearchFails(d)

SearchRight ==
    lookup # Nothing =>
      /\ lookup.source = Nothing =>
           /\ lookup.at \in Above(lookup.start)
           /\ lookup.visited = Passed(lookup.start, lookup.at)
           /\ \A d \in lookup.visited : Neither(d)
      /\ lookup.source # Nothing /\ ~Discovers => lookup.source = OwnSource(lookup.start)

Unedited == ParsedAgrees /\ FailuresRight /\ ClosestRight /\ ProfilesRight /\ SearchRight

InlineIsSequence == inputs # Nothing => \E n \in Nat : DOMAIN inputs.inline = 1..n

IndependenceInv ==
    /\ SnapshotInv /\ InlineIsSequence
    /\ edits \in Nat
    /\ inputs = Nothing => DOMAIN bySource = {}
    /\ edits = 0 => Unedited

\* A set of numbers has a least member: what fails for some number fails for
\* a least one.
LEMMA LeastNat ==
  ASSUME NEW T \in SUBSET Nat, T # {}
  PROVE  \E m \in T : \A k \in T : m <= k
<1>. DEFINE R == OpToRel(<, Nat)
<1>1. IsWellFoundedOn(R, Nat)
  BY NatLessThanWellFounded
<1>2. \A i, j \in Nat : <<i, j>> \in R <=> i < j
  BY DEF OpToRel
<1>. HIDE DEF R
<1>3. PICK x \in T : \A y \in T : ~ (<<y, x>> \in R)
  BY <1>1, WFMin
<1>4. \A k \in T : ~(k < x)
  BY <1>2, <1>3
<1>5. QED
  BY <1>4

LEMMA GreatestNat ==
  ASSUME NEW n \in Nat, NEW S \in SUBSET (0..n), S # {}
  PROVE  \E m \in S : \A k \in S : k <= m
<1>. DEFINE T == {n - k : k \in S}
<1>1. T \in SUBSET Nat /\ T # {}
  <2>1. \A k \in S : k \in 0..n /\ n - k \in Nat
    OBVIOUS
  <2>2. QED
    BY <2>1
<1>2. PICK t \in T : \A u \in T : t <= u
  BY <1>1, LeastNat
<1>3. PICK m \in S : t = n - m
  BY <1>2
<1>4. \A k \in S : n - m <= n - k
  BY <1>2, <1>3
<1>5. QED
  BY <1>4

LEMMA MaxIsGreatest ==
  ASSUME NEW n \in Nat, NEW S \in SUBSET (0..n), S # {}
  PROVE  Max(S) \in S /\ \A k \in S : k <= Max(S)
<1>1. PICK m \in S : \A k \in S : m >= k
  BY GreatestNat
<1>2. Max(S) \in S /\ \A k \in S : Max(S) >= k
  BY <1>1 DEF Max
<1>3. QED
  BY <1>2

\* The layers of s that set f, and the profile in which each setting is that
\* of the last of them.
SettingLayers(L, s, f) == {i \in s : f \in DOMAIN L[i].updates}
LastOf(S) == CHOOSE i \in S : \A j \in S : j <= i
Combined(p, L, s) ==
    [values |-> [f \in Fields |->
       IF SettingLayers(L, s, f) = {} THEN p.values[f]
       ELSE Value(f, L[LastOf(SettingLayers(L, s, f))].updates[f])],
     base |-> [f \in Fields |->
       IF SettingLayers(L, s, f) = {} THEN p.base[f] ELSE L[LastOf(SettingLayers(L, s, f))].base],
     priority |-> [f \in Fields |->
       IF SettingLayers(L, s, f) = {} THEN p.priority[f] ELSE L[LastOf(SettingLayers(L, s, f))].priority],
     root |-> p.root]

LEMMA LastOfIs ==
  ASSUME NEW S \in SUBSET Nat, NEW m \in S, \A k \in S : k <= m
  PROVE  LastOf(S) = m
<1>0. \E i \in S : \A j \in S : j <= i
  OBVIOUS
<1>1. LastOf(S) \in S /\ \A j \in S : j <= LastOf(S)
  BY <1>0, Zenon DEF LastOf
<1>2. LastOf(S) \in Nat /\ m \in Nat /\ m <= LastOf(S) /\ LastOf(S) <= m
  BY <1>1
<1>3. QED
  BY <1>2

LEMMA ApplyForm ==
  ASSUME NEW v, NEW b, NEW r, NEW t, NEW layer
  PROVE  Apply([values |-> v, base |-> b, priority |-> r, root |-> t], layer) =
           [values |-> [f \in Fields |-> IF f \in DOMAIN layer.updates THEN Value(f, layer.updates[f]) ELSE v[f]],
            base |-> [f \in Fields |-> IF f \in DOMAIN layer.updates THEN layer.base ELSE b[f]],
            priority |-> [f \in Fields |-> IF f \in DOMAIN layer.updates THEN layer.priority ELSE r[f]],
            root |-> t]
<1>. DEFINE set == DOMAIN layer.updates
            p == [values |-> v, base |-> b, priority |-> r, root |-> t]
            V == [f \in Fields |-> IF f \in set THEN Value(f, layer.updates[f]) ELSE v[f]]
            B == [f \in Fields |-> IF f \in set THEN layer.base ELSE b[f]]
            R == [f \in Fields |-> IF f \in set THEN layer.priority ELSE r[f]]
<1>1. Apply(p, layer) = [p EXCEPT !.values = V, !.base = B, !.priority = R]
  BY Zenon DEF Apply
<1>. HIDE DEF set, V, B, R
<1>2. [p EXCEPT !.values = V, !.base = B, !.priority = R] = [values |-> V, base |-> B, priority |-> R, root |-> t]
  <2>1. [p EXCEPT !.values = V] = [values |-> V, base |-> b, priority |-> r, root |-> t]
    OBVIOUS
  <2>2. [[values |-> V, base |-> b, priority |-> r, root |-> t] EXCEPT !.base = B]
          = [values |-> V, base |-> B, priority |-> r, root |-> t]
    OBVIOUS
  <2>3. [[values |-> V, base |-> B, priority |-> r, root |-> t] EXCEPT !.priority = R]
          = [values |-> V, base |-> B, priority |-> R, root |-> t]
    OBVIOUS
  <2>. HIDE DEF p
  <2>4. [p EXCEPT !.values = V, !.base = B, !.priority = R]
          = [[[p EXCEPT !.values = V] EXCEPT !.base = B] EXCEPT !.priority = R]
    OBVIOUS
  <2>5. QED
    BY <2>1, <2>2, <2>3, <2>4
<1>3. Apply(p, layer) = [values |-> V, base |-> B, priority |-> R, root |-> t]
  BY <1>1, <1>2
<1>4. QED
  BY <1>3 DEF V, B, R, set

LEMMA CombinedStep ==
  ASSUME NEW p, NEW L, NEW s \in SUBSET Nat, NEW m \in s, \A k \in s : k <= m
  PROVE  Combined(p, L, s) = Apply(Combined(p, L, s \ {m}), L[m])
<1>1. ASSUME NEW f, f \in DOMAIN L[m].updates
      PROVE  SettingLayers(L, s, f) # {} /\ LastOf(SettingLayers(L, s, f)) = m
  <2>1. m \in SettingLayers(L, s, f) /\ \A k \in SettingLayers(L, s, f) : k <= m /\ k \in Nat
    BY <1>1 DEF SettingLayers
  <2>2. SettingLayers(L, s, f) \in SUBSET Nat
    BY <2>1
  <2>3. QED
    BY <2>1, <2>2, LastOfIs
<1>2. ASSUME NEW f, f \notin DOMAIN L[m].updates
      PROVE  SettingLayers(L, s, f) = SettingLayers(L, s \ {m}, f)
  BY <1>2 DEF SettingLayers
<1>. DEFINE q == Combined(p, L, s \ {m})
            set == DOMAIN L[m].updates
<1>3. Apply(q, L[m]) =
        [values |-> [f \in Fields |-> IF f \in set THEN Value(f, L[m].updates[f]) ELSE q.values[f]],
         base |-> [f \in Fields |-> IF f \in set THEN L[m].base ELSE q.base[f]],
         priority |-> [f \in Fields |-> IF f \in set THEN L[m].priority ELSE q.priority[f]],
         root |-> p.root]
  <2>1. q = [values |-> q.values, base |-> q.base, priority |-> q.priority, root |-> p.root]
    BY DEF Combined
  <2>. HIDE DEF q
  <2>2. QED
    BY <2>1, ApplyForm
<1>4. \A f \in Fields :
        /\ Combined(p, L, s).values[f] = IF f \in set THEN Value(f, L[m].updates[f]) ELSE q.values[f]
        /\ Combined(p, L, s).base[f] = IF f \in set THEN L[m].base ELSE q.base[f]
        /\ Combined(p, L, s).priority[f] = IF f \in set THEN L[m].priority ELSE q.priority[f]
  BY <1>1, <1>2 DEF Combined
<1>5. Combined(p, L, s) =
        [values |-> [f \in Fields |-> Combined(p, L, s).values[f]],
         base |-> [f \in Fields |-> Combined(p, L, s).base[f]],
         priority |-> [f \in Fields |-> Combined(p, L, s).priority[f]],
         root |-> p.root]
  BY DEF Combined
<1>. HIDE DEF q, set
<1>6. /\ [f \in Fields |-> Combined(p, L, s).values[f]] =
           [f \in Fields |-> IF f \in set THEN Value(f, L[m].updates[f]) ELSE q.values[f]]
      /\ [f \in Fields |-> Combined(p, L, s).base[f]] = [f \in Fields |-> IF f \in set THEN L[m].base ELSE q.base[f]]
      /\ [f \in Fields |-> Combined(p, L, s).priority[f]] =
           [f \in Fields |-> IF f \in set THEN L[m].priority ELSE q.priority[f]]
  BY <1>4
<1>7. Combined(p, L, s) = Apply(q, L[m])
  BY <1>3, <1>5, <1>6
<1>8. QED
  BY <1>7 DEF q

LEMMA CombinedOfNone ==
  ASSUME NEW p, NEW L,
         p = [values |-> [f \in Fields |-> p.values[f]], base |-> [f \in Fields |-> p.base[f]],
              priority |-> [f \in Fields |-> p.priority[f]], root |-> p.root]
  PROVE  Combined(p, L, {}) = p
<1>1. \A f : SettingLayers(L, {}, f) = {}
  BY DEF SettingLayers
<1>2. QED
  BY <1>1 DEF Combined

\* Applying layers one after the other: the last one that sets a field wins.
LEMMA LastLayerWins ==
  ASSUME NEW n \in Nat, NEW L, DOMAIN L = 1..n, NEW p,
         p = [values |-> [f \in Fields |-> p.values[f]], base |-> [f \in Fields |-> p.base[f]],
              priority |-> [f \in Fields |-> p.priority[f]], root |-> p.root]
  PROVE  FoldLeft(Apply, p, L) = Combined(p, L, 1..n)
<1>. DEFINE Ok(g) == g = [s \in SUBSET (1..n) |-> IF s = {} THEN p ELSE Apply(g[s \ {Max(s)}], L[Max(s)])]
            iter == CHOOSE g : Ok(g)
            g0 == [s \in SUBSET (1..n) |-> Combined(p, L, s)]
<1>1. FoldLeft(Apply, p, L) = iter[1..n]
  BY DEF FoldLeft, MapThenFoldSet
<1>2. Ok(g0)
  <2>1. ASSUME NEW s \in SUBSET (1..n), s # {}
        PROVE  Combined(p, L, s) = Apply(Combined(p, L, s \ {Max(s)}), L[Max(s)])
    <3>1. Max(s) \in s /\ \A k \in s : k <= Max(s)
      <4>1. s \in SUBSET (0..n)
        OBVIOUS
      <4>2. QED
        BY <2>1, <4>1, MaxIsGreatest
    <3>2. s \in SUBSET Nat
      OBVIOUS
    <3>. HIDE DEF Ok, iter, g0
    <3>3. QED
      BY <3>1, <3>2, CombinedStep
  <2>2. Combined(p, L, {}) = p
    BY CombinedOfNone
  <2>3. \A s \in SUBSET (1..n) : s \ {Max(s)} \in SUBSET (1..n)
    OBVIOUS
  <2>4. QED
    BY <2>1, <2>2, <2>3
<1>3. Ok(iter)
  BY <1>2
<1>. HIDE DEF iter
<1>4. \A s \in SUBSET (1..n) : iter[s] = IF s = {} THEN p ELSE Apply(iter[s \ {Max(s)}], L[Max(s)])
  BY <1>3
<1>. DEFINE T == {k \in 0..n : iter[1..k] # Combined(p, L, 1..k)}
<1>5. T = {}
  <2>. SUFFICES ASSUME T # {} PROVE FALSE
    OBVIOUS
  <2>1. T \in SUBSET Nat
    OBVIOUS
  <2>2. PICK m \in T : \A k \in T : m <= k
    BY <2>1, LeastNat
  <2>3. m \in 0..n /\ iter[1..m] # Combined(p, L, 1..m)
    OBVIOUS
  <2>4. CASE m = 0
    <3>1. 1..m = {}
      BY <2>4
    <3>2. iter[{}] = p
      BY <1>4
    <3>3. QED
      BY <2>3, <3>1, <3>2, CombinedOfNone
  <2>5. CASE m # 0
    <3>1. m - 1 \in 0..n /\ m - 1 \notin T
      BY <2>2, <2>3, <2>5
    <3>2. iter[1..(m - 1)] = Combined(p, L, 1..(m - 1))
      BY <3>1
    <3>3. m \in 1..m /\ 1..m \in SUBSET (1..n) /\ 1..m \in SUBSET (0..n) /\ \A k \in 1..m : k <= m
      BY <2>3, <2>5
    <3>4. Max(1..m) = m
      <4>1. Max(1..m) \in 1..m /\ \A k \in 1..m : k <= Max(1..m)
        BY <3>3, MaxIsGreatest
      <4>2. QED
        BY <2>3, <3>3, <4>1
    <3>5. (1..m) \ {m} = 1..(m - 1)
      BY <2>3, <2>5
    <3>6. iter[1..m] = Apply(iter[1..(m - 1)], L[m])
      BY <1>4, <3>3, <3>4, <3>5
    <3>7. Combined(p, L, 1..m) = Apply(Combined(p, L, 1..(m - 1)), L[m])
      <4>1. Combined(p, L, 1..m) = Apply(Combined(p, L, (1..m) \ {m}), L[m])
        <5>1. 1..m \in SUBSET Nat
          OBVIOUS
        <5>2. QED
          BY <3>3, <5>1, CombinedStep
      <4>2. QED
        BY <3>5, <4>1
    <3>8. QED
      BY <2>3, <3>2, <3>6, <3>7
  <2>6. QED
    BY <2>4, <2>5
<1>6. n \in 0..n
  OBVIOUS
<1>7. iter[1..n] = Combined(p, L, 1..n)
  BY <1>5, <1>6
<1>8. QED
  BY <1>1, <1>7

-----------------------------------------------------------------------------
(* Directories above a directory                                           *)

Names == UNION {ToSet(dir) : dir \in Directories}

LEMMA PrefixIs ==
  ASSUME NEW s \in Seq(Names), NEW m \in 0..Len(s)
  PROVE  /\ SubSeq(s, 1, m) \in Seq(Names) /\ Len(SubSeq(s, 1, m)) = m
         /\ \A i \in 1..m : SubSeq(s, 1, m)[i] = s[i]
BY SubSeqProperties

LEMMA PrefixOfPrefix ==
  ASSUME NEW s \in Seq(Names), NEW m \in 0..Len(s), NEW k \in 0..m
  PROVE  SubSeq(SubSeq(s, 1, m), 1, k) = SubSeq(s, 1, k)
<1>. DEFINE t == SubSeq(s, 1, m)
<1>1. /\ t \in Seq(Names) /\ Len(t) = m /\ \A i \in 1..m : t[i] = s[i]
  BY PrefixIs
<1>. HIDE DEF t
<1>2. k \in 0..Len(s) /\ k \in 0..Len(t) /\ 1..k \subseteq 1..m
  BY <1>1
<1>3. /\ SubSeq(t, 1, k) \in Seq(Names) /\ Len(SubSeq(t, 1, k)) = k
      /\ \A i \in 1..k : SubSeq(t, 1, k)[i] = t[i]
  BY <1>1, <1>2, PrefixIs
<1>4. /\ SubSeq(s, 1, k) \in Seq(Names) /\ Len(SubSeq(s, 1, k)) = k
      /\ \A i \in 1..k : SubSeq(s, 1, k)[i] = s[i]
  BY <1>2, PrefixIs
<1>5. \A i \in 1..k : SubSeq(t, 1, k)[i] = SubSeq(s, 1, k)[i]
  BY <1>1, <1>2, <1>3, <1>4
<1>6. SubSeq(t, 1, k) = SubSeq(s, 1, k)
  BY <1>3, <1>4, <1>5, SeqEqual
<1>7. QED
  BY <1>6 DEF t

LEMMA AbovePrefix ==
  ASSUME NEW s \in Seq(Names), NEW m \in 0..Len(s)
  PROVE  /\ Above(SubSeq(s, 1, m)) = {SubSeq(s, 1, k) : k \in 0..m}
         /\ m # 0 => ParentOf(SubSeq(s, 1, m)) = SubSeq(s, 1, m - 1)
         /\ SubSeq(s, 1, m) = Root <=> m = 0
         /\ SubSeq(s, 1, Len(s)) = s
<1>1. SubSeq(s, 1, m) \in Seq(Names) /\ Len(SubSeq(s, 1, m)) = m
  BY PrefixIs
<1>2. \A k \in 0..m : SubSeq(SubSeq(s, 1, m), 1, k) = SubSeq(s, 1, k)
  BY PrefixOfPrefix
<1>3. Above(SubSeq(s, 1, m)) = {SubSeq(s, 1, k) : k \in 0..m}
  BY <1>1, <1>2 DEF Above
<1>4. m # 0 => ParentOf(SubSeq(s, 1, m)) = SubSeq(s, 1, m - 1)
  BY <1>1, <1>2 DEF ParentOf
<1>5. SubSeq(s, 1, m) = Root <=> m = 0
  BY <1>1, EmptySeq DEF Root
<1>6. SubSeq(s, 1, Len(s)) = s
  BY SubSeqFull
<1>7. QED
  BY <1>3, <1>4, <1>5, <1>6

LEMMA DirectoryIs ==
  ASSUME NEW dir \in Directories
  PROVE  /\ dir \in Seq(Names) /\ Len(dir) \in Nat /\ SubSeq(dir, 1, Len(dir)) = dir
         /\ dir \in Above(dir) /\ \A d \in Above(dir) : Len(d) \in 0..Len(dir) /\ (Len(d) = Len(dir) => d = dir)
<1>1. dir \in Seq(Names) /\ Len(dir) \in Nat
  BY ResolverAssumption DEF Names
<1>2. Len(dir) \in 0..Len(dir) /\ SubSeq(dir, 1, Len(dir)) = dir
  BY <1>1, SubSeqFull
<1>3. ASSUME NEW d \in Above(dir)
      PROVE  Len(d) \in 0..Len(dir) /\ (Len(d) = Len(dir) => d = dir)
  <2>1. PICK k \in 0..Len(dir) : d = SubSeq(dir, 1, k)
    BY DEF Above
  <2>2. Len(d) = k
    BY <1>1, <2>1, PrefixIs
  <2>3. QED
    BY <1>2, <2>1, <2>2
<1>4. dir \in Above(dir)
  BY <1>2 DEF Above
<1>5. QED
  BY <1>1, <1>2, <1>3, <1>4

\* What was passed on the way from start up to at changes no search.
LEMMA SearchAlong ==
  ASSUME NEW start \in Directories, NEW at \in Above(start), \A d \in Passed(start, at) : Neither(d),
         NEW dir \in Passed(start, at) \cup {start, at}
  PROVE  (\A file : Good(dir, file) <=> Good(at, file)) /\ (SearchFails(dir) <=> SearchFails(at))
<1>1. start \in Seq(Names) /\ Len(start) \in Nat
  BY DirectoryIs
<1>2. PICK m \in 0..Len(start) : at = SubSeq(start, 1, m)
  BY DEF Above
<1>3. Len(at) = m
  BY <1>1, <1>2, PrefixIs
<1>4. PICK n \in m..Len(start) : dir = SubSeq(start, 1, n)
  <2>1. CASE dir = start
    BY <1>1, <2>1, DirectoryIs
  <2>2. CASE dir = at
    BY <1>2, <2>2
  <2>3. CASE dir \in Passed(start, at)
    BY <1>3, <2>3 DEF Passed
  <2>4. QED
    BY <2>1, <2>2, <2>3
<1>5. /\ Above(at) = {SubSeq(start, 1, k) : k \in 0..m}
      /\ Above(dir) = {SubSeq(start, 1, k) : k \in 0..n}
  BY <1>1, <1>2, <1>4, AbovePrefix
<1>6. ASSUME NEW k \in (m + 1)..n PROVE Neither(SubSeq(start, 1, k))
  <2>1. k \in (m + 1)..Len(start)
    BY <1>1, <1>4
  <2>2. SubSeq(start, 1, k) \in Passed(start, at)
    BY <1>3, <2>1 DEF Passed
  <2>3. QED
    BY <2>2
<1>7. Above(at) \subseteq Above(dir) /\ \A d \in Above(dir) \ Above(at) : Neither(d)
  <2>1. \A k \in 0..n : k \in 0..m \/ k \in (m + 1)..n
    OBVIOUS
  <2>2. 0..m \subseteq 0..n
    BY <1>1, <1>4
  <2>3. \A d \in Above(dir) \ Above(at) : Neither(d)
    BY <1>5, <1>6, <2>1
  <2>4. QED
    BY <1>5, <2>2, <2>3
<1>8. Applying(dir) = Applying(at) /\ Unusable(dir) = Unusable(at)
  <2>1. \A d \in Above(dir) : d \notin Above(at) => /\ ~(At(d) \notin {Absent, Broken} /\ At(d).table = "settings")
                                                   /\ ~(At(d) = Broken \/ (At(d) # Absent /\ At(d).table = "odd"))
    BY <1>7, ResolverAssumption DEF Neither
  <2>2. QED
    BY <1>7, <2>1 DEF Applying, Unusable
<1>9. QED
  BY <1>8 DEF Good, InForce, SearchFails

\* Where a search ends.
LEMMA OwnFileInForce ==
  ASSUME NEW dir \in Directories, At(dir) \notin {Absent, Broken}, At(dir).table = "settings"
  PROVE  Good(dir, Candidate(dir))
<1>1. dir \in Applying(dir) /\ Applying(dir) \subseteq Above(dir) /\ Unusable(dir) \subseteq Above(dir)
  BY DirectoryIs DEF Applying, Unusable
<1>2. \A d \in Above(dir) : Len(d) <= Len(dir) /\ Len(d) \in Nat /\ (Len(d) = Len(dir) => d = dir)
  BY DirectoryIs
<1>3. \E d \in Applying(dir) : \A e \in Applying(dir) : Len(e) <= Len(d)
  BY <1>1, <1>2
<1>4. Nearest(Applying(dir)) \in Applying(dir) /\ Len(dir) <= Len(Nearest(Applying(dir)))
  BY <1>1, <1>3 DEF Nearest
<1>5. Nearest(Applying(dir)) = dir
  BY <1>1, <1>2, <1>4, DirectoryIs
<1>6. ~SearchFails(dir)
  BY <1>1, <1>2, DirectoryIs DEF SearchFails
<1>7. Candidate(dir) # Nothing
  BY ResolverAssumption
<1>8. QED
  BY <1>1, <1>5, <1>6, <1>7 DEF Good, InForce

LEMMA NoFileInForce ==
  ASSUME Root \in Directories, Neither(Root)
  PROVE  Good(Root, Nothing)
<1>1. Above(Root) = {Root}
  <2>1. Len(Root) = 0
    BY DEF Root
  <2>2. \A d \in Above(Root) : d = Root
    BY <2>1, DirectoryIs
  <2>3. QED
    BY <2>2, DirectoryIs
<1>2. Applying(Root) = {} /\ Unusable(Root) = {}
  BY <1>1, ResolverAssumption DEF Applying, Unusable, Neither
<1>3. QED
  BY <1>2 DEF Good, InForce, SearchFails

LEMMA UnusableFails ==
  ASSUME NEW dir \in Directories, At(dir) = Broken \/ (At(dir) # Absent /\ At(dir).table = "odd")
  PROVE  SearchFails(dir)
<1>1. dir \in Unusable(dir) /\ dir \notin Applying(dir) /\ Applying(dir) \subseteq Above(dir)
  BY DirectoryIs DEF Applying, Unusable
<1>2. \A d \in Applying(dir) : Len(d) < Len(dir)
  <2>1. \A d \in Above(dir) : Len(d) \in 0..Len(dir) /\ (Len(d) = Len(dir) => d = dir)
    BY DirectoryIs
  <2>2. Len(dir) \in Nat
    BY DirectoryIs
  <2>3. QED
    BY <1>1, <2>1, <2>2
<1>3. QED
  BY <1>1, <1>2 DEF SearchFails

-----------------------------------------------------------------------------
(* The layers of a source and its profile                                  *)

LEMMA ClassifiedInlineIs ==
  ASSUME invocation \in Invocations
  PROVE  \E n \in Nat : DOMAIN ClassifiedInputs.inline = 1..n
<1>. DEFINE options == invocation.options
            inline == {i \in DOMAIN options : IsInline(options[i])}
<1>1. options \in Seq(ToSet(options))
  BY ResolverAssumption
<1>2. DOMAIN options = 1..Len(options) /\ Len(options) \in Nat
  BY <1>1
<1>3. IsFiniteSet(inline) /\ Cardinality(inline) \in Nat
  <2>1. IsFiniteSet(1..Len(options))
    BY <1>2, FS_Interval
  <2>2. inline \subseteq 1..Len(options)
    BY <1>2
  <2>3. IsFiniteSet(inline)
    BY <2>1, <2>2, FS_Subset
  <2>4. QED
    BY <2>3, FS_CardinalityType
<1>4. DOMAIN ClassifiedInputs.inline = 1..Cardinality(inline)
  BY DEF ClassifiedInputs, InlineOptions
<1>5. QED
  BY <1>3, <1>4

InlineLayers ==
    [i \in DOMAIN inputs.inline |->
       [section |-> inputs.inline[i].section, base |-> Cwd, priority |-> InlinePriority]]

SectionSet(source) ==
    {FileLayers(source)[i] : i \in DOMAIN FileLayers(source)} \cup {InlineLayers[i] : i \in DOMAIN InlineLayers}

LayerOf(section) == Layer(Flattened(section.section), section.base, section.priority)

LowerLayers(source) == [i \in DOMAIN Sections(source) |-> LayerOf(Sections(source)[i])]

UpperLayers ==
    <<Layer(ArgumentOverrides(invocation.arguments), Cwd, ArgumentPriority),
      Layer(invocation.overrides, Cwd, OverridePriority)>>

LayerSet(source) ==
    {LowerLayers(source)[i] : i \in DOMAIN LowerLayers(source)} \cup {UpperLayers[1], UpperLayers[2]}

LEMMA LayersAreSequence ==
  ASSUME InlineIsSequence, inputs # Nothing, NEW source
  PROVE  /\ Sections(source) \in Seq(SectionSet(source)) /\ Layers(source) \in Seq(LayerSet(source))
         /\ \E n \in Nat : DOMAIN Layers(source) = 1..n
<1>. DEFINE own == FileLayers(source)
            S == SectionSet(source)
            T == LayerSet(source)
<1>1. own \in Seq(S)
  <2>1. own = <<>> \/ \E x : own = <<x>>
    BY Zenon DEF FileLayers
  <2>2. CASE own = <<>>
    BY <2>2, EmptySeq
  <2>3. ASSUME NEW x, own = <<x>> PROVE own \in Seq(S)
    <3>1. x \in S
      BY <2>3 DEF SectionSet
    <3>. HIDE DEF own, S
    <3>2. QED
      BY <2>3, <3>1
  <2>4. QED
    BY <2>1, <2>2, <2>3
<1>2. InlineLayers \in Seq(S)
  <2>1. PICK n \in Nat : DOMAIN inputs.inline = 1..n
    BY DEF InlineIsSequence
  <2>2. /\ DOMAIN InlineLayers = 1..n /\ InlineLayers = [i \in 1..n |-> InlineLayers[i]]
        /\ \A i \in 1..n : InlineLayers[i] \in S
    BY <2>1 DEF InlineLayers, SectionSet
  <2>. HIDE DEF S
  <2>3. QED
    BY <2>2
<1>3. Sections(source) \in Seq(S)
  <2>1. Sections(source) = own \o InlineLayers
    BY DEF Sections, InlineLayers
  <2>. HIDE DEF own, S
  <2>2. QED
    BY <1>1, <1>2, <2>1, ConcatProperties
<1>4. LowerLayers(source) \in Seq(T)
  <2>. DEFINE below == LowerLayers(source)
              n == Len(Sections(source))
  <2>1. DOMAIN Sections(source) = 1..n /\ n \in Nat
    BY <1>3, LenProperties
  <2>2. DOMAIN below = 1..n /\ below = [i \in 1..n |-> below[i]] /\ \A i \in 1..n : below[i] \in T
    BY <2>1 DEF LowerLayers, LayerSet
  <2>. HIDE DEF below, n, T
  <2>3. below \in Seq(T)
    BY <2>1, <2>2
  <2>4. QED
    BY <2>3 DEF below
<1>5. UpperLayers \in Seq(T)
  <2>1. \A x, y : x \in T /\ y \in T => <<x, y>> \in Seq(T)
    OBVIOUS
  <2>2. UpperLayers[1] \in T /\ UpperLayers[2] \in T
    BY DEF LayerSet
  <2>. HIDE DEF T
  <2>3. QED
    BY <2>1, <2>2 DEF UpperLayers
<1>6. Layers(source) = LowerLayers(source) \o UpperLayers
  BY DEF Layers, LowerLayers, LayerOf, UpperLayers
<1>7. Layers(source) \in Seq(T)
  BY <1>4, <1>5, <1>6, ConcatProperties
<1>8. QED
  BY <1>3, <1>7, LenProperties

\* A profile is what its source gives a directory by itself.
LEMMA LayeredIsOwn ==
  ASSUME InlineIsSequence, inputs # Nothing, NEW dir
  PROVE  Layered(OwnSource(dir)) = OwnProfile(dir)
<1>. DEFINE source == OwnSource(dir)
            L == Layers(source)
            p == DefaultProfile(Cwd, RootOf(source))
<1>1. PICK n \in Nat : DOMAIN L = 1..n
  BY LayersAreSequence
<1>2. p = [values |-> [f \in Fields |-> p.values[f]], base |-> [f \in Fields |-> p.base[f]],
           priority |-> [f \in Fields |-> p.priority[f]], root |-> p.root]
  BY FieldsAssumption DEF DefaultProfile
<1>3. Layered(source) = FoldLeft(Apply, p, L)
  BY DEF Layered
<1>4. OwnProfile(dir) = Combined(p, L, DOMAIN L)
  BY DEF OwnProfile, Combined, SettingLayers, LastOf
<1>. HIDE DEF source, L, p
<1>5. FoldLeft(Apply, p, L) = Combined(p, L, 1..n)
  BY <1>1, <1>2, LastLayerWins
<1>6. QED
  BY <1>1, <1>3, <1>4, <1>5 DEF source

-----------------------------------------------------------------------------
(* Steps while nobody edits                                                *)

\* Reading a file keeps what it holds.
LEMMA ReadingAgrees ==
  ASSUME ParsedAgrees, NEW file, parsed' = AfterReading(file), UNCHANGED disk
  PROVE  ParsedAgrees'
<1>1. CASE parsed' = parsed
  BY <1>1 DEF ParsedAgrees
<1>2. CASE parsed' = Put(parsed, file, disk[file])
  BY <1>2 DEF ParsedAgrees, Put
<1>3. QED
  BY <1>1, <1>2 DEF AfterReading

\* What a lookup finds depends on the files, the invocation and its inputs,
\* not on what was parsed before.
LEMMA DocumentIsDisk ==
  ASSUME ParsedAgrees, NEW file
  PROVE  Document(file) = disk[file]
BY DEF ParsedAgrees, Document

LEMMA Steady ==
  ASSUME ParsedAgrees, ParsedAgrees', UNCHANGED <<disk, invocation, inputs>>
  PROVE  /\ \A s : /\ Layered(s)' = Layered(s) /\ (FileRefused(s)' <=> FileRefused(s))
                   /\ (SectionsRefused(s)' <=> SectionsRefused(s))
         /\ \A d : /\ OwnSource(d)' = OwnSource(d) /\ (OwnFails(d)' <=> OwnFails(d))
                   /\ (SearchFails(d)' <=> SearchFails(d)) /\ (Neither(d)' <=> Neither(d))
                   /\ \A file : Good(d, file)' <=> Good(d, file)
         /\ (InputsRefused' <=> InputsRefused) /\ (Discovers' <=> Discovers)
<1>1. \A file : Document(file)' = Document(file)
  <2>1. \A file : Document(file) = disk[file]
    BY DocumentIsDisk
  <2>2. \A file : Document(file)' = disk'[file]
    BY DEF ParsedAgrees, Document
  <2>3. QED
    BY <2>1, <2>2
<1>2. ASSUME NEW s
      PROVE  /\ Layered(s)' = Layered(s) /\ (FileRefused(s)' <=> FileRefused(s))
             /\ (SectionsRefused(s)' <=> SectionsRefused(s))
  <2>1. Document(s.file)' = Document(s.file)
    BY <1>1
  <2>2. FileLayers(s)' = FileLayers(s)
    BY <2>1 DEF FileLayers, Cwd
  <2>3. Sections(s)' = Sections(s)
    BY <2>2 DEF Sections, Cwd
  <2>4. Layers(s)' = Layers(s)
    BY <2>3 DEF Layers, Cwd
  <2>5. RootOf(s)' = RootOf(s) /\ Cwd' = Cwd
    BY DEF RootOf, Cwd
  <2>6. Layered(s)' = Layered(s)
    BY <2>4, <2>5 DEF Layered
  <2>7. FileRefused(s)' <=> FileRefused(s)
    BY <2>1 DEF FileRefused
  <2>8. SectionsRefused(s)' <=> SectionsRefused(s)
    BY <2>3, <2>4 DEF SectionsRefused
  <2>9. QED
    BY <2>6, <2>7, <2>8
<1>3. ASSUME NEW d
      PROVE  /\ OwnSource(d)' = OwnSource(d) /\ (SearchFails(d)' <=> SearchFails(d)) /\ (Neither(d)' <=> Neither(d))
             /\ \A file : Good(d, file)' <=> Good(d, file)
  <2>1. Applying(d)' = Applying(d) /\ Unusable(d)' = Unusable(d)
    BY DEF Applying, Unusable, At
  <2>2. OwnSource(d)' = OwnSource(d)
    BY <2>1 DEF OwnSource
  <2>3. SearchFails(d)' <=> SearchFails(d)
    BY <2>1 DEF SearchFails
  <2>4. Neither(d)' <=> Neither(d)
    BY DEF Neither, At
  <2>5. InForce(d)' = InForce(d)
    BY <2>1 DEF InForce
  <2>6. \A file : Good(d, file)' <=> Good(d, file)
    BY <2>1, <2>3, <2>5 DEF Good
  <2>7. QED
    BY <2>2, <2>3, <2>4, <2>6
<1>4. ASSUME NEW d PROVE OwnFails(d)' <=> OwnFails(d)
  <2>1. /\ OwnSource(d)' = OwnSource(d)
        /\ Applying(d)' = Applying(d) /\ Unusable(d)' = Unusable(d)
    BY <1>3 DEF Applying, Unusable, At
  <2>2. /\ FileRefused(OwnSource(d))' <=> FileRefused(OwnSource(d))
        /\ SectionsRefused(OwnSource(d))' <=> SectionsRefused(OwnSource(d))
    <3>. DEFINE s == OwnSource(d)
    <3>1. Document(s.file)' = Document(s.file)
      BY <1>1, <2>1
    <3>2. FileLayers(s)' = FileLayers(s)
      BY <2>1, <3>1 DEF FileLayers, Cwd
    <3>3. Sections(s)' = Sections(s)
      BY <3>2 DEF Sections, Cwd
    <3>4. Layers(s)' = Layers(s)
      BY <3>3 DEF Layers, Cwd
    <3>5. QED
      BY <2>1, <3>1, <3>3, <3>4 DEF FileRefused, SectionsRefused
  <2>3. QED
    BY <2>1, <2>2 DEF OwnFails
<1>5. (InputsRefused' <=> InputsRefused) /\ (Discovers' <=> Discovers)
  BY DEF InputsRefused, PathOptions, IsInline, Discovers
<1>6. QED
  BY <1>2, <1>3, <1>4, <1>5

\* What a lookup of its own finds, if configuration files are searched for.
LEMMA OwnSourceIs ==
  ASSUME NEW dir
  PROVE  /\ Discovers => OwnSource(dir).kind \in {"auto", "none"}
         /\ \A file : Discovers /\ Good(dir, file) => OwnSource(dir) = SourceFor(file)
         /\ ~Discovers /\ inputs # Nothing => OwnSource(dir).kind \in {"isolated", "explicit"}
<1>1. ASSUME Discovers
      PROVE  OwnSource(dir) = IF Applying(dir) = {} THEN Source("none", Nothing)
                              ELSE Source("auto", Candidate(Nearest(Applying(dir))))
  BY <1>1 DEF OwnSource, Discovers
<1>2. ASSUME ~Discovers, inputs # Nothing
      PROVE  OwnSource(dir) = Source("isolated", Nothing) \/ OwnSource(dir) = Source("explicit", inputs.explicit)
  BY <1>2 DEF OwnSource, Discovers
<1>3. ASSUME Discovers, NEW file, Good(dir, file) PROVE OwnSource(dir) = SourceFor(file)
  BY <1>1, <1>3 DEF SourceFor, Good, InForce
<1>4. QED
  BY <1>1, <1>2, <1>3 DEF Source

LEMMA FailRight ==
  ASSUME Unedited, Fail, OwnFails(lookup.start), inputs = Nothing => InputsRefused,
         UNCHANGED <<invocation, disk, inputs, closest>>, ParsedAgrees'
  PROVE  Unedited'
<1>. USE Steady DEF Unedited
<1>1. ParsedAgrees /\ lookup' = Nothing /\ UNCHANGED <<bySource, byDir>> /\ failures' = failures \cup {lookup.start}
  BY DEF Fail
<1>2. FailuresRight'
  BY <1>1 DEF FailuresRight
<1>3. ClosestRight' /\ ProfilesRight'
  BY <1>1 DEF ClosestRight, ProfilesRight
<1>4. SearchRight'
  BY <1>1 DEF SearchRight
<1>5. QED
  BY <1>2, <1>3, <1>4

\* A search ends with the file in force where it is: it is in force wherever
\* the search was.
LEMMA FoundRight ==
  ASSUME SnapshotInv, Unedited, Searching, NEW file \in {Nothing} \cup {Candidate(d) : d \in Directories},
         Found(file), Good(lookup.at, file),
         UNCHANGED <<invocation, disk, inputs, bySource, byDir, failures>>, ParsedAgrees'
  PROVE  Unedited'
<1>1. /\ lookup # Nothing /\ lookup.source = Nothing /\ Discovers /\ lookup.start \in Directories
      /\ ParsedAgrees /\ lookup.visited = Passed(lookup.start, lookup.at) /\ lookup.at \in Above(lookup.start)
      /\ \A d \in lookup.visited : Neither(d)
  BY DEF Searching, Discovering, Discovers, Unedited, SearchRight, SnapshotInv, Shape, Lookups
<1>2. \A d \in lookup.visited \cup {lookup.at} : Good(d, file)
  BY <1>1, SearchAlong
<1>3. ClosestRight'
  <2>1. ASSUME NEW d \in DOMAIN closest' PROVE Good(d, closest'[d])
    BY <1>2 DEF Found, Unedited, ClosestRight
  <2>2. QED
    BY <1>1, <2>1, Steady DEF ClosestRight
<1>4. SearchRight'
  <2>1. lookup'.source = SourceFor(file)
    <3>1. lookup' = [lookup EXCEPT !.source = SourceFor(file)] /\ lookup \in Lookups
      BY <1>1 DEF Found, SourceFor, SnapshotInv, Shape
    <3>2. QED
      BY <3>1 DEF Lookups
  <2>2. Discovers'
    BY <1>1, Steady
  <2>3. SourceFor(file) # Nothing
    <3>1. file \in SourceFiles
      BY DEF SourceFiles
    <3>2. QED
      BY <3>1, SourcesAreSources DEF SourceFor
  <2>4. QED
    BY <2>1, <2>2, <2>3 DEF SearchRight
<1>5. FailuresRight' /\ ProfilesRight'
  BY <1>1, Steady DEF Unedited, FailuresRight, ProfilesRight
<1>6. QED
  BY <1>3, <1>4, <1>5 DEF Unedited

LEMMA ResolvedRight ==
  ASSUME SnapshotInv, Unedited, NEW profile, Resolved(profile), lookup # Nothing, lookup.source # Nothing,
         profile = Layered(lookup.source), ~FileRefused(lookup.source), ~SectionsRefused(lookup.source),
         UNCHANGED <<invocation, disk, inputs, closest, failures>>, ParsedAgrees'
  PROVE  Unedited'
<1>. DEFINE source == lookup.source
            start == lookup.start
<1>0. ParsedAgrees
  BY DEF Unedited
<1>1. source = OwnSource(start) /\ (Discovers => ~SearchFails(start))
  <2>1. CASE Discovers
    <3>1. start \in DOMAIN closest /\ source = SourceFor(closest[start])
      BY <2>1 DEF SnapshotInv, Search
    <3>2. Good(start, closest[start])
      BY <3>1 DEF Unedited, ClosestRight
    <3>3. QED
      BY <2>1, <3>1, <3>2, OwnSourceIs DEF Good
  <2>2. CASE ~Discovers
    BY <2>2 DEF Unedited, SearchRight
  <2>3. QED
    BY <2>1, <2>2
<1>2. /\ DOMAIN bySource' = DOMAIN bySource \cup {source} /\ DOMAIN byDir' = DOMAIN byDir \cup {start}
      /\ \A s \in DOMAIN bySource : s # source => bySource'[s] = bySource[s]
      /\ bySource'[source] = profile /\ byDir'[start] = profile
      /\ \A d \in DOMAIN byDir : d # start => byDir'[d] = byDir[d]
  BY DEF Resolved, Put
<1>3. \A s \in DOMAIN bySource' : bySource'[s] = Layered(s) /\ ~FileRefused(s) /\ ~SectionsRefused(s)
  BY <1>2 DEF Unedited, ProfilesRight
<1>4. ASSUME NEW d \in DOMAIN byDir'
      PROVE  /\ OwnSource(d) \in DOMAIN bySource' /\ byDir'[d] = bySource'[OwnSource(d)]
             /\ Discovers => ~SearchFails(d)
  <2>1. CASE d = start
    BY <1>1, <1>2, <2>1
  <2>2. CASE d # start
    <3>1. /\ d \in DOMAIN byDir /\ OwnSource(d) \in DOMAIN bySource /\ byDir[d] = bySource[OwnSource(d)]
          /\ bySource[OwnSource(d)] = Layered(OwnSource(d)) /\ Discovers => ~SearchFails(d)
      BY <1>2, <2>2 DEF Unedited, ProfilesRight
    <3>2. bySource'[OwnSource(d)] = Layered(OwnSource(d))
      BY <1>2, <1>3, <3>1
    <3>3. QED
      BY <1>2, <2>2, <3>1, <3>2 DEF Unedited, ProfilesRight
  <2>3. QED
    BY <2>1, <2>2
<1>5. ProfilesRight'
  BY <1>0, <1>3, <1>4, Steady DEF ProfilesRight
<1>6. FailuresRight' /\ ClosestRight'
  BY <1>0, Steady DEF Unedited, FailuresRight, ClosestRight
<1>7. SearchRight'
  BY DEF Resolved, SearchRight
<1>8. QED
  BY <1>5, <1>6, <1>7 DEF Unedited

\* Where the candidate of a directory is examined.
LEMMA ExaminedIs ==
  ASSUME SnapshotInv, Unedited, Examine
  PROVE  /\ lookup.at \in Directories /\ lookup.start \in Directories /\ Discovers /\ inputs # Nothing
         /\ lookup # Nothing /\ lookup.source = Nothing
         /\ Examined = At(lookup.at) /\ (Exists <=> At(lookup.at) # Absent)
         /\ \A d \in Passed(lookup.start, lookup.at) : Neither(d)
         /\ lookup.at \in Above(lookup.start) /\ lookup.visited = Passed(lookup.start, lookup.at)
<1>1. /\ lookup \in Lookups /\ Discovers /\ inputs # Nothing /\ lookup # Nothing /\ lookup.source = Nothing
  BY DEF Examine, Searching, Discovering, Discovers, SnapshotInv, Shape
<1>2. Examined = At(lookup.at) /\ (Exists <=> At(lookup.at) # Absent)
  BY DocumentIsDisk DEF Examined, At, Exists, Unedited
<1>3. QED
  BY <1>1, <1>2 DEF Lookups, Unedited, SearchRight

LEMMA RefusedRight ==
  ASSUME SnapshotInv, Unedited, CandidateRefused, ParsedAgrees'
  PROVE  Unedited'
<1>1. Examine
  BY DEF CandidateRefused
<1>2. SearchFails(lookup.at)
  <2>1. At(lookup.at) = Broken \/ (At(lookup.at) # Absent /\ At(lookup.at).table = "odd")
    BY <1>1, ExaminedIs DEF CandidateRefused, Says
  <2>2. QED
    BY <1>1, <2>1, ExaminedIs, UnusableFails
<1>3. SearchFails(lookup.start)
  BY <1>1, <1>2, ExaminedIs, SearchAlong
<1>4. OwnFails(lookup.start)
  BY <1>1, <1>3, ExaminedIs, OwnSourceIs DEF OwnFails, SearchFails
<1>5. QED
  BY <1>1, <1>4, FailRight, ExaminedIs DEF CandidateRefused

LEMMA AppliesRight ==
  ASSUME SnapshotInv, Unedited, CandidateApplies, ParsedAgrees'
  PROVE  Unedited'
<1>1. Examine
  BY DEF CandidateApplies
<1>2. Good(lookup.at, Candidate(lookup.at))
  <2>1. At(lookup.at) \notin {Absent, Broken} /\ At(lookup.at).table = "settings"
    BY <1>1, ExaminedIs DEF CandidateApplies, Says
  <2>2. QED
    BY <1>1, <2>1, ExaminedIs, OwnFileInForce
<1>3. lookup.at \in Directories
  BY <1>1, ExaminedIs
<1>4. QED
  BY <1>1, <1>2, <1>3, FoundRight DEF CandidateApplies, Examine

LEMMA GoUpRight ==
  ASSUME SnapshotInv, Unedited, GoUp, ParsedAgrees'
  PROVE  Unedited'
<1>. DEFINE at == lookup.at
            start == lookup.start
<1>1. Examine
  BY DEF GoUp
<1>2. Neither(at)
  BY <1>1, ExaminedIs, ResolverAssumption DEF GoUp, Says, Neither
<1>3. CASE at = Root
  <2>1. Good(at, Nothing)
    BY <1>1, <1>2, <1>3, ExaminedIs, NoFileInForce
  <2>2. QED
    BY <1>1, <1>3, <2>1, FoundRight DEF GoUp, Examine
<1>4. CASE at # Root
  <2>1. /\ start \in Directories /\ at \in Above(start) /\ lookup.visited = Passed(start, at)
        /\ \A d \in Passed(start, at) : Neither(d)
        /\ lookup.source = Nothing /\ lookup \in Lookups /\ ParsedAgrees
    BY <1>1, ExaminedIs DEF SnapshotInv, Shape, Unedited
  <2>2. start \in Seq(Names) /\ Len(start) \in Nat
    BY <2>1, DirectoryIs
  <2>3. PICK m \in 0..Len(start) : at = SubSeq(start, 1, m)
    BY <2>1 DEF Above
  <2>4. Len(at) = m /\ m # 0 /\ ParentOf(at) = SubSeq(start, 1, m - 1) /\ Len(SubSeq(start, 1, m - 1)) = m - 1
    <3>1. Len(at) = m
      BY <2>2, <2>3, PrefixIs
    <3>2. m # 0 /\ ParentOf(at) = SubSeq(start, 1, m - 1)
      BY <1>4, <2>2, <2>3, AbovePrefix
    <3>3. m - 1 \in 0..Len(start)
      BY <2>2, <3>2
    <3>4. Len(SubSeq(start, 1, m - 1)) = m - 1
      BY <2>2, <3>3, PrefixIs
    <3>5. QED
      BY <3>1, <3>2, <3>4
  <2>5. ParentOf(at) \in Above(start)
    BY <2>2, <2>4 DEF Above
  <2>6. Passed(start, ParentOf(at)) = Passed(start, at) \cup {at}
    <3>1. ((m - 1) + 1)..Len(start) = ((m + 1)..Len(start)) \cup {m}
      BY <2>2, <2>3
    <3>2. /\ Passed(start, ParentOf(at)) = {SubSeq(start, 1, n) : n \in ((m - 1) + 1)..Len(start)}
          /\ Passed(start, at) = {SubSeq(start, 1, n) : n \in (m + 1)..Len(start)}
      BY <2>4 DEF Passed
    <3>. HIDE DEF at, start
    <3>3. QED
      BY <2>3, <3>1, <3>2
  <2>7. /\ lookup' = [lookup EXCEPT !.visited = @ \cup {at}, !.at = ParentOf(@)]
        /\ UNCHANGED <<invocation, disk, edits, inputs, closest, bySource, byDir, failures>>
    BY <1>4 DEF GoUp
  <2>8. /\ lookup'.start = start /\ lookup'.at = ParentOf(at) /\ lookup'.visited = lookup.visited \cup {at}
        /\ lookup'.source = Nothing
    BY <2>1, <2>7 DEF Lookups
  <2>9. SearchRight'
    <3>1. ParentOf(at) \in Above(start) /\ lookup'.visited = Passed(start, ParentOf(at))
            /\ \A d \in lookup'.visited : Neither(d)
      BY <1>2, <2>1, <2>5, <2>6, <2>8
    <3>2. \A d : Neither(d)' <=> Neither(d)
      BY <2>1, <2>7, Steady
    <3>3. QED
      BY <2>8, <3>1, <3>2 DEF SearchRight, Above, Passed
  <2>10. FailuresRight' /\ ClosestRight' /\ ProfilesRight'
    BY <2>1, <2>7, Steady DEF Unedited, FailuresRight, ClosestRight, ProfilesRight
  <2>11. QED
    BY <2>9, <2>10 DEF Unedited
<1>5. QED
  BY <1>3, <1>4

LEMMA InitIndependence == ASSUME Init PROVE IndependenceInv
<1>1. /\ lookup = Nothing /\ inputs = Nothing /\ edits = 0 /\ failures = {} /\ DOMAIN parsed = {}
      /\ DOMAIN closest = {} /\ DOMAIN bySource = {} /\ DOMAIN byDir = {}
  BY DEF Init, NoFunction
<1>2. SnapshotInv
  BY InitSnapshot
<1>3. QED
  BY <1>1, <1>2 DEF IndependenceInv, InlineIsSequence, Unedited, ParsedAgrees, FailuresRight, ClosestRight,
       ProfilesRight, SearchRight

\* A step that edits nothing keeps what was found right.
LEMMA UneditedStep ==
  ASSUME IndependenceInv, Next, edits = 0, edits' = 0
  PROVE  Unedited'
<1>0. SnapshotInv /\ Unedited /\ ParsedAgrees /\ (inputs = Nothing => DOMAIN bySource = {})
  BY DEF IndependenceInv, Unedited
<1>1. CASE Edit \/ \E dir \in Directories : Retry(dir)
  BY <1>1 DEF Edit, Retry
<1>2. ASSUME NEW dir \in Directories, Begin(dir) PROVE Unedited'
  <2>1. /\ lookup' = [start |-> dir, at |-> dir, visited |-> {}, source |-> Nothing]
        /\ UNCHANGED <<invocation, disk, parsed, inputs, closest, bySource, byDir, failures>>
    BY <1>2 DEF Begin
  <2>2. ParsedAgrees'
    BY <1>0, <2>1 DEF ParsedAgrees
  <2>3. Passed(dir, dir) = {}
    <3>1. (Len(dir) + 1)..Len(dir) = {}
      BY DirectoryIs
    <3>2. QED
      BY <3>1 DEF Passed
  <2>4. dir \in Above(dir)
    BY DirectoryIs
  <2>5. SearchRight'
    BY <2>1, <2>3, <2>4 DEF SearchRight, Above, Passed
  <2>6. FailuresRight' /\ ClosestRight' /\ ProfilesRight'
    BY <1>0, <2>1, <2>2, Steady DEF Unedited, FailuresRight, ClosestRight, ProfilesRight
  <2>7. QED
    BY <2>2, <2>5, <2>6 DEF Unedited
<1>3. CASE Classify
  <2>1. ParsedAgrees'
    BY <1>0, <1>3 DEF Classify, ParsedAgrees
  <2>2. CASE InputsRefused
    BY <1>0, <1>3, <2>1, <2>2, FailRight DEF Classify, OwnFails
  <2>3. CASE ~InputsRefused
    <3>1. /\ lookup # Nothing /\ inputs = Nothing
          /\ UNCHANGED <<invocation, disk, closest, bySource, byDir, lookup, failures>>
      BY <1>3, <2>3 DEF Classify
    <3>2. failures = {} /\ DOMAIN closest = {} /\ DOMAIN byDir = {} /\ DOMAIN bySource = {} /\ lookup.source = Nothing
      BY <1>0, <2>3, <3>1 DEF SnapshotInv, Chain, Search, Shared, Discovers, Unedited, FailuresRight
    <3>3. SearchRight'
      BY <1>0, <3>1, <3>2 DEF Unedited, SearchRight, Neither, At
    <3>4. FailuresRight' /\ ClosestRight' /\ ProfilesRight'
      BY <3>1, <3>2 DEF FailuresRight, ClosestRight, ProfilesRight
    <3>5. QED
      BY <2>1, <3>3, <3>4 DEF Unedited
  <2>4. QED
    BY <2>2, <2>3
<1>4. CASE WithoutDiscovery
  <2>. DEFINE source == IF invocation.isolated THEN Source("isolated", Nothing) ELSE Source("explicit", inputs.explicit)
  <2>1. /\ lookup # Nothing /\ inputs # Nothing /\ lookup' = [lookup EXCEPT !.source = source]
        /\ UNCHANGED <<invocation, disk, parsed, inputs, closest, bySource, byDir, failures>> /\ ~Discovers
    BY <1>4 DEF WithoutDiscovery, Discovering, Discovers
  <2>2. source = OwnSource(lookup.start) /\ source # Nothing
    <3>1. inputs.explicit \in SourceFiles /\ Nothing \in SourceFiles
      BY <1>0, <2>1 DEF SnapshotInv, Shape, SourceFiles
    <3>2. source # Nothing
      BY <3>1, SourcesAreSources
    <3>3. QED
      BY <2>1, <3>2 DEF OwnSource, Discovers
  <2>. HIDE DEF source
  <2>3. lookup'.source = source /\ lookup'.start = lookup.start
    BY <1>0, <2>1 DEF SnapshotInv, Shape, Lookups
  <2>4. ParsedAgrees'
    BY <1>0, <2>1 DEF ParsedAgrees
  <2>5. SearchRight'
    <3>1. \A d : OwnSource(d)' = OwnSource(d)
      BY <1>0, <2>1, <2>4, Steady
    <3>2. QED
      BY <2>2, <2>3, <3>1 DEF SearchRight
  <2>6. FailuresRight' /\ ClosestRight' /\ ProfilesRight'
    BY <1>0, <2>1, <2>4, Steady DEF Unedited, FailuresRight, ClosestRight, ProfilesRight
  <2>7. QED
    BY <2>4, <2>5, <2>6 DEF Unedited
<1>5. CASE FoundEarlier
  <2>1. closest[lookup.at] \in {Nothing} \cup {Candidate(d) : d \in Directories}
    BY <1>0, <1>5 DEF FoundEarlier, SnapshotInv, Shape
  <2>2. Good(lookup.at, closest[lookup.at])
    BY <1>0, <1>5 DEF FoundEarlier, Unedited, ClosestRight
  <2>3. ParsedAgrees'
    BY <1>0, <1>5 DEF FoundEarlier, ParsedAgrees
  <2>4. QED
    BY <1>0, <1>5, <2>1, <2>2, <2>3, FoundRight DEF FoundEarlier
<1>6. CASE CandidateRefused
  <2>1. ParsedAgrees'
    BY <1>0, <1>6, ReadingAgrees DEF CandidateRefused
  <2>2. QED
    BY <1>0, <1>6, <2>1, RefusedRight
<1>7. CASE CandidateApplies
  <2>1. ParsedAgrees'
    BY <1>0, <1>7, ReadingAgrees DEF CandidateApplies
  <2>2. QED
    BY <1>0, <1>7, <2>1, AppliesRight
<1>8. CASE GoUp
  <2>1. ParsedAgrees'
    <3>1. CASE Exists
      BY <1>0, <1>8, <3>1, ReadingAgrees DEF GoUp
    <3>2. CASE ~Exists
      BY <1>0, <1>8, <3>2 DEF GoUp, ParsedAgrees
    <3>3. QED
      BY <3>1, <3>2
  <2>2. QED
    BY <1>0, <1>8, <2>1, GoUpRight
<1>9. CASE ShareProfile
  <2>1. lookup.source # Nothing
    BY <1>0, <1>9 DEF ShareProfile, SnapshotInv, Shared
  <2>2. ParsedAgrees'
    BY <1>0, <1>9 DEF ShareProfile, ParsedAgrees
  <2>3. /\ bySource[lookup.source] = Layered(lookup.source)
        /\ ~FileRefused(lookup.source) /\ ~SectionsRefused(lookup.source)
    BY <1>0, <1>9 DEF ShareProfile, Unedited, ProfilesRight
  <2>4. QED
    BY <1>0, <1>9, <2>1, <2>2, <2>3, ResolvedRight DEF ShareProfile
<1>10. CASE LoadProfile
  <2>. DEFINE source == lookup.source
  <2>1. ParsedAgrees'
    <3>1. CASE source.file = Nothing
      BY <1>0, <1>10, <3>1 DEF LoadProfile, ParsedAgrees
    <3>2. CASE source.file # Nothing
      BY <1>0, <1>10, <3>2, ReadingAgrees DEF LoadProfile
    <3>3. QED
      BY <3>1, <3>2
  <2>2. CASE FileRefused(source) \/ SectionsRefused(source)
    <3>1. source = OwnSource(lookup.start) /\ inputs # Nothing
      <4>1. lookup # Nothing /\ source # Nothing
        BY <1>10 DEF LoadProfile
      <4>2. CASE Discovers
        <5>1. lookup.start \in DOMAIN closest /\ source = SourceFor(closest[lookup.start])
          BY <1>0, <4>1, <4>2 DEF SnapshotInv, Search
        <5>2. Good(lookup.start, closest[lookup.start])
          BY <1>0, <5>1 DEF Unedited, ClosestRight
        <5>3. QED
          BY <4>2, <5>1, <5>2, OwnSourceIs DEF Discovers
      <4>3. CASE ~Discovers
        BY <1>0, <4>1, <4>3 DEF SnapshotInv, Search, Unedited, SearchRight
      <4>4. QED
        BY <4>2, <4>3
    <3>2. OwnFails(lookup.start)
      BY <2>2, <3>1 DEF OwnFails
    <3>3. QED
      BY <1>0, <1>10, <2>1, <2>2, <3>1, <3>2, FailRight DEF LoadProfile
  <2>3. CASE ~(FileRefused(source) \/ SectionsRefused(source))
    BY <1>0, <1>10, <2>1, <2>3, ResolvedRight DEF LoadProfile
  <2>4. QED
    BY <2>2, <2>3
<1>11. CASE PlanFiles
  <2>1. UNCHANGED <<invocation, disk, parsed, inputs, closest, bySource, byDir, lookup, failures>>
    BY <1>11 DEF PlanFiles
  <2>2. ParsedAgrees'
    BY <1>0, <2>1 DEF ParsedAgrees
  <2>3. FailuresRight' /\ ClosestRight' /\ ProfilesRight'
    BY <1>0, <2>1, <2>2, Steady DEF Unedited, FailuresRight, ClosestRight, ProfilesRight
  <2>4. SearchRight'
    BY <1>0, <2>1, <2>2, Steady DEF Unedited, SearchRight, Above, Passed
  <2>5. QED
    BY <2>2, <2>3, <2>4 DEF Unedited
<1>12. QED
  BY <1>1, <1>2, <1>3, <1>4, <1>5, <1>6, <1>7, <1>8, <1>9, <1>10, <1>11 DEF Next

LEMMA IndependenceStep == ASSUME IndependenceInv, [Next]_vars PROVE IndependenceInv'
<1>1. SnapshotInv'
  BY SnapshotStep DEF IndependenceInv
<1>2. CASE UNCHANGED vars
  <2>1. UNCHANGED <<invocation, disk, edits, parsed, inputs, closest, bySource, byDir, lookup, failures>>
    BY <1>2 DEF vars
  <2>2. Unedited => Unedited'
    <3>. SUFFICES ASSUME Unedited PROVE Unedited'
      OBVIOUS
    <3>1. ParsedAgrees'
      BY <2>1 DEF Unedited, ParsedAgrees
    <3>2. FailuresRight' /\ ClosestRight' /\ ProfilesRight'
      BY <2>1, <3>1, Steady DEF Unedited, FailuresRight, ClosestRight, ProfilesRight
    <3>3. SearchRight'
      BY <2>1, <3>1, Steady DEF Unedited, SearchRight, Above, Passed
    <3>4. QED
      BY <3>1, <3>2, <3>3 DEF Unedited
  <2>3. QED
    BY <1>1, <2>1, <2>2 DEF IndependenceInv, InlineIsSequence
<1>3. CASE Next
  <2>1. edits' \in Nat /\ (edits' = edits \/ edits' = edits + 1)
    BY <1>3 DEF IndependenceInv, Next, Edit, Begin, Retry, Classify, WithoutDiscovery, FoundEarlier, CandidateRefused,
         CandidateApplies, GoUp, ShareProfile, LoadProfile, PlanFiles
  <2>2. edits' = 0 => edits = 0
    BY <2>1 DEF IndependenceInv
  <2>3. edits' = 0 => Unedited'
    BY <1>3, <2>2, UneditedStep
  <2>4. InlineIsSequence'
    <3>1. CASE UNCHANGED inputs
      BY <3>1 DEF IndependenceInv, InlineIsSequence
    <3>2. CASE inputs' = ClassifiedInputs
      BY <3>2, ClassifiedInlineIs DEF IndependenceInv, SnapshotInv, Shape, InlineIsSequence
    <3>3. UNCHANGED inputs \/ inputs' = ClassifiedInputs
      BY <1>3 DEF Next, Edit, Begin, Retry, Classify, WithoutDiscovery, FoundEarlier, CandidateRefused,
           CandidateApplies, GoUp, ShareProfile, LoadProfile, PlanFiles
    <3>4. QED
      BY <3>1, <3>2, <3>3
  <2>5. inputs' = Nothing => DOMAIN bySource' = {}
    <3>1. CASE UNCHANGED bySource
      <4>1. inputs' = Nothing => inputs = Nothing
        BY <1>3 DEF Next, Edit, Begin, Retry, Classify, WithoutDiscovery, FoundEarlier, CandidateRefused,
             CandidateApplies, GoUp, ShareProfile, LoadProfile, PlanFiles, Fail
      <4>2. QED
        BY <3>1, <4>1 DEF IndependenceInv
    <3>2. CASE ShareProfile \/ LoadProfile
      <4>1. lookup # Nothing /\ lookup.source # Nothing /\ UNCHANGED inputs
        BY <3>2 DEF ShareProfile, LoadProfile, IndependenceInv, SnapshotInv, Shared
      <4>2. QED
        BY <4>1 DEF IndependenceInv, SnapshotInv, Search
    <3>3. UNCHANGED bySource \/ ShareProfile \/ LoadProfile
      BY <1>3 DEF Next, Edit, Begin, Retry, Classify, WithoutDiscovery, FoundEarlier, CandidateRefused,
           CandidateApplies, GoUp, PlanFiles, Fail
    <3>4. QED
      BY <3>1, <3>2, <3>3
  <2>6. QED
    BY <1>1, <2>1, <2>3, <2>4, <2>5 DEF IndependenceInv
<1>4. QED
  BY <1>2, <1>3

\* In files that nobody edits, a directory has the settings that a lookup of
\* its own gives it, or fails as that does, whatever was looked up before
\* (what SettingsResolver and _SettingsResolutionContext keep).
THEOREM LookupsStayIndependent == Spec => []LookupsAreIndependent
<1>1. Init => IndependenceInv
  BY InitIndependence
<1>2. IndependenceInv /\ [Next]_vars => IndependenceInv'
  BY IndependenceStep
<1>3. ASSUME IndependenceInv PROVE LookupsAreIndependent
  <2>. SUFFICES ASSUME edits = 0
                PROVE  /\ \A dir \in DOMAIN byDir : ~OwnFails(dir) /\ byDir[dir] = OwnProfile(dir)
                       /\ \A dir \in failures : OwnFails(dir)
    BY DEF LookupsAreIndependent
  <2>1. Unedited
    BY <1>3 DEF IndependenceInv
  <2>2. ASSUME NEW dir \in DOMAIN byDir PROVE ~OwnFails(dir) /\ byDir[dir] = OwnProfile(dir)
    <3>1. inputs # Nothing
      BY <1>3 DEF IndependenceInv, SnapshotInv, Shared
    <3>2. /\ byDir[dir] = Layered(OwnSource(dir)) /\ ~FileRefused(OwnSource(dir)) /\ ~SectionsRefused(OwnSource(dir))
          /\ Discovers => ~SearchFails(dir)
      BY <2>1 DEF Unedited, ProfilesRight
    <3>3. byDir[dir] = OwnProfile(dir)
      BY <1>3, <3>1, <3>2, LayeredIsOwn DEF IndependenceInv
    <3>4. ~OwnFails(dir)
      BY <3>1, <3>2, OwnSourceIs DEF OwnFails, SearchFails
    <3>5. QED
      BY <3>3, <3>4
  <2>3. QED
    BY <2>1, <2>2 DEF Unedited, FailuresRight
<1>4. QED
  BY <1>1, <1>2, <1>3, PTL DEF Spec

-----------------------------------------------------------------------------
(***************************************************************************)
(* The strongest origin of a setting.  In a sound profile no table of      *)
(* per-file settings is weaker than a configuration file; so the two steps *)
(* of EffectiveProfile, each of which compares the setting with one other  *)
(* origin, leave the strongest of all.                                     *)
(***************************************************************************)

PFS == "per_file_settings"

\* Each entry of the table gives a field one value.
SoundTable(table) ==
    /\ \E n \in Nat : DOMAIN table = 1..n
    /\ \A i \in DOMAIN table : \A a, b \in table[i][2] : a[1] = b[1] => a = b

SoundProfile(p) ==
    /\ p = [values |-> [f \in Fields |-> p.values[f]], base |-> [f \in Fields |-> p.base[f]],
            priority |-> [f \in Fields |-> p.priority[f]], root |-> p.root]
    /\ \A f \in Fields : p.priority[f] \in Nat
    /\ p.priority[PFS] = 0 => p.values[PFS] = <<>>
    /\ SoundTable(p.values[PFS])

PlansRight ==
    /\ \A s \in DOMAIN bySource : SoundProfile(bySource[s])
    /\ \A d \in DOMAIN byDir : SoundProfile(byDir[d])
    /\ plans # NoFunction => lookup = Nothing
    /\ \A path \in DOMAIN plans :
         /\ DirectoryOf(path) \in DOMAIN byDir
         /\ plans[path].effective = EffectiveProfile(byDir[DirectoryOf(path)], path)

PlanInv == IndependenceInv /\ PlansRight

LEMMA LayersHavePriority ==
  ASSUME InlineIsSequence, inputs # Nothing, NEW source
  PROVE  \A i \in DOMAIN Layers(source) : Layers(source)[i].priority \in 1..4
<1>. DEFINE own == FileLayers(source)
            S == SectionSet(source)
            T == LayerSet(source)
<1>1. \A x \in S : x.priority \in 1..4
  <2>1. own = <<>> \/ \E a, b : own = <<[section |-> a, base |-> b, priority |-> FilePriority]>>
    BY Zenon DEF FileLayers
  <2>2. \A i \in DOMAIN own : own[i].priority = 1
    BY <2>1 DEF FilePriority
  <2>3. \A i \in DOMAIN InlineLayers : InlineLayers[i].priority = 2
    BY DEF InlineLayers, InlinePriority
  <2>. HIDE DEF own
  <2>4. QED
    BY <2>2, <2>3 DEF SectionSet, own
<1>2. Layers(source) \in Seq(T) /\ Sections(source) \in Seq(S)
  BY LayersAreSequence
<1>3. \A x \in T : x.priority \in 1..4
  <2>1. \A i \in DOMAIN Sections(source) : Sections(source)[i] \in S
    BY <1>2
  <2>2. \A i \in DOMAIN LowerLayers(source) : LowerLayers(source)[i].priority \in 1..4
    BY <1>1, <2>1 DEF LowerLayers, LayerOf, Layer
  <2>3. UpperLayers[1].priority = 3 /\ UpperLayers[2].priority = 4
    BY DEF UpperLayers, Layer, ArgumentPriority, OverridePriority
  <2>4. QED
    BY <2>2, <2>3 DEF LayerSet
<1>. HIDE DEF T
<1>4. \A i \in DOMAIN Layers(source) : Layers(source)[i] \in T
  BY <1>2
<1>5. QED
  BY <1>3, <1>4

LEMMA ValidTable ==
  ASSUME NEW raw, PerFileSettings(raw) # Invalid
  PROVE  SoundTable(PerFileSettings(raw))
<1>. DEFINE updates(i) == Flattened(raw.value[i][2])
            entry(i) == {<<f, OrdinaryValue(f, updates(i)[f])>> : f \in DOMAIN updates(i)}
            table == [i \in DOMAIN raw.value |-> <<raw.value[i][1], entry(i)>>]
<1>1. raw.value \in Seq(ToSet(raw.value)) /\ PerFileSettings(raw) = table
  BY DEF PerFileSettings
<1>2. \E n \in Nat : DOMAIN table = 1..n
  BY <1>1
<1>3. ASSUME NEW i \in DOMAIN table, NEW a \in table[i][2], NEW b \in table[i][2], a[1] = b[1] PROVE a = b
  <2>1. a \in entry(i) /\ b \in entry(i)
    OBVIOUS
  <2>. HIDE DEF updates
  <2>2. QED
    BY <1>3, <2>1
<1>. HIDE DEF table
<1>4. SoundTable(table)
  BY <1>2, <1>3 DEF SoundTable
<1>5. QED
  BY <1>1, <1>4

LEMMA LayeredIsSound ==
  ASSUME InlineIsSequence, inputs # Nothing, NEW source, ~SectionsRefused(source)
  PROVE  SoundProfile(Layered(source))
<1>. DEFINE L == Layers(source)
            p == DefaultProfile(Cwd, RootOf(source))
<1>1. PICK n \in Nat : DOMAIN L = 1..n
  BY LayersAreSequence
<1>2. p = [values |-> [f \in Fields |-> p.values[f]], base |-> [f \in Fields |-> p.base[f]],
           priority |-> [f \in Fields |-> p.priority[f]], root |-> p.root]
  BY FieldsAssumption DEF DefaultProfile
<1>3. PFS \in Fields /\ p.values[PFS] = <<>> /\ \A f \in Fields : p.priority[f] = 0
  BY FieldsAssumption DEF DefaultProfile, DefaultPriority, PFS
<1>4. \A i \in 1..n : L[i].priority \in 1..4
  BY <1>1, LayersHavePriority
<1>5. \A i \in 1..n : \A f \in DOMAIN L[i].updates : f \in Fields /\ Value(f, L[i].updates[f]) # Invalid
  BY <1>1 DEF SectionsRefused, Refused
<1>. DEFINE q == Combined(p, L, 1..n)
            in(f) == SettingLayers(L, 1..n, f)
<1>. HIDE DEF L, p
<1>6. FoldLeft(Apply, p, L) = q
  BY <1>1, <1>2, LastLayerWins
<1>7. ASSUME NEW f, in(f) # {} PROVE LastOf(in(f)) \in 1..n /\ f \in DOMAIN L[LastOf(in(f))].updates
  <2>1. in(f) \in SUBSET (0..n) /\ in(f) \in SUBSET Nat
    BY DEF SettingLayers
  <2>2. PICK m \in in(f) : \A k \in in(f) : k <= m
    BY <1>7, <2>1, GreatestNat
  <2>3. LastOf(in(f)) = m
    BY <2>1, <2>2, LastOfIs
  <2>4. QED
    BY <2>2, <2>3 DEF SettingLayers
<1>8. ASSUME NEW f \in Fields
      PROVE  IF in(f) = {} THEN q.values[f] = p.values[f] /\ q.priority[f] = 0
             ELSE \E l \in 1..n : /\ q.values[f] = Value(f, L[l].updates[f]) /\ q.values[f] # Invalid
                                  /\ q.priority[f] = L[l].priority /\ q.priority[f] \in 1..4
  <2>1. CASE in(f) = {}
    BY <1>3, <2>1 DEF Combined
  <2>2. CASE in(f) # {}
    <3>1. LastOf(in(f)) \in 1..n /\ f \in DOMAIN L[LastOf(in(f))].updates
      BY <1>7, <2>2
    <3>2. q.values[f] = Value(f, L[LastOf(in(f))].updates[f]) /\ q.priority[f] = L[LastOf(in(f))].priority
      BY <2>2 DEF Combined
    <3>3. QED
      BY <1>4, <1>5, <2>2, <3>1, <3>2
  <2>3. QED
    BY <2>1, <2>2
<1>9. q = [values |-> [f \in Fields |-> q.values[f]], base |-> [f \in Fields |-> q.base[f]],
           priority |-> [f \in Fields |-> q.priority[f]], root |-> q.root]
  BY DEF Combined
<1>10. \A f \in Fields : q.priority[f] \in Nat
  <2>. HIDE DEF q, in
  <2>1. QED
    BY <1>8
<1>11. q.priority[PFS] = 0 => q.values[PFS] = <<>>
  <2>. HIDE DEF q, in
  <2>1. QED
    BY <1>3, <1>8
<1>12. SoundTable(q.values[PFS])
  <2>1. CASE in(PFS) = {}
    <3>1. q.values[PFS] = <<>>
      BY <1>3, <1>8, <2>1
    <3>. HIDE DEF q
    <3>2. DOMAIN q.values[PFS] = 1..0
      BY <3>1
    <3>3. QED
      BY <3>2 DEF SoundTable
  <2>2. CASE in(PFS) # {}
    <3>1. PICK raw : q.values[PFS] = PerFileSettings(raw) /\ q.values[PFS] # Invalid
      BY <1>3, <1>8, <2>2 DEF Value, PFS
    <3>2. QED
      BY <3>1, ValidTable
  <2>3. QED
    BY <2>1, <2>2
<1>. HIDE DEF q
<1>13. SoundProfile(q)
  BY <1>9, <1>10, <1>11, <1>12 DEF SoundProfile
<1>14. QED
  BY <1>6, <1>13 DEF Layered, L, p

\* The origins of a setting, as StrongestOriginWins compares them.
Language(base, path) == LanguageDefaults(SourceLanguage(path, base.values["extension"]))

Matched(base, path) ==
    {j \in DOMAIN base.values[PFS] : PatternMatches(base.values[PFS][j][1], path, base.base[PFS])}

PairsFor(base, i, f) == {p \in base.values[PFS][i][2] : p[1] = f}

Origins(base, path, f) ==
    {<<base.priority[f], 0, 0, base.values[f]>>}
      \cup (IF f \in DOMAIN Language(base, path) THEN {<<FilePriority, 1, 0, Language(base, path)[f]>>} ELSE {})
      \cup UNION {{<<base.priority[PFS], 2, i, pair[2]>> : pair \in PairsFor(base, i, f)} : i \in Matched(base, path)}

Beats(a, b) == \/ a[1] > b[1]
               \/ a[1] = b[1] /\ a[2] > b[2]
               \/ a[1] = b[1] /\ a[2] = b[2] /\ a[3] >= b[3]

StrongestOf(origins) == CHOOSE a \in origins : \A b \in origins : Beats(a, b)

LEMMA OriginIs ==
  ASSUME NEW base, SoundProfile(base), NEW path, NEW f \in Fields, NEW a \in Origins(base, path, f)
  PROVE  /\ a[1] \in Nat /\ a[2] \in 0..2 /\ a[3] \in Nat
         /\ a[2] = 0 => a = <<base.priority[f], 0, 0, base.values[f]>>
         /\ a[2] = 1 => f \in DOMAIN Language(base, path) /\ a = <<1, 1, 0, Language(base, path)[f]>>
         /\ a[2] = 2 => /\ a[1] = base.priority[PFS] /\ base.priority[PFS] > 0
                        /\ a[3] \in Matched(base, path)
                        /\ \E pair \in PairsFor(base, a[3], f) : a[4] = pair[2]
<1>1. PFS \in Fields /\ base.priority[f] \in Nat /\ base.priority[PFS] \in Nat
  BY FieldsAssumption DEF SoundProfile, PFS
<1>2. \A i \in Matched(base, path) : i \in Nat /\ base.priority[PFS] > 0
  <2>1. PICK n \in Nat : DOMAIN base.values[PFS] = 1..n
    BY DEF SoundProfile, SoundTable
  <2>2. ASSUME base.priority[PFS] = 0 PROVE Matched(base, path) = {}
    <3>1. base.values[PFS] = <<>>
      BY <2>2 DEF SoundProfile
    <3>2. DOMAIN base.values[PFS] = {}
      BY <3>1
    <3>3. QED
      BY <3>2 DEF Matched
  <2>3. QED
    BY <1>1, <2>1, <2>2 DEF Matched
<1>3. CASE a = <<base.priority[f], 0, 0, base.values[f]>>
  BY <1>1, <1>3
<1>4. CASE f \in DOMAIN Language(base, path) /\ a = <<FilePriority, 1, 0, Language(base, path)[f]>>
  BY <1>4 DEF FilePriority
<1>5. ASSUME NEW i \in Matched(base, path), NEW pair \in PairsFor(base, i, f), a = <<base.priority[PFS], 2, i, pair[2]>>
      PROVE  /\ a[1] \in Nat /\ a[2] \in 0..2 /\ a[3] \in Nat
             /\ a[2] = 2 /\ a[1] = base.priority[PFS] /\ base.priority[PFS] > 0
             /\ a[3] \in Matched(base, path)
             /\ \E q \in PairsFor(base, a[3], f) : a[4] = q[2]
  BY <1>1, <1>2, <1>5
<1>6. QED
  BY <1>3, <1>4, <1>5 DEF Origins

\* The strongest origin, if one beats all others and equals give the same.
LEMMA StrongestIs ==
  ASSUME NEW origins, NEW w \in origins,
         \A a \in origins : a[1] \in Nat /\ a[2] \in 0..2 /\ a[3] \in Nat,
         \A b \in origins : Beats(w, b),
         \A a \in origins : a[1] = w[1] /\ a[2] = w[2] /\ a[3] = w[3] => a[4] = w[4]
  PROVE  StrongestOf(origins)[4] = w[4]
<1>1. StrongestOf(origins) \in origins /\ \A b \in origins : Beats(StrongestOf(origins), b)
  BY Zenon DEF StrongestOf
<1>. DEFINE s == StrongestOf(origins)
<1>. HIDE DEF s
<1>2. s \in origins /\ Beats(s, w) /\ Beats(w, s)
  BY <1>1 DEF s
<1>3. s[1] = w[1] /\ s[2] = w[2] /\ s[3] = w[3]
  BY <1>2 DEF Beats
<1>4. QED
  BY <1>2, <1>3 DEF s

\* The two steps of EffectiveProfile, for the value of a field.
LEMMA WithLanguageIs ==
  ASSUME NEW base, SoundProfile(base), NEW path
  PROVE  LET lp == WithLanguage(base, path)
             value(f) == IF f \in DOMAIN Language(base, path) /\ base.priority[f] <= FilePriority
                         THEN Language(base, path)[f] ELSE base.values[f]
         IN  lp = [values |-> [f \in Fields |-> value(f)], base |-> base.base, priority |-> base.priority,
                   root |-> base.root]
<1>. DEFINE value(f) == IF f \in DOMAIN Language(base, path) /\ base.priority[f] <= FilePriority
                         THEN Language(base, path)[f] ELSE base.values[f]
            V == [f \in Fields |-> value(f)]
<1>1. WithLanguage(base, path) = [base EXCEPT !.values = V]
  BY Zenon DEF WithLanguage, Language
<1>. HIDE DEF V
<1>2. [base EXCEPT !.values = V] = [values |-> V, base |-> base.base, priority |-> base.priority, root |-> base.root]
  BY DEF SoundProfile
<1>3. QED
  BY <1>1, <1>2 DEF V

Updating(p, path, f) == {u \in PerFileUpdates(p, path) : u[2][1] = f}

LastUpdate(p, path, f) ==
    CHOOSE u \in PerFileUpdates(p, path) :
      u[2][1] = f /\ \A w \in PerFileUpdates(p, path) : w[2][1] = f => w[1] <= u[1]

LEMMA WithPerFileSettingsIs ==
  ASSUME NEW v, NEW b, NEW r, NEW t, NEW path, NEW f \in Fields
  PROVE  LET p == [values |-> v, base |-> b, priority |-> r, root |-> t]
         IN  WithPerFileSettings(p, path).values[f] =
               IF Updating(p, path, f) = {} THEN v[f]
               ELSE LastUpdate(p, path, f)[2][2]
<1>. DEFINE p == [values |-> v, base |-> b, priority |-> r, root |-> t]
            updates == PerFileUpdates(p, path)
            set == {u[2][1] : u \in updates}
            last(g) == CHOOSE u \in updates : u[2][1] = g /\ \A w \in updates : w[2][1] = g => w[1] <= u[1]
            V == [g \in Fields |-> IF g \in set THEN last(g)[2][2] ELSE p.values[g]]
            B == [g \in Fields |-> IF g \in set THEN p.base["per_file_settings"] ELSE p.base[g]]
            R == [g \in Fields |-> IF g \in set THEN p.priority["per_file_settings"] ELSE p.priority[g]]
<1>0. p.values = v
  OBVIOUS
<1>. HIDE DEF p
<1>1. WithPerFileSettings(p, path) = [p EXCEPT !.values = V, !.base = B, !.priority = R]
  BY Zenon DEF WithPerFileSettings
<1>. USE DEF p
<1>. HIDE DEF set, V, B, R
<1>2. [p EXCEPT !.values = V, !.base = B, !.priority = R].values = V
  OBVIOUS
<1>3. V[f] = IF f \in set THEN last(f)[2][2] ELSE v[f]
  <2>. HIDE DEF p, updates, last
  <2>1. QED
    BY <1>0 DEF V
<1>4. f \in set <=> Updating(p, path, f) # {}
  BY DEF set, Updating
<1>. HIDE DEF p, updates, last
<1>5. WithPerFileSettings(p, path).values[f] = IF Updating(p, path, f) = {} THEN v[f] ELSE last(f)[2][2]
  BY <1>1, <1>2, <1>3, <1>4
<1>6. QED
  BY <1>5 DEF p, updates, last, LastUpdate

LEMMA EffectiveIsStrongest ==
  ASSUME NEW base, SoundProfile(base), NEW path, NEW f \in Fields
  PROVE  EffectiveProfile(base, path).values[f] = StrongestOf(Origins(base, path, f))[4]
<1>. DEFINE origins == Origins(base, path, f)
            s == base.priority[PFS]
            p == base.priority[f]
            value(g) == IF g \in DOMAIN Language(base, path) /\ base.priority[g] <= FilePriority
                        THEN Language(base, path)[g] ELSE base.values[g]
            v == [g \in Fields |-> value(g)]
            lp == [values |-> v, base |-> base.base, priority |-> base.priority, root |-> base.root]
            updates == PerFileUpdates(lp, path)
            last == LastUpdate(lp, path, f)
<1>1. EffectiveProfile(base, path) = WithPerFileSettings(lp, path)
  BY WithLanguageIs DEF EffectiveProfile
<1>2. WithPerFileSettings(lp, path).values[f] = IF Updating(lp, path, f) = {} THEN v[f] ELSE last[2][2]
  <2>. HIDE DEF v, value, s, p, origins
  <2>1. QED
    BY WithPerFileSettingsIs
<1>3. PFS \in Fields /\ v[PFS] = base.values[PFS] /\ s \in Nat /\ p \in Nat
  <2>1. PFS \notin DOMAIN Language(base, path)
    BY DEF Language, LanguageDefaults, MarkdownDefaults, PFS
  <2>2. PFS \in Fields
    BY FieldsAssumption DEF PFS
  <2>3. QED
    BY <2>1, <2>2 DEF SoundProfile
<1>4. updates = UNION {{<<i, pair>> : pair \in {q \in base.values[PFS][i][2] : s >= base.priority[q[1]]}} :
                         i \in Matched(base, path)}
  BY <1>3 DEF PerFileUpdates, Matched, PFS
<1>. HIDE DEF lp, last, updates
<1>5. \A u : u \in updates /\ u[2][1] = f <=>
               s >= p /\ \E i \in Matched(base, path) : \E pair \in PairsFor(base, i, f) : u = <<i, pair>>
  BY <1>4 DEF PairsFor
<1>6. \A a \in origins : a[1] \in Nat /\ a[2] \in 0..2 /\ a[3] \in Nat
  BY OriginIs
<1>7. <<p, 0, 0, base.values[f]>> \in origins
  BY DEF Origins
<1>8. f \in DOMAIN Language(base, path) => <<1, 1, 0, Language(base, path)[f]>> \in origins
  BY DEF Origins, FilePriority
<1>9. \A i \in Matched(base, path) : \A pair \in PairsFor(base, i, f) : <<s, 2, i, pair[2]>> \in origins
  BY DEF Origins
<1>10. CASE Updating(lp, path, f) # {}
  <2>. DEFINE I == {i \in Matched(base, path) : PairsFor(base, i, f) # {}}
  <2>1. s >= p /\ I # {}
    BY <1>5, <1>10 DEF Updating, updates
  <2>2. PICK n \in Nat : DOMAIN base.values[PFS] = 1..n
    BY DEF SoundProfile, SoundTable
  <2>3. I \in SUBSET (0..n) /\ Matched(base, path) \subseteq 1..n
    BY <2>2 DEF Matched
  <2>4. PICK m \in I : \A k \in I : k <= m
    BY <2>1, <2>2, <2>3, GreatestNat
  <2>5. PICK pair \in PairsFor(base, m, f) : TRUE
    BY <2>4
  <2>6. \A q \in PairsFor(base, m, f) : q = pair
    BY <2>2, <2>3, <2>4, <2>5 DEF SoundProfile, SoundTable, PairsFor
  <2>. HIDE DEF I
  <2>7. m \in Matched(base, path) /\ \A i \in Matched(base, path) : PairsFor(base, i, f) # {} => i <= m
    BY <2>4 DEF I
  <2>8. last = <<m, pair>>
    <3>1. <<m, pair>> \in updates /\ <<m, pair>>[2][1] = f
      BY <1>5, <2>1, <2>5, <2>7
    <3>2. \A w \in updates : w[2][1] = f => w[1] <= m
      BY <1>5, <2>7
    <3>3. last \in updates /\ last[2][1] = f /\ \A w \in updates : w[2][1] = f => w[1] <= last[1]
      <4>1. \E u \in updates : u[2][1] = f /\ \A w \in updates : w[2][1] = f => w[1] <= u[1]
        BY <3>1, <3>2
      <4>2. QED
        BY <4>1, Zenon DEF last, LastUpdate, updates
    <3>4. m <= last[1] /\ last[1] <= m
      BY <3>1, <3>2, <3>3
    <3>5. PICK i \in Matched(base, path) : \E q \in PairsFor(base, i, f) : last = <<i, q>>
      BY <1>5, <3>3
    <3>6. i = m
      BY <2>3, <2>7, <3>4, <3>5
    <3>7. QED
      BY <2>6, <3>5, <3>6
  <2>. DEFINE w == <<s, 2, m, pair[2]>>
  <2>9. w \in origins /\ s > 0
    <3>1. w \in origins
      BY <1>9, <2>5, <2>7
    <3>2. QED
      BY <3>1, OriginIs
  <2>10. ASSUME NEW a \in origins PROVE Beats(w, a)
    <3>1. CASE a[2] = 0
      <4>1. a[1] = p
        BY <3>1, OriginIs
      <4>2. QED
        BY <1>3, <2>1, <3>1, <4>1 DEF Beats
    <3>2. CASE a[2] = 1
      <4>1. a[1] = 1
        BY <3>2, OriginIs
      <4>2. QED
        BY <1>3, <2>9, <3>2, <4>1 DEF Beats
    <3>3. CASE a[2] = 2
      <4>1. a[1] = s /\ a[3] \in Matched(base, path) /\ PairsFor(base, a[3], f) # {}
        BY <3>3, OriginIs
      <4>2. a[3] <= m
        BY <2>7, <4>1
      <4>3. a[3] \in Nat /\ m \in Nat
        BY <1>6, <2>3, <2>7
      <4>4. QED
        BY <3>3, <4>1, <4>2, <4>3 DEF Beats
    <3>4. QED
      BY <1>6, <3>1, <3>2, <3>3
  <2>11. ASSUME NEW a \in origins, a[1] = w[1], a[2] = w[2], a[3] = w[3] PROVE a[4] = w[4]
    <3>1. PICK q \in PairsFor(base, a[3], f) : a[4] = q[2]
      BY <2>11, OriginIs
    <3>2. QED
      BY <2>6, <2>11, <3>1
  <2>. HIDE DEF w, origins
  <2>12. StrongestOf(origins)[4] = w[4]
    BY <1>6, <2>9, <2>10, <2>11, StrongestIs
  <2>13. w[4] = last[2][2]
    BY <2>8 DEF w
  <2>14. QED
    BY <1>1, <1>2, <1>10, <2>12, <2>13 DEF origins
<1>11. CASE Updating(lp, path, f) = {}
  <2>1. ASSUME NEW i \in Matched(base, path), PairsFor(base, i, f) # {} PROVE s < p
    <3>1. PICK pair \in PairsFor(base, i, f) : TRUE
      BY <2>1
    <3>2. ~(<<i, pair>> \in updates /\ <<i, pair>>[2][1] = f)
      BY <1>11 DEF Updating, updates
    <3>3. ~(s >= p)
      BY <1>5, <3>1, <3>2
    <3>4. QED
      BY <1>3, <3>3
  <2>. DEFINE language == f \in DOMAIN Language(base, path) /\ p <= FilePriority
              w == IF language THEN <<1, 1, 0, Language(base, path)[f]>> ELSE <<p, 0, 0, base.values[f]>>
  <2>2. w \in origins /\ w[4] = v[f]
    BY <1>7, <1>8 DEF Origins, FilePriority
  <2>3. ASSUME NEW a \in origins
        PROVE  Beats(w, a) /\ (a[1] = w[1] /\ a[2] = w[2] /\ a[3] = w[3] => a[4] = w[4])
    <3>1. CASE a[2] = 0
      <4>1. a = <<p, 0, 0, base.values[f]>>
        BY <3>1, OriginIs
      <4>2. QED
        BY <1>3, <4>1 DEF Beats, FilePriority
    <3>2. CASE a[2] = 1
      <4>1. a = <<1, 1, 0, Language(base, path)[f]>> /\ f \in DOMAIN Language(base, path)
        BY <3>2, OriginIs
      <4>2. QED
        BY <1>3, <4>1 DEF Beats, FilePriority
    <3>3. CASE a[2] = 2
      <4>1. a[1] = s /\ s > 0 /\ a[3] \in Matched(base, path) /\ PairsFor(base, a[3], f) # {}
        BY <3>3, OriginIs
      <4>2. s < p
        BY <2>1, <4>1
      <4>3. ~language
        BY <1>3, <4>1, <4>2 DEF FilePriority
      <4>4. QED
        BY <1>3, <3>3, <4>1, <4>2, <4>3 DEF Beats
    <3>4. QED
      BY <1>6, <3>1, <3>2, <3>3
  <2>. HIDE DEF w, origins
  <2>4. StrongestOf(origins)[4] = w[4]
    BY <1>6, <2>2, <2>3, StrongestIs
  <2>5. QED
    BY <1>1, <1>2, <1>11, <2>2, <2>4 DEF origins
<1>12. QED
  BY <1>10, <1>11

LEMMA InitPlans == ASSUME Init PROVE PlanInv
<1>1. DOMAIN bySource = {} /\ DOMAIN byDir = {} /\ plans = NoFunction /\ DOMAIN plans = {}
  BY DEF Init, NoFunction
<1>2. QED
  BY <1>1, InitIndependence DEF PlanInv, PlansRight

\* A lookup ends with a sound profile; no file was planned before.
LEMMA ResolvedIsSound ==
  ASSUME PlansRight, NEW profile, Resolved(profile), SoundProfile(profile), lookup # Nothing, UNCHANGED plans
  PROVE  PlansRight'
<1>1. plans = NoFunction /\ lookup' = Nothing
  BY DEF PlansRight, Resolved
<1>2. DOMAIN plans' = {}
  BY <1>1 DEF NoFunction
<1>3. \A s \in DOMAIN bySource' : SoundProfile(bySource'[s])
  BY DEF Resolved, Put, PlansRight
<1>4. \A d \in DOMAIN byDir' : SoundProfile(byDir'[d])
  BY DEF Resolved, Put, PlansRight
<1>5. QED
  BY <1>1, <1>2, <1>3, <1>4 DEF PlansRight

LEMMA PlansStep == ASSUME PlanInv, [Next]_vars PROVE PlanInv'
<1>1. IndependenceInv'
  BY IndependenceStep DEF PlanInv
<1>2. CASE UNCHANGED vars \/ Edit \/ \E dir \in Directories : Retry(dir)
  <2>1. UNCHANGED <<invocation, bySource, byDir, lookup, plans>>
    BY <1>2 DEF vars, Edit, Retry
  <2>2. PlansRight'
    BY <2>1 DEF PlanInv, PlansRight, DirectoryOf, Cwd
  <2>3. QED
    BY <1>1, <2>2 DEF PlanInv
<1>3. CASE \/ \E dir \in Directories : Begin(dir)
           \/ Classify \/ WithoutDiscovery \/ FoundEarlier \/ CandidateRefused \/ CandidateApplies \/ GoUp
  <2>1. UNCHANGED <<bySource, byDir, plans>> /\ plans = NoFunction
    <3>1. UNCHANGED <<bySource, byDir, plans>> /\ (lookup # Nothing \/ plans = NoFunction)
      BY <1>3 DEF Begin, Classify, WithoutDiscovery, FoundEarlier, CandidateRefused, CandidateApplies, GoUp, Fail,
           Found, Discovering, Searching, Examine
    <3>2. QED
      BY <3>1 DEF PlanInv, PlansRight
  <2>2. DOMAIN plans = {}
    BY <2>1 DEF NoFunction
  <2>3. PlansRight'
    BY <2>1, <2>2 DEF PlanInv, PlansRight
  <2>4. QED
    BY <1>1, <2>3 DEF PlanInv
<1>4. CASE ShareProfile
  <2>1. SoundProfile(bySource[lookup.source])
    BY <1>4 DEF ShareProfile, PlanInv, PlansRight
  <2>2. PlansRight'
    BY <1>4, <2>1, ResolvedIsSound DEF ShareProfile, PlanInv
  <2>3. QED
    BY <1>1, <2>2 DEF PlanInv
<1>5. CASE LoadProfile
  <2>1. CASE FileRefused(lookup.source) \/ SectionsRefused(lookup.source)
    <3>1. UNCHANGED <<bySource, byDir, plans>> /\ plans = NoFunction
      BY <1>5, <2>1 DEF LoadProfile, Fail, PlanInv, PlansRight
    <3>2. DOMAIN plans = {}
      BY <3>1 DEF NoFunction
    <3>3. PlansRight'
      BY <3>1, <3>2 DEF PlanInv, PlansRight
    <3>4. QED
      BY <1>1, <3>3 DEF PlanInv
  <2>2. CASE ~FileRefused(lookup.source) /\ ~SectionsRefused(lookup.source)
    <3>1. inputs # Nothing /\ InlineIsSequence
      BY <1>5 DEF LoadProfile, PlanInv, IndependenceInv, SnapshotInv, Search
    <3>2. SoundProfile(Layered(lookup.source))
      BY <2>2, <3>1, LayeredIsSound
    <3>3. PlansRight'
      BY <1>5, <2>2, <3>2, ResolvedIsSound DEF LoadProfile, PlanInv
    <3>4. QED
      BY <1>1, <3>3 DEF PlanInv
  <2>3. QED
    BY <2>1, <2>2
<1>6. CASE PlanFiles
  <2>1. /\ lookup = Nothing /\ UNCHANGED <<invocation, bySource, byDir, lookup>>
        /\ plans' = [path \in {q \in Files : DirectoryOf(q) \in DOMAIN byDir} |-> PlanFor(path)]
    BY <1>6 DEF PlanFiles
  <2>2. \A path \in DOMAIN plans' :
          /\ DirectoryOf(path) \in DOMAIN byDir
          /\ plans'[path].effective = EffectiveProfile(byDir[DirectoryOf(path)], path)
    BY <2>1 DEF PlanFor
  <2>3. PlansRight'
    BY <2>1, <2>2 DEF PlanInv, PlansRight, DirectoryOf, Cwd
  <2>4. QED
    BY <1>1, <2>3 DEF PlanInv
<1>7. QED
  BY <1>2, <1>3, <1>4, <1>5, <1>6 DEF Next

\* A setting of a planned file has the value of its strongest origin
\* (_apply_field_values_profile, effective_profile_for_path).
THEOREM StrongestOriginsWin == Spec => []StrongestOriginWins
<1>1. Init => PlanInv
  BY InitPlans
<1>2. PlanInv /\ [Next]_vars => PlanInv'
  BY PlansStep
<1>3. ASSUME PlanInv PROVE StrongestOriginWins
  <2>1. ASSUME NEW path \in DOMAIN plans, NEW f \in Fields
        PROVE  plans[path].effective.values[f] =
                 StrongestOf(Origins(byDir[DirectoryOf(path)], path, f))[4]
    <3>1. /\ SoundProfile(byDir[DirectoryOf(path)])
          /\ plans[path].effective = EffectiveProfile(byDir[DirectoryOf(path)], path)
      BY <1>3 DEF PlanInv, PlansRight
    <3>2. QED
      BY <3>1, EffectiveIsStrongest
  <2>2. QED
    BY <2>1 DEF StrongestOriginWins, StrongestOf, Origins, Beats, Language, Matched, PairsFor, PFS
<1>4. QED
  BY <1>1, <1>2, <1>3, PTL DEF Spec

-----------------------------------------------------------------------------
(* Rules taken one after the other, each kept if it is compatible with     *)
(* those kept before: T is the order, I what each is incompatible with.    *)

Greedy(kept, T, I, n) ==
    kept = [k \in 0..n |->
              IF k = 0 THEN {}
              ELSE IF kept[k - 1] \cap I[k] = {} THEN kept[k - 1] \cup {T[k]}
              ELSE kept[k - 1]]

LEMMA GreedyExists ==
  ASSUME NEW n \in Nat, NEW T, NEW I
  PROVE  \E kept : Greedy(kept, T, I, n)
<1>. DEFINE bad == {m \in Nat : ~\E kept : Greedy(kept, T, I, m)}
<1>1. SUFFICES ASSUME bad # {} PROVE FALSE
  OBVIOUS
<1>2. PICK m \in bad : \A k \in bad : m <= k
  <2>1. bad \in SUBSET Nat
    OBVIOUS
  <2>. HIDE DEF bad
  <2>2. QED
    BY <1>1, <2>1, LeastNat
<1>3. m \in Nat /\ ~\E kept : Greedy(kept, T, I, m)
  OBVIOUS
<1>4. m # 0
  <2>1. Greedy([k \in 0..0 |-> {}], T, I, 0)
    BY DEF Greedy
  <2>2. QED
    BY <1>3, <2>1
<1>5. PICK before : Greedy(before, T, I, m - 1)
  <2>1. m - 1 \in Nat /\ ~(m <= m - 1)
    BY <1>3, <1>4
  <2>2. m - 1 \notin bad
    BY <1>2, <2>1
  <2>3. QED
    BY <2>1, <2>2
<1>. DEFINE last == IF before[m - 1] \cap I[m] = {} THEN before[m - 1] \cup {T[m]} ELSE before[m - 1]
            kept == [k \in 0..m |-> IF k = m THEN last ELSE before[k]]
            body == [k \in 0..m |->
                       IF k = 0 THEN {}
                       ELSE IF kept[k - 1] \cap I[k] = {} THEN kept[k - 1] \cup {T[k]}
                       ELSE kept[k - 1]]
<1>6. \A k \in 0..m : kept[k] = body[k]
  <2>1. SUFFICES ASSUME NEW k \in 0..m PROVE kept[k] = body[k]
    OBVIOUS
  <2>2. \A i \in 0..m : i # m => i \in 0..(m - 1)
    BY <1>3
  <2>3. \A i \in 0..(m - 1) : kept[i] = before[i]
    BY <1>3
  <2>4. CASE k = 0
    BY <1>3, <1>4, <1>5, <2>4 DEF Greedy
  <2>5. CASE k # 0
    <3>1. k - 1 \in 0..(m - 1) /\ kept[k - 1] = before[k - 1]
      BY <1>3, <2>3, <2>5
    <3>2. CASE k = m
      BY <3>1, <3>2, <2>5
    <3>3. CASE k # m
      <4>1. k \in 0..(m - 1) /\ kept[k] = before[k]
        BY <2>2, <2>3, <3>3
      <4>2. before[k] = IF before[k - 1] \cap I[k] = {} THEN before[k - 1] \cup {T[k]} ELSE before[k - 1]
        BY <1>5, <2>5, <4>1 DEF Greedy
      <4>. HIDE DEF kept
      <4>3. QED
        BY <2>5, <3>1, <4>1, <4>2
    <3>4. QED
      BY <3>2, <3>3
  <2>6. QED
    BY <2>4, <2>5
<1>7. kept = body
  <2>1. kept = [k \in 0..m |-> kept[k]]
    OBVIOUS
  <2>2. body = [k \in 0..m |-> body[k]]
    OBVIOUS
  <2>. HIDE DEF kept, body
  <2>3. QED
    BY <1>6, <2>1, <2>2
<1>. HIDE DEF kept
<1>8. Greedy(kept, T, I, m)
  BY <1>7 DEF Greedy
<1>9. QED
  BY <1>3, <1>8

\* What is kept is what no kept one before it is incompatible with.
LEMMA GreedyKeeps ==
  ASSUME NEW n \in Nat, NEW T, NEW I, NEW kept, Greedy(kept, T, I, n),
         \A j, k \in 1..n : T[j] = T[k] => j = k
  PROVE  /\ kept[n] \subseteq {T[k] : k \in 1..n}
         /\ \A k \in 1..n :
               T[k] \in kept[n] <=> \A j \in 1..n : j < k /\ T[j] \in kept[n] => T[j] \notin I[k]
<1>. DEFINE Holds(m) ==
              /\ kept[m] \subseteq {T[k] : k \in 1..m}
              /\ \A k \in 1..m :
                    T[k] \in kept[m] <=> \A j \in 1..n : j < k /\ T[j] \in kept[m] => T[j] \notin I[k]
            bad == {m \in 0..n : ~Holds(m)}
<1>1. kept[0] = {}
  BY DEF Greedy
<1>2. \A m \in 1..n : kept[m] = IF kept[m - 1] \cap I[m] = {} THEN kept[m - 1] \cup {T[m]} ELSE kept[m - 1]
  <2>1. \A m \in 1..n : m \in 0..n /\ m # 0
    OBVIOUS
  <2>2. QED
    BY <2>1, Zenon DEF Greedy
<1>3. Holds(0)
  BY <1>1
<1>4. ASSUME NEW m \in 1..n, Holds(m - 1) PROVE Holds(m)
  <2>1. \A k \in 1..m : k = m \/ k \in 1..(m - 1)
    OBVIOUS
  <2>2. kept[m - 1] \subseteq {T[k] : k \in 1..(m - 1)}
    BY <1>4
  <2>3. T[m] \notin kept[m - 1]
    BY <2>2
  <2>4. kept[m] \subseteq kept[m - 1] \cup {T[m]} /\ kept[m - 1] \subseteq kept[m]
    BY <1>2
  <2>5. T[m] \in kept[m] <=> kept[m - 1] \cap I[m] = {}
    BY <1>2, <2>3
  <2>6. \A j \in 1..n : j < m => (T[j] \in kept[m] <=> T[j] \in kept[m - 1])
    BY <2>4
  <2>7. kept[m] \subseteq {T[k] : k \in 1..m}
    <3>1. \A k \in 1..(m - 1) : k \in 1..m
      OBVIOUS
    <3>2. m \in 1..m
      OBVIOUS
    <3>3. QED
      BY <2>2, <2>4, <3>1, <3>2
  <2>8. ASSUME NEW k \in 1..(m - 1)
        PROVE  T[k] \in kept[m] <=> \A j \in 1..n : j < k /\ T[j] \in kept[m] => T[j] \notin I[k]
    <3>1. T[k] \in kept[m - 1] <=> \A j \in 1..n : j < k /\ T[j] \in kept[m - 1] => T[j] \notin I[k]
      BY <1>4
    <3>2. k \in 1..n /\ k < m /\ \A j \in 1..n : j < k => j < m
      OBVIOUS
    <3>3. QED
      BY <2>6, <3>1, <3>2
  <2>9. T[m] \in kept[m] <=> \A j \in 1..n : j < m /\ T[j] \in kept[m] => T[j] \notin I[m]
    <3>1. kept[m - 1] \cap I[m] = {} <=> \A j \in 1..n : j < m /\ T[j] \in kept[m - 1] => T[j] \notin I[m]
      <4>1. \A x \in kept[m - 1] : \E j \in 1..n : j < m /\ x = T[j]
        <5>1. \A j \in 1..(m - 1) : j \in 1..n /\ j < m
          OBVIOUS
        <5>2. QED
          BY <2>2, <5>1
      <4>2. QED
        BY <4>1
    <3>2. QED
      BY <2>5, <2>6, <3>1
  <2>10. QED
    BY <2>1, <2>7, <2>8, <2>9
<1>5. bad = {}
  <2>1. SUFFICES ASSUME bad # {} PROVE FALSE
    OBVIOUS
  <2>2. PICK m \in bad : \A k \in bad : m <= k
    <3>1. bad \in SUBSET Nat
      OBVIOUS
    <3>. HIDE DEF bad
    <3>2. QED
      BY <2>1, <3>1, LeastNat
  <2>3. m \in 0..n /\ ~Holds(m)
    OBVIOUS
  <2>4. m # 0
    BY <1>3, <2>3
  <2>5. m - 1 \in 0..n /\ m \in 1..n
    BY <2>3, <2>4
  <2>6. Holds(m - 1)
    BY <2>2, <2>5
  <2>. HIDE DEF Holds
  <2>7. QED
    BY <1>4, <2>3, <2>5, <2>6
<1>6. Holds(n)
  BY <1>5
<1>7. QED
  BY <1>6

-----------------------------------------------------------------------------
(* Ranks in a strict total order                                           *)

Orders(R, C) ==
    /\ \A c \in C : <<c, c>> \notin R
    /\ \A c, d \in C : c # d => <<c, d>> \in R \/ <<d, c>> \in R
    /\ \A c, d, e \in C : <<c, d>> \in R /\ <<d, e>> \in R => <<c, e>> \in R

Rank(R, C, c) == Cardinality({d \in C : <<d, c>> \in R})

LEMMA RanksOrder ==
  ASSUME NEW C, IsFiniteSet(C), NEW R, Orders(R, C)
  PROVE  /\ \A c \in C : Rank(R, C, c) \in 0..(Cardinality(C) - 1)
         /\ \A c, d \in C : <<c, d>> \in R <=> Rank(R, C, c) < Rank(R, C, d)
         /\ \A k \in 1..Cardinality(C) : \E c \in C : Rank(R, C, c) = k - 1
<1>. DEFINE below(c) == {d \in C : <<d, c>> \in R}
            n == Cardinality(C)
<1>1. n \in Nat
  BY FS_CardinalityType
<1>2. \A c \in C : IsFiniteSet(below(c)) /\ Cardinality(below(c)) \in Nat
  <2>1. ASSUME NEW c \in C PROVE IsFiniteSet(below(c)) /\ Cardinality(below(c)) \in Nat
    <3>1. below(c) \in SUBSET C
      OBVIOUS
    <3>. HIDE DEF below
    <3>2. IsFiniteSet(below(c))
      BY <3>1, FS_Subset
    <3>3. QED
      BY <3>2, FS_CardinalityType
  <2>2. QED
    BY <2>1
<1>3. ASSUME NEW A, NEW B, IsFiniteSet(B), A \subseteq B, A # B
      PROVE  Cardinality(A) < Cardinality(B)
  <2>1. /\ IsFiniteSet(A) /\ Cardinality(A) <= Cardinality(B)
        /\ Cardinality(B) = Cardinality(A) => B = A
    BY <1>3, FS_Subset
  <2>2. Cardinality(A) \in Nat /\ Cardinality(B) \in Nat
    BY <1>3, <2>1, FS_CardinalityType
  <2>3. QED
    BY <1>3, <2>1, <2>2
<1>4. \A c \in C : Rank(R, C, c) \in 0..(n - 1)
  <2>1. ASSUME NEW c \in C PROVE Rank(R, C, c) \in 0..(n - 1)
    <3>1. below(c) \subseteq C /\ below(c) # C
      BY DEF Orders
    <3>. HIDE DEF below
    <3>2. Cardinality(below(c)) < n
      BY <1>3, <3>1
    <3>3. Rank(R, C, c) = Cardinality(below(c))
      BY DEF Rank, below
    <3>4. QED
      BY <1>1, <1>2, <3>2, <3>3
  <2>2. QED
    BY <2>1
<1>5. ASSUME NEW c \in C, NEW d \in C, <<c, d>> \in R PROVE Rank(R, C, c) < Rank(R, C, d)
  <2>1. below(c) \subseteq below(d)
    BY <1>5 DEF Orders
  <2>2. c \in below(d) /\ c \notin below(c)
    BY <1>5 DEF Orders
  <2>3. IsFiniteSet(below(d))
    BY <1>2
  <2>4. Cardinality(below(c)) < Cardinality(below(d))
    <3>. HIDE DEF below
    <3>1. QED
      BY <1>3, <2>1, <2>2, <2>3
  <2>5. QED
    BY <2>4 DEF Rank
<1>6. ASSUME NEW c \in C, NEW d \in C PROVE <<c, d>> \in R <=> Rank(R, C, c) < Rank(R, C, d)
  <2>1. Rank(R, C, c) \in Int /\ Rank(R, C, d) \in Int
    BY <1>1, <1>4
  <2>2. <<d, c>> \in R => Rank(R, C, d) < Rank(R, C, c)
    BY <1>5
  <2>3. <<c, d>> \in R => Rank(R, C, c) < Rank(R, C, d)
    BY <1>5
  <2>4. c = d \/ <<c, d>> \in R \/ <<d, c>> \in R
    BY DEF Orders
  <2>5. QED
    BY <2>1, <2>2, <2>3, <2>4
<1>7. \A k \in 1..n : \E c \in C : Rank(R, C, c) = k - 1
  <2>. DEFINE f == [c \in C |-> Rank(R, C, c) + 1]
  <2>1. f \in [C -> 1..n]
    BY <1>1, <1>4
  <2>2. \A c, d \in C : f[c] = f[d] => c = d
    <3>1. SUFFICES ASSUME NEW c \in C, NEW d \in C, f[c] = f[d] PROVE c = d
      OBVIOUS
    <3>2. Rank(R, C, c) = Rank(R, C, d) /\ Rank(R, C, c) \in Int
      BY <1>1, <1>4, <3>1
    <3>3. QED
      BY <1>6, <3>2 DEF Orders
  <2>3. IsFiniteSet(1..n) /\ Cardinality(1..n) = n
    BY <1>1, FS_Interval
  <2>. HIDE DEF f
  <2>4. f \in Injection(C, 1..n)
    BY <2>1, <2>2 DEF Injection, IsInjective
  <2>5. f \in Surjection(C, 1..n)
    BY <2>3, <2>4, FS_Injection
  <2>6. \A k \in 1..n : \E c \in C : f[c] = k
    BY <2>5 DEF Surjection
  <2>7. ASSUME NEW k \in 1..n PROVE \E c \in C : Rank(R, C, c) = k - 1
    <3>1. PICK c \in C : f[c] = k
      BY <2>6
    <3>2. Rank(R, C, c) + 1 = k /\ Rank(R, C, c) \in Int
      BY <1>1, <1>4, <3>1 DEF f
    <3>3. QED
      BY <3>2
  <2>8. QED
    BY <2>7
<1>8. QED
  BY <1>4, <1>6, <1>7

-----------------------------------------------------------------------------
(* The order of codes                                                      *)

Codes(rules) == {r.code : r \in rules}

\* What the collection of an invocation is checked for, as far as it matters.
SoundRules(rules) ==
    /\ IsFiniteSet(rules)
    /\ \A r \in rules : IsCode(r.code) /\ r.code[1] \in ToSet(CategoryOrder)
    /\ \A r \in rules : \A e \in r.effects : e.effect \in {"disabled", "ignored"}
    /\ \A r, s \in rules : r.code = s.code \/ r.name = s.name => r = s
    /\ ExactCodesAreNarrow(rules)
    /\ \A r, s \in rules : s.code \in r.incompatible => r.code \in s.incompatible /\ r # s

LEMMA RulesAreSound ==
  ASSUME NEW i \in Invocations
  PROVE  SoundRules(i.rules)
<1>. DEFINE rules == i.rules
            part(prefix) == {r \in rules : r.code[1] = prefix}
            categories == {[prefix |-> prefix, rules |-> part(prefix)] : prefix \in ToSet(CategoryOrder)}
<1>1. /\ IsFiniteSet(rules) /\ {r.code[1] : r \in rules} \subseteq ToSet(CategoryOrder)
      /\ ValidCollection(categories)
  BY RulesAssumption
<1>2. \A r \in rules : r.code[1] \in ToSet(CategoryOrder)
  BY <1>1
<1>3. RulesOf(categories) = rules
  <2>1. \A r \in rules : r \in part(r.code[1]) /\ [prefix |-> r.code[1], rules |-> part(r.code[1])] \in categories
    BY <1>2
  <2>2. rules \subseteq RulesOf(categories)
    <3>1. SUFFICES ASSUME NEW r \in rules PROVE r \in RulesOf(categories)
      OBVIOUS
    <3>2. PICK c \in categories : r \in c.rules
      <4>1. PICK c : c = [prefix |-> r.code[1], rules |-> part(r.code[1])]
        OBVIOUS
      <4>2. c \in categories /\ c.rules = part(r.code[1]) /\ r \in part(r.code[1])
        BY <2>1, <4>1
      <4>3. QED
        BY <4>2
    <3>3. QED
      BY <3>2 DEF RulesOf
  <2>3. \A c \in categories : c.rules \subseteq rules
    OBVIOUS
  <2>. HIDE DEF categories
  <2>4. RulesOf(categories) \subseteq rules
    BY <2>3 DEF RulesOf
  <2>5. QED
    BY <2>2, <2>4
<1>. HIDE DEF categories
<1>4. /\ \A r \in rules : SoundMetadata(r)
      /\ \A r, s \in rules : r.code = s.code \/ r.name = s.name => r = s
      /\ ExactCodesAreNarrow(rules)
      /\ ConsistentIncompatibilities(rules)
  BY <1>1, <1>3 DEF ValidCollection, UnambiguousNames
<1>5. \A r \in rules : IsCode(r.code) /\ \A e \in r.effects : e.effect \in {"disabled", "ignored"}
  BY <1>4 DEF SoundMetadata
<1>6. ASSUME NEW r \in rules, NEW s \in rules, s.code \in r.incompatible
      PROVE  r.code \in s.incompatible /\ r # s
  <2>1. PICK t \in rules : s.code # r.code /\ t.code = s.code /\ r.code \in t.incompatible
    BY <1>4, <1>6 DEF ConsistentIncompatibilities
  <2>2. t = s
    BY <1>4, <2>1
  <2>3. QED
    BY <2>1, <2>2
<1>. HIDE DEF rules
<1>7. SoundRules(rules)
  BY <1>1, <1>2, <1>4, <1>5, <1>6 DEF SoundRules
<1>8. QED
  BY <1>7 DEF rules

Place(code) == CHOOSE i \in DOMAIN CategoryOrder : CategoryOrder[i] = code[1]

\* c and d differ at i for the first time.
DifferAt(c, d, i) ==
    i \in 2..Len(c) /\ i \in 2..Len(d) /\ c[i] # d[i] /\ \A j \in 1..(i - 1) : c[j] = d[j]

LEMMA CodeIs ==
  ASSUME NEW rules, SoundRules(rules), NEW c \in Codes(rules)
  PROVE  /\ Len(c) \in Nat /\ Len(c) > 1 /\ c \in Seq({c[i] : i \in 1..Len(c)})
         /\ \A i \in 2..Len(c) : c[i] \in Int
         /\ Place(c) \in Int /\ CategoryOrder[Place(c)] = c[1]
         /\ \A d \in Codes(rules) : IsPrefix(c, d) => c = d
<1>1. PICK r \in rules : c = r.code
  BY DEF Codes
<1>2. IsCode(c) /\ c[1] \in ToSet(CategoryOrder)
  BY <1>1 DEF SoundRules
<1>3. Len(c) \in Nat /\ Len(c) > 1 /\ c = [i \in 1..Len(c) |-> c[i]] /\ \A i \in 2..Len(c) : c[i] \in Int
  BY <1>2 DEF IsCode, IsTag
<1>4. c \in Seq({c[i] : i \in 1..Len(c)})
  BY <1>3
<1>5. Place(c) \in DOMAIN CategoryOrder /\ CategoryOrder[Place(c)] = c[1]
  BY <1>2 DEF ToSet, Place
<1>6. DOMAIN CategoryOrder \subseteq Int
  BY RulesAssumption
<1>7. \A d \in Codes(rules) : IsPrefix(c, d) => c = d
  BY <1>1 DEF Codes, SoundRules, ExactCodesAreNarrow, SelectsCode
<1>8. QED
  BY <1>3, <1>4, <1>5, <1>6, <1>7

LEMMA SameBeginnings ==
  ASSUME NEW c, NEW d, Len(c) \in Nat, Len(d) \in Nat,
         c \in Seq({c[i] : i \in 1..Len(c)}), d \in Seq({d[i] : i \in 1..Len(d)}),
         NEW m \in Nat, m <= Len(c), m <= Len(d)
  PROVE  SubSeq(c, 1, m) = SubSeq(d, 1, m) <=> \A j \in 1..m : c[j] = d[j]
<1>. DEFINE S == {c[i] : i \in 1..Len(c)} \cup {d[i] : i \in 1..Len(d)}
<1>1. c \in Seq(S) /\ d \in Seq(S)
  OBVIOUS
<1>. HIDE DEF S
<1>2. /\ SubSeq(c, 1, m) \in Seq(S) /\ Len(SubSeq(c, 1, m)) = m
      /\ \A i \in 1..m : SubSeq(c, 1, m)[i] = c[i]
  BY <1>1, SubSeqProperties
<1>3. /\ SubSeq(d, 1, m) \in Seq(S) /\ Len(SubSeq(d, 1, m)) = m
      /\ \A i \in 1..m : SubSeq(d, 1, m)[i] = d[i]
  BY <1>1, SubSeqProperties
<1>4. (\A j \in 1..m : c[j] = d[j]) => SubSeq(c, 1, m) = SubSeq(d, 1, m)
  BY <1>2, <1>3, SeqEqual
<1>5. QED
  BY <1>2, <1>3, <1>4

\* Distinct codes of a category differ in a digit, for neither begins the other.
LEMMA CodesDiffer ==
  ASSUME NEW rules, SoundRules(rules), NEW c \in Codes(rules), NEW d \in Codes(rules),
         c # d, c[1] = d[1]
  PROVE  \E i \in Nat : DifferAt(c, d, i)
<1>1. /\ Len(c) \in Nat /\ c \in Seq({c[i] : i \in 1..Len(c)}) /\ ~IsPrefix(c, d)
      /\ Len(d) \in Nat /\ d \in Seq({d[i] : i \in 1..Len(d)}) /\ ~IsPrefix(d, c)
  BY CodeIs
<1>. DEFINE T == {i \in Nat : i \in 1..Len(c) /\ i \in 1..Len(d) /\ c[i] # d[i]}
<1>2. T # {}
  <2>1. SUFFICES ASSUME T = {} PROVE FALSE
    OBVIOUS
  <2>2. \A i \in 1..Len(c) : i \in 1..Len(d) => c[i] = d[i]
    BY <1>1, <2>1
  <2>. HIDE DEF T
  <2>3. CASE Len(c) <= Len(d)
    <3>1. \A i \in 1..Len(c) : c[i] = d[i]
      BY <1>1, <2>2, <2>3
    <3>2. QED
      BY <1>1, <2>3, <3>1, SameBeginnings DEF IsPrefix
  <2>4. CASE Len(d) <= Len(c)
    <3>1. \A i \in 1..Len(d) : d[i] = c[i]
      BY <1>1, <2>2, <2>4
    <3>2. QED
      BY <1>1, <2>4, <3>1, SameBeginnings DEF IsPrefix
  <2>5. QED
    BY <1>1, <2>3, <2>4
<1>3. PICK i \in T : \A k \in T : i <= k
  <2>1. T \in SUBSET Nat
    OBVIOUS
  <2>. HIDE DEF T
  <2>2. QED
    BY <1>2, <2>1, LeastNat
<1>4. i \in Nat /\ i \in 1..Len(c) /\ i \in 1..Len(d) /\ c[i] # d[i]
  OBVIOUS
<1>5. i # 1
  BY <1>4
<1>6. ASSUME NEW j \in 1..(i - 1) PROVE c[j] = d[j]
  <2>1. j \in Nat /\ j \in 1..Len(c) /\ j \in 1..Len(d) /\ ~(i <= j)
    BY <1>1, <1>4
  <2>2. QED
    BY <1>3, <2>1
<1>. HIDE DEF T
<1>7. DifferAt(c, d, i)
  BY <1>1, <1>4, <1>5, <1>6 DEF DifferAt
<1>8. QED
  BY <1>4, <1>7

LEMMA CodeBeforeIs ==
  ASSUME NEW rules, SoundRules(rules), NEW c \in Codes(rules), NEW d \in Codes(rules)
  PROVE  CodeBefore(c, d) <=>
           \/ Place(c) < Place(d)
           \/ c[1] = d[1] /\ \E i \in Nat : DifferAt(c, d, i) /\ c[i] < d[i]
<1>1. /\ Len(c) \in Nat /\ c \in Seq({c[i] : i \in 1..Len(c)}) /\ \A i \in 2..Len(c) : c[i] \in Int
      /\ Len(d) \in Nat /\ d \in Seq({d[i] : i \in 1..Len(d)}) /\ \A i \in 2..Len(d) : d[i] \in Int
      /\ (IsPrefix(c, d) => c = d)
  BY CodeIs
<1>2. CodeBefore(c, d) <=>
        \/ Place(c) < Place(d)
        \/ c[1] = d[1] /\ c # d /\ \E i \in 2..Len(c) : i <= Len(d) /\ SubSeq(c, 1, i - 1) = SubSeq(d, 1, i - 1)
                                                         /\ c[i] < d[i]
  BY <1>1 DEF CodeBefore, Place
<1>3. \A i \in 2..Len(c) : i <= Len(d) =>
        (SubSeq(c, 1, i - 1) = SubSeq(d, 1, i - 1) <=> \A j \in 1..(i - 1) : c[j] = d[j])
  <2>1. SUFFICES ASSUME NEW i \in 2..Len(c), i <= Len(d)
                 PROVE  SubSeq(c, 1, i - 1) = SubSeq(d, 1, i - 1) <=> \A j \in 1..(i - 1) : c[j] = d[j]
    OBVIOUS
  <2>2. PICK m \in Nat : m = i - 1 /\ m <= Len(c) /\ m <= Len(d)
    <3>1. Len(c) \in Nat /\ Len(d) \in Nat
      BY <1>1
    <3>2. i - 1 \in Nat /\ i - 1 <= Len(c) /\ i - 1 <= Len(d)
      BY <2>1, <3>1
    <3>3. QED
      BY <3>2
  <2>3. SubSeq(c, 1, m) = SubSeq(d, 1, m) <=> \A j \in 1..m : c[j] = d[j]
    BY <1>1, <2>2, SameBeginnings
  <2>4. QED
    BY <2>2, <2>3
<1>4. ASSUME NEW i \in Nat PROVE DifferAt(c, d, i) /\ c[i] < d[i] <=>
        i \in 2..Len(c) /\ i <= Len(d) /\ SubSeq(c, 1, i - 1) = SubSeq(d, 1, i - 1) /\ c[i] < d[i]
  <2>1. i \in 2..Len(c) /\ i <= Len(d) => i \in 2..Len(d) /\ c[i] \in Int /\ d[i] \in Int
    BY <1>1
  <2>2. i \in 2..Len(c) /\ i \in 2..Len(d) => i <= Len(d)
    BY <1>1
  <2>3. c[i] \in Int /\ d[i] \in Int /\ c[i] < d[i] => c[i] # d[i]
    OBVIOUS
  <2>4. QED
    BY <1>3, <2>1, <2>2, <2>3 DEF DifferAt
<1>5. \A i \in 2..Len(c) : i \in Nat
  BY <1>1
<1>6. (\E i \in Nat : DifferAt(c, d, i) /\ c[i] < d[i]) <=>
        \E i \in 2..Len(c) : i <= Len(d) /\ SubSeq(c, 1, i - 1) = SubSeq(d, 1, i - 1) /\ c[i] < d[i]
  BY <1>4, <1>5
<1>7. (\E i \in Nat : DifferAt(c, d, i) /\ c[i] < d[i]) => c # d
  BY DEF DifferAt
<1>8. QED
  BY <1>2, <1>6, <1>7

LEMMA CodesAreOrdered ==
  ASSUME NEW rules, SoundRules(rules)
  PROVE  /\ \A c \in Codes(rules) : ~CodeBefore(c, c)
         /\ \A c, d \in Codes(rules) : c # d => CodeBefore(c, d) \/ CodeBefore(d, c)
         /\ \A c, d, e \in Codes(rules) : CodeBefore(c, d) /\ CodeBefore(d, e) => CodeBefore(c, e)
<1>. DEFINE C == Codes(rules)
            digits(c, d) == \E i \in Nat : DifferAt(c, d, i) /\ c[i] < d[i]
<1>1. \A c \in C : Place(c) \in Int /\ CategoryOrder[Place(c)] = c[1] /\ \A i \in 2..Len(c) : c[i] \in Int
  BY CodeIs
<1>2. \A c, d \in C : CodeBefore(c, d) <=> Place(c) < Place(d) \/ (c[1] = d[1] /\ digits(c, d))
  BY CodeBeforeIs
<1>3. \A c, d \in C : c[1] = d[1] <=> Place(c) = Place(d)
  <2>1. \A c, d \in C : c[1] = d[1] => Place(c) = Place(d)
    BY DEF Place
  <2>2. QED
    BY <1>1, <2>1
<1>4. \A c \in C : ~digits(c, c)
  BY DEF DifferAt
<1>5. ASSUME NEW c \in C, NEW d \in C, c # d, c[1] = d[1] PROVE digits(c, d) \/ digits(d, c)
  <2>1. PICK i \in Nat : DifferAt(c, d, i)
    BY <1>5, CodesDiffer
  <2>2. DifferAt(d, c, i) /\ c[i] # d[i] /\ c[i] \in Int /\ d[i] \in Int
    BY <1>1, <2>1 DEF DifferAt
  <2>3. QED
    BY <2>1, <2>2
<1>6. ASSUME NEW c \in C, NEW d \in C, NEW e \in C, digits(c, d), digits(d, e) PROVE digits(c, e)
  <2>1. PICK i \in Nat : DifferAt(c, d, i) /\ c[i] < d[i]
    BY <1>6
  <2>2. PICK j \in Nat : DifferAt(d, e, j) /\ d[j] < e[j]
    BY <1>6
  <2>3. /\ i \in 2..Len(c) /\ i \in 2..Len(d) /\ j \in 2..Len(d) /\ j \in 2..Len(e)
        /\ \A k \in 1..(i - 1) : c[k] = d[k]
        /\ \A k \in 1..(j - 1) : d[k] = e[k]
    BY <2>1, <2>2 DEF DifferAt
  <2>4. Len(c) \in Nat /\ Len(d) \in Nat /\ Len(e) \in Nat
    BY CodeIs
  <2>5. CASE i < j
    <3>1. i \in 1..(j - 1) /\ i \in 2..Len(e) /\ \A k \in 1..(i - 1) : k \in 1..(j - 1)
      BY <2>3, <2>4, <2>5
    <3>2. d[i] = e[i] /\ c[i] < e[i] /\ c[i] # e[i]
      BY <1>1, <2>1, <2>3, <3>1
    <3>3. DifferAt(c, e, i)
      BY <2>3, <3>1, <3>2 DEF DifferAt
    <3>4. QED
      BY <3>2, <3>3
  <2>6. CASE j < i
    <3>1. j \in 1..(i - 1) /\ j \in 2..Len(c) /\ \A k \in 1..(j - 1) : k \in 1..(i - 1)
      BY <2>3, <2>4, <2>6
    <3>2. c[j] = d[j] /\ c[j] < e[j] /\ c[j] # e[j]
      BY <1>1, <2>2, <2>3, <3>1
    <3>3. DifferAt(c, e, j)
      BY <2>3, <3>1, <3>2 DEF DifferAt
    <3>4. QED
      BY <3>2, <3>3
  <2>7. CASE i = j
    <3>1. c[i] < e[i] /\ c[i] # e[i]
      BY <1>1, <2>1, <2>2, <2>3, <2>7
    <3>2. DifferAt(c, e, i)
      BY <2>3, <2>7, <3>1 DEF DifferAt
    <3>3. QED
      BY <3>1, <3>2
  <2>8. QED
    BY <2>5, <2>6, <2>7
<1>. HIDE DEF digits, C
<1>7. \A c \in C : ~CodeBefore(c, c)
  BY <1>1, <1>2, <1>4
<1>8. \A c, d \in C : c # d => CodeBefore(c, d) \/ CodeBefore(d, c)
  BY <1>1, <1>2, <1>3, <1>5
<1>9. ASSUME NEW c \in C, NEW d \in C, NEW e \in C, CodeBefore(c, d), CodeBefore(d, e) PROVE CodeBefore(c, e)
  BY <1>1, <1>2, <1>3, <1>6, <1>9
<1>10. QED
  BY <1>7, <1>8, <1>9 DEF C


-----------------------------------------------------------------------------
LEMMA CodesAreFinite ==
  ASSUME NEW rules, SoundRules(rules), NEW C \in SUBSET Codes(rules)
  PROVE  IsFiniteSet(C)
<1>. DEFINE f == [r \in rules |-> r.code]
<1>1. f \in Surjection(rules, Codes(rules))
  BY DEF Surjection, Codes
<1>2. IsFiniteSet(rules)
  BY DEF SoundRules
<1>. HIDE DEF f
<1>3. IsFiniteSet(Codes(rules))
  BY <1>1, <1>2, FS_Surjection
<1>4. QED
  BY <1>3, FS_Subset

LEMMA RuleOfIs ==
  ASSUME NEW rules, SoundRules(rules), NEW r \in rules
  PROVE  RuleOf(rules, r.code) = r
BY DEF RuleOf, SoundRules

SoundStrengths(rules, enabled) ==
    /\ DOMAIN enabled \subseteq Codes(rules)
    /\ \A c \in DOMAIN enabled : enabled[c].priority \in Int /\ enabled[c].specificity \in Int

LEMMA TakenInOrder ==
  ASSUME NEW rules, SoundRules(rules), NEW enabled, SoundStrengths(rules, enabled)
  PROVE  /\ \A c \in DOMAIN enabled : ~TakenBefore(enabled, c, c)
         /\ \A c, d \in DOMAIN enabled : c # d => TakenBefore(enabled, c, d) \/ TakenBefore(enabled, d, c)
         /\ \A c, d, e \in DOMAIN enabled :
               TakenBefore(enabled, c, d) /\ TakenBefore(enabled, d, e) => TakenBefore(enabled, c, e)
<1>. DEFINE C == DOMAIN enabled
            p(c) == enabled[c].priority
            s(c) == enabled[c].specificity
<1>1. \A c \in C : c \in Codes(rules) /\ p(c) \in Int /\ s(c) \in Int
  BY DEF SoundStrengths
<1>2. /\ \A c \in C : ~CodeBefore(c, c)
      /\ \A c, d \in C : c # d => CodeBefore(c, d) \/ CodeBefore(d, c)
      /\ \A c, d, e \in C : CodeBefore(c, d) /\ CodeBefore(d, e) => CodeBefore(c, e)
  BY <1>1, CodesAreOrdered
<1>3. \A c, d \in C : TakenBefore(enabled, c, d) <=>
        \/ p(c) > p(d)
        \/ p(c) = p(d) /\ s(c) > s(d)
        \/ p(c) = p(d) /\ s(c) = s(d) /\ CodeBefore(c, d)
  BY DEF TakenBefore, Stronger, AsStrong
<1>. HIDE DEF p, s, C
<1>4. \A c \in C : ~TakenBefore(enabled, c, c)
  BY <1>1, <1>2, <1>3
<1>5. \A c, d \in C : c # d => TakenBefore(enabled, c, d) \/ TakenBefore(enabled, d, c)
  BY <1>1, <1>2, <1>3
<1>6. ASSUME NEW c \in C, NEW d \in C, NEW e \in C, TakenBefore(enabled, c, d), TakenBefore(enabled, d, e)
      PROVE  TakenBefore(enabled, c, e)
  BY <1>1, <1>2, <1>3, <1>6
<1>7. QED
  BY <1>4, <1>5, <1>6 DEF C

LEMMA RetainedIs ==
  ASSUME NEW rules, SoundRules(rules), NEW enabled, SoundStrengths(rules, enabled)
  PROVE  /\ Retained(rules, enabled) \subseteq DOMAIN enabled
         /\ \A c \in DOMAIN enabled :
               c \in Retained(rules, enabled) <=>
                 \A d \in Retained(rules, enabled) :
                    TakenBefore(enabled, d, c) => d \notin RuleOf(rules, c).incompatible
<1>. DEFINE C == DOMAIN enabled
            n == Cardinality(C)
            R == {e \in C \X C : TakenBefore(enabled, e[1], e[2])}
            taken(k) == CHOOSE c \in C : Cardinality({d \in C : TakenBefore(enabled, d, c)}) = k - 1
            T == [k \in 1..n |-> taken(k)]
            I == [k \in 1..n |-> RuleOf(rules, taken(k)).incompatible]
<1>1. IsFiniteSet(C) /\ n \in Nat
  <2>1. IsFiniteSet(C)
    BY CodesAreFinite DEF SoundStrengths
  <2>2. QED
    BY <2>1, FS_CardinalityType
<1>2. \A c, d \in C : <<c, d>> \in R <=> TakenBefore(enabled, c, d)
  OBVIOUS
<1>. HIDE DEF R
<1>3. Orders(R, C)
  BY <1>2, TakenInOrder DEF Orders
<1>4. /\ \A c \in C : Rank(R, C, c) \in 0..(n - 1)
      /\ \A c, d \in C : <<c, d>> \in R <=> Rank(R, C, c) < Rank(R, C, d)
      /\ \A k \in 1..n : \E c \in C : Rank(R, C, c) = k - 1
  BY <1>1, <1>3, RanksOrder
<1>5. \A c \in C : {d \in C : TakenBefore(enabled, d, c)} = {d \in C : <<d, c>> \in R}
  BY <1>2
<1>6. \A c \in C : Cardinality({d \in C : TakenBefore(enabled, d, c)}) = Rank(R, C, c)
  BY <1>5 DEF Rank
<1>7. ASSUME NEW k \in 1..n PROVE T[k] \in C /\ Rank(R, C, T[k]) = k - 1
  <2>1. PICK c \in C : Rank(R, C, c) = k - 1
    BY <1>4
  <2>2. Cardinality({d \in C : TakenBefore(enabled, d, c)}) = k - 1
    BY <1>6, <2>1
  <2>3. taken(k) \in C /\ Cardinality({d \in C : TakenBefore(enabled, d, taken(k))}) = k - 1
    BY <2>2
  <2>4. T[k] = taken(k)
    OBVIOUS
  <2>. HIDE DEF taken, T
  <2>5. QED
    BY <1>6, <2>3, <2>4
<1>8. \A j, k \in 1..n : T[j] = T[k] => j = k
  <2>1. SUFFICES ASSUME NEW j \in 1..n, NEW k \in 1..n, T[j] = T[k] PROVE j = k
    OBVIOUS
  <2>. HIDE DEF T
  <2>2. j - 1 = k - 1
    BY <1>7, <2>1
  <2>3. QED
    BY <2>2
<1>9. ASSUME NEW c \in C PROVE \E k \in 1..n : T[k] = c
  <2>1. PICK k \in 1..n : Rank(R, C, c) = k - 1
    <3>1. Rank(R, C, c) + 1 \in 1..n /\ Rank(R, C, c) = (Rank(R, C, c) + 1) - 1
      BY <1>1, <1>4
    <3>2. QED
      BY <3>1
  <2>. HIDE DEF T
  <2>2. T[k] \in C /\ Rank(R, C, T[k]) = Rank(R, C, c) /\ Rank(R, C, c) \in Int
    BY <1>1, <1>4, <1>7, <2>1
  <2>3. <<T[k], c>> \notin R /\ <<c, T[k]>> \notin R
    BY <1>4, <2>2
  <2>4. QED
    BY <1>3, <2>2, <2>3 DEF Orders
<1>10. PICK kept : Greedy(kept, T, I, n) /\ Retained(rules, enabled) = kept[n]
  <2>. DEFINE body(g) == [k \in 0..n |->
                 IF k = 0 THEN {}
                 ELSE IF g[k - 1] \cap RuleOf(rules, taken(k)).incompatible = {}
                      THEN g[k - 1] \cup {taken(k)}
                      ELSE g[k - 1]]
              kept == CHOOSE g : g = body(g)
  <2>1. \A g : g = body(g) <=> Greedy(g, T, I, n)
    <3>1. SUFFICES ASSUME NEW g PROVE g = body(g) <=> Greedy(g, T, I, n)
      OBVIOUS
    <3>2. \A k \in 0..n : k # 0 => k \in 1..n
      BY <1>1
    <3>3. \A k \in 1..n : T[k] = taken(k) /\ I[k] = RuleOf(rules, taken(k)).incompatible
      OBVIOUS
    <3>. HIDE DEF T, I, taken
    <3>4. QED
      BY <3>2, <3>3 DEF Greedy
  <2>2. \E g : g = body(g)
    BY <1>1, <2>1, GreedyExists
  <2>3. Retained(rules, enabled) = kept[n]
    BY DEF Retained
  <2>. HIDE DEF body
  <2>4. kept = body(kept)
    BY <2>2
  <2>. HIDE DEF kept
  <2>5. QED
    BY <2>1, <2>3, <2>4
<1>. DEFINE K == kept[n]
<1>11. /\ K \subseteq {T[k] : k \in 1..n}
       /\ \A k \in 1..n : T[k] \in K <=> \A j \in 1..n : j < k /\ T[j] \in K => T[j] \notin I[k]
  <2>. HIDE DEF T, I
  <2>1. QED
    BY <1>1, <1>8, <1>10, GreedyKeeps
<1>12. \A k \in 1..n : I[k] = RuleOf(rules, T[k]).incompatible
  OBVIOUS
<1>. HIDE DEF T, I, K
<1>13. K \subseteq C
  BY <1>7, <1>11
<1>14. \A j, k \in 1..n : j < k <=> TakenBefore(enabled, T[j], T[k])
  <2>1. SUFFICES ASSUME NEW j \in 1..n, NEW k \in 1..n PROVE j < k <=> TakenBefore(enabled, T[j], T[k])
    OBVIOUS
  <2>2. j < k <=> j - 1 < k - 1
    OBVIOUS
  <2>3. QED
    BY <1>2, <1>4, <1>7, <2>2
<1>15. ASSUME NEW c \in C
       PROVE  c \in K <=> \A d \in K : TakenBefore(enabled, d, c) => d \notin RuleOf(rules, c).incompatible
  <2>1. PICK k \in 1..n : T[k] = c
    BY <1>9
  <2>2. c \in K <=> \A j \in 1..n : j < k /\ T[j] \in K => T[j] \notin RuleOf(rules, c).incompatible
    BY <1>11, <1>12, <2>1
  <2>3. c \in K <=> \A j \in 1..n : TakenBefore(enabled, T[j], c) /\ T[j] \in K => T[j] \notin RuleOf(rules, c).incompatible
    BY <1>14, <2>1, <2>2
  <2>4. QED
    BY <1>11, <2>3
<1>16. QED
  BY <1>10, <1>13, <1>15 DEF K

-----------------------------------------------------------------------------
(* The strongest selector of a rule.  No selector is more specific than    *)
(* the code it covers is long, so there is one.                            *)

Matches(rules, groups, fixableOnly) == UNION {GroupMatches(rules, g, fixableOnly) : g \in groups}

LEMMA SpecificityIs ==
  ASSUME NEW rules, SoundRules(rules), NEW selector, NEW r \in Resolve(rules, selector).matching
  PROVE  r \in rules /\ Specificity(Resolve(rules, selector).tag) \in 0..(2 + Len(r.code))
<1>. DEFINE named == {s \in rules : selector.form = "name" /\ s.name = selector.name}
            found == Resolve(rules, selector)
<1>1. CASE named # {}
  <2>1. found = [kind |-> "name", tag |-> (CHOOSE s \in named : TRUE).code, matching |-> named]
    BY <1>1 DEF Resolve
  <2>2. PICK s \in named : found.tag = s.code /\ found.matching = named
    <3>. HIDE DEF named, found
    <3>1. (CHOOSE s \in named : TRUE) \in named
      BY <1>1
    <3>2. QED
      BY <2>1, <3>1
  <2>3. r \in rules /\ s = r
    BY <2>2 DEF SoundRules
  <2>4. Len(r.code) \in Nat
    BY <2>3 DEF SoundRules, IsCode, IsTag
  <2>5. QED
    BY <2>2, <2>3, <2>4 DEF Specificity, PrefixLength
<1>2. CASE named = {} /\ selector.form = "tag" /\ IsTag(selector.tag)
  <2>1. found = [kind |-> "code", tag |-> selector.tag, matching |-> {s \in rules : SelectsCode(selector.tag, s.code)}]
    BY <1>2 DEF Resolve
  <2>2. r \in rules /\ Len(found.tag) \in Nat /\ Len(found.tag) <= Len(r.code)
    BY <1>2, <2>1 DEF SelectsCode, IsPrefix, IsTag
  <2>3. Len(r.code) \in Nat
    BY <2>2 DEF SoundRules, IsCode, IsTag
  <2>4. QED
    BY <2>2, <2>3 DEF Specificity, PrefixLength
<1>3. CASE named = {} /\ ~(selector.form = "tag" /\ IsTag(selector.tag))
  <2>1. found.matching = {}
    BY <1>3 DEF Resolve
  <2>2. QED
    BY <2>1
<1>4. QED
  BY <1>1, <1>2, <1>3

\* Every match, and those of rules that can be fixed.
AllMatches(rules, group) == GroupMatches(rules, group, FALSE)
FixableMatches(rules, group) == GroupMatches(rules, group, TRUE)

\* The match of a rule by a selector.
MatchOf(rules, group, selector, r) ==
    [code |-> r.code, priority |-> group.priority,
     specificity |-> Specificity(Resolve(rules, selector).tag),
     exact |-> Resolve(rules, selector).tag = r.code]

LEMMA MatchesAre ==
  ASSUME NEW rules, NEW group, NEW fixableOnly, NEW f
  PROVE  f \in GroupMatches(rules, group, fixableOnly) <=>
           \E selector \in ToSet(group.selectors) : \E r \in Resolve(rules, selector).matching :
              (fixableOnly => Fixable(r)) /\ f = MatchOf(rules, group, selector, r)
BY DEF GroupMatches, MatchOf

LEMMA AllMatchesAre ==
  ASSUME NEW rules, NEW group, NEW f
  PROVE  f \in AllMatches(rules, group) <=>
           \E selector \in ToSet(group.selectors) : \E r \in Resolve(rules, selector).matching :
              f = MatchOf(rules, group, selector, r)
BY DEF AllMatches, FixableMatches, GroupMatches, MatchOf

LEMMA FixableMatchesAre ==
  ASSUME NEW rules, NEW group, NEW f
  PROVE  f \in FixableMatches(rules, group) <=>
           \E selector \in ToSet(group.selectors) : \E r \in Resolve(rules, selector).matching :
              Fixable(r) /\ f = MatchOf(rules, group, selector, r)
BY DEF AllMatches, FixableMatches, GroupMatches, MatchOf

LEMMA MatchIs ==
  ASSUME NEW rules, SoundRules(rules), NEW group, NEW fixableOnly,
         NEW f \in GroupMatches(rules, group, fixableOnly)
  PROVE  \E r \in rules :
            /\ fixableOnly => Fixable(r)
            /\ f.code = r.code
            /\ f.priority = group.priority /\ f.specificity \in 0..(2 + Len(r.code))
            /\ f \in AllMatches(rules, group)
<1>1. PICK selector \in ToSet(group.selectors) : \E r \in Resolve(rules, selector).matching :
        (fixableOnly => Fixable(r)) /\ f = MatchOf(rules, group, selector, r)
  BY MatchesAre
<1>. PICK r \in Resolve(rules, selector).matching :
        (fixableOnly => Fixable(r)) /\ f = MatchOf(rules, group, selector, r)
  BY <1>1
<1>2. r \in rules /\ Specificity(Resolve(rules, selector).tag) \in 0..(2 + Len(r.code))
  BY SpecificityIs
<1>3. f.code = r.code /\ f.priority = group.priority /\ f.specificity = Specificity(Resolve(rules, selector).tag)
  BY <1>1 DEF MatchOf
<1>4. f \in AllMatches(rules, group)
  BY <1>1, AllMatchesAre
<1>5. QED
  BY <1>1, <1>2, <1>3, <1>4

LEMMA MatchesToFix ==
  ASSUME NEW rules, SoundRules(rules), NEW groups, NEW code, code \in Codes(rules)
  PROVE  {f \in Matches(rules, groups, TRUE) : f.code = code} =
           IF Fixable(RuleOf(rules, code)) THEN {f \in Matches(rules, groups, FALSE) : f.code = code} ELSE {}
<1>1. PICK r \in rules : code = r.code /\ RuleOf(rules, code) = r
  BY RuleOfIs DEF Codes
<1>2. ASSUME NEW g \in groups, NEW f \in FixableMatches(rules, g), f.code = code
      PROVE  Fixable(r) /\ f \in AllMatches(rules, g)
  <2>1. PICK selector \in ToSet(g.selectors) : \E s \in Resolve(rules, selector).matching :
           Fixable(s) /\ f = MatchOf(rules, g, selector, s)
    BY <1>2, FixableMatchesAre
  <2>. PICK s \in Resolve(rules, selector).matching : Fixable(s) /\ f = MatchOf(rules, g, selector, s)
    BY <2>1
  <2>2. s \in rules
    BY SpecificityIs
  <2>3. s = r
    BY <1>1, <1>2, <2>2 DEF SoundRules, MatchOf
  <2>4. QED
    BY <2>1, <2>3, AllMatchesAre
<1>3. ASSUME NEW g \in groups, NEW f \in AllMatches(rules, g), f.code = code, Fixable(r)
      PROVE  f \in FixableMatches(rules, g)
  <2>1. PICK selector \in ToSet(g.selectors) : \E s \in Resolve(rules, selector).matching :
           f = MatchOf(rules, g, selector, s)
    BY <1>3, AllMatchesAre
  <2>. PICK s \in Resolve(rules, selector).matching : f = MatchOf(rules, g, selector, s)
    BY <2>1
  <2>2. s \in rules
    BY SpecificityIs
  <2>3. s = r
    BY <1>1, <1>3, <2>1, <2>2 DEF SoundRules, MatchOf
  <2>4. QED
    BY <1>3, <2>1, <2>3, FixableMatchesAre
<1>4. QED
  BY <1>1, <1>2, <1>3 DEF Matches, AllMatches, FixableMatches

LEMMA StrongestExists ==
  ASSUME NEW F, F # {}, NEW P \in Nat, NEW S \in Nat,
         \A f \in F : f.priority \in 0..P /\ f.specificity \in 0..S
  PROVE  \E f \in F : \A g \in F : ~Stronger(g, f)
<1>1. PICK p \in {f.priority : f \in F} : \A q \in {f.priority : f \in F} : q <= p
  <2>1. {f.priority : f \in F} \in SUBSET (0..P) /\ {f.priority : f \in F} # {}
    OBVIOUS
  <2>2. QED
    BY <2>1, GreatestNat
<1>. DEFINE G == {f \in F : f.priority = p}
<1>2. PICK s \in {f.specificity : f \in G} : \A q \in {f.specificity : f \in G} : q <= s
  <2>1. \E f \in G : TRUE
    OBVIOUS
  <2>2. \A f \in G : f.specificity \in 0..S
    OBVIOUS
  <2>. HIDE DEF G
  <2>3. {f.specificity : f \in G} \in SUBSET (0..S) /\ {f.specificity : f \in G} # {}
    BY <2>1, <2>2
  <2>4. QED
    BY <2>3, GreatestNat
<1>3. PICK f \in F : f.priority = p /\ f.specificity = s
  OBVIOUS
<1>4. ASSUME NEW g \in F PROVE ~Stronger(g, f)
  <2>1. g.priority <= p /\ g.priority \in Int /\ p \in Int /\ g.specificity \in Int /\ s \in Int
    BY <1>1, <1>3
  <2>2. g.priority = p => g.specificity <= s
    BY <1>2
  <2>3. QED
    BY <1>3, <2>1, <2>2 DEF Stronger
<1>5. QED
  BY <1>4

\* Groups of selectors have a priority; few enough to have a greatest.
SoundGroups(groups) == \E P \in Nat : \A g \in groups : g.priority \in 0..P

\* What Strengths makes of the matches found.
AreStrengths(strengths, found) ==
    /\ \A f \in found : f.priority \in Int /\ f.specificity \in Int
    /\ DOMAIN strengths = {f.code : f \in found}
    /\ \A code \in DOMAIN strengths :
         /\ strengths[code].priority \in Int /\ strengths[code].specificity \in Int
         /\ \E f \in found : f.code = code /\ AsStrong(f, strengths[code])
         /\ \A f \in found : f.code = code => ~Stronger(f, strengths[code])
         /\ strengths[code].exact <=> \E f \in found : f.code = code /\ f.exact

LEMMA StrengthsAre ==
  ASSUME NEW rules, SoundRules(rules), NEW groups, SoundGroups(groups), NEW fixableOnly
  PROVE  /\ AreStrengths(Strengths(rules, groups, fixableOnly), Matches(rules, groups, fixableOnly))
         /\ \A f \in Matches(rules, groups, fixableOnly) : f.code \in Codes(rules)
<1>. DEFINE found == Matches(rules, groups, fixableOnly)
            of(code) == {f \in found : f.code = code}
            top(code) == CHOOSE f \in of(code) : \A g \in of(code) : ~Stronger(g, f)
            strengths == [code \in {f.code : f \in found} |->
                            [priority |-> top(code).priority, specificity |-> top(code).specificity,
                             exact |-> \E f \in of(code) : f.exact]]
<1>1. Strengths(rules, groups, fixableOnly) = strengths
  BY DEF Strengths, Matches
<1>2. PICK P \in Nat : \A g \in groups : g.priority \in 0..P
  BY DEF SoundGroups
<1>3. ASSUME NEW f \in found
      PROVE  f.code \in Codes(rules) /\ f.priority \in 0..P /\ f.specificity \in 0..(2 + Len(f.code))
  <2>1. PICK g \in groups : f \in GroupMatches(rules, g, fixableOnly)
    BY DEF Matches
  <2>2. \E r \in rules : f.code = r.code /\ f.priority = g.priority /\ f.specificity \in 0..(2 + Len(r.code))
    BY <2>1, MatchIs
  <2>3. QED
    BY <1>2, <2>2 DEF Codes
<1>. HIDE DEF found
<1>4. ASSUME NEW code \in {f.code : f \in found}
      PROVE  top(code) \in of(code) /\ \A g \in of(code) : ~Stronger(g, top(code))
  <2>1. of(code) # {}
    OBVIOUS
  <2>2. Len(code) \in Nat
    BY <1>3, CodeIs
  <2>3. PICK S \in Nat : S = 2 + Len(code)
    BY <2>2
  <2>4. \A f \in of(code) : f.priority \in 0..P /\ f.specificity \in 0..S
    BY <1>3, <2>3
  <2>. HIDE DEF of
  <2>5. \E f \in of(code) : \A g \in of(code) : ~Stronger(g, f)
    BY <2>1, <2>4, StrongestExists
  <2>6. QED
    BY <2>5
<1>. HIDE DEF top
<1>5. ASSUME NEW code \in DOMAIN strengths
      PROVE  /\ strengths[code].priority \in Int /\ strengths[code].specificity \in Int
             /\ \E f \in found : f.code = code /\ AsStrong(f, strengths[code])
             /\ \A f \in found : f.code = code => ~Stronger(f, strengths[code])
             /\ strengths[code].exact <=> \E f \in found : f.code = code /\ f.exact
  <2>1. /\ strengths[code].priority = top(code).priority /\ strengths[code].specificity = top(code).specificity
        /\ strengths[code].exact = \E f \in of(code) : f.exact
    OBVIOUS
  <2>2. top(code) \in found /\ top(code).code = code /\ \A g \in found : g.code = code => ~Stronger(g, top(code))
    BY <1>4
  <2>. HIDE DEF strengths
  <2>3. top(code).priority \in Int /\ top(code).specificity \in Int
    <3>1. Len(code) \in Nat
      BY <1>3, <2>2, CodeIs
    <3>2. QED
      BY <1>2, <1>3, <2>2, <3>1
  <2>4. AsStrong(top(code), strengths[code])
    BY <2>1 DEF AsStrong
  <2>5. \A f \in found : f.code = code => ~Stronger(f, strengths[code])
    BY <2>1, <2>2 DEF Stronger
  <2>6. strengths[code].exact <=> \E f \in found : f.code = code /\ f.exact
    BY <2>1
  <2>7. QED
    BY <2>1, <2>2, <2>3, <2>4, <2>5, <2>6
<1>6. \A f \in found : f.code \in Codes(rules) /\ f.priority \in Int /\ f.specificity \in Int
  <2>1. SUFFICES ASSUME NEW f \in found PROVE f.code \in Codes(rules) /\ f.priority \in Int /\ f.specificity \in Int
    OBVIOUS
  <2>2. Len(f.code) \in Nat
    BY <1>3, CodeIs
  <2>3. QED
    BY <1>2, <1>3, <2>2
<1>7. DOMAIN strengths = {f.code : f \in found}
  OBVIOUS
<1>. HIDE DEF strengths
<1>8. QED
  BY <1>1, <1>5, <1>6, <1>7 DEF found, AreStrengths

\* Whether a strongest match beats that of the selectors against it.
LEMMA PrevailingIs ==
  ASSUME NEW rules, SoundRules(rules), NEW groups, SoundGroups(groups), NEW fixableOnly,
         NEW opposing, SoundGroups(opposing), NEW code
  PROVE  code \in DOMAIN EnabledOver(Strengths(rules, groups, fixableOnly), Strengths(rules, opposing, FALSE)) <=>
           Prevails(code, Matches(rules, groups, fixableOnly), Matches(rules, opposing, FALSE))
<1>. DEFINE for == Matches(rules, groups, fixableOnly)
            against == Matches(rules, opposing, FALSE)
            E == Strengths(rules, groups, fixableOnly)
            D == Strengths(rules, opposing, FALSE)
<1>1. AreStrengths(E, for) /\ AreStrengths(D, against)
  BY StrengthsAre
<1>2. code \in DOMAIN EnabledOver(E, D) <=> code \in DOMAIN E /\ (code \in DOMAIN D => Stronger(E[code], D[code]))
  BY DEF EnabledOver, Restrict
<1>. HIDE DEF for, against, E, D
<1>3. ASSUME code \in DOMAIN E, code \in DOMAIN D => Stronger(E[code], D[code])
      PROVE  Prevails(code, for, against)
  <2>1. PICK f \in for : f.code = code /\ AsStrong(f, E[code])
    BY <1>1, <1>3 DEF AreStrengths
  <2>2. ASSUME NEW d \in against, d.code = code PROVE Stronger(f, d)
    <3>1. code \in DOMAIN D
      BY <1>1, <2>2 DEF AreStrengths
    <3>2. ~Stronger(d, D[code]) /\ Stronger(E[code], D[code])
      BY <1>1, <1>3, <2>2, <3>1 DEF AreStrengths
    <3>3. QED
      BY <1>1, <1>3, <2>1, <3>1, <3>2 DEF Stronger, AsStrong, AreStrengths
  <2>3. QED
    BY <2>1, <2>2 DEF Prevails
<1>4. ASSUME Prevails(code, for, against)
      PROVE  code \in DOMAIN E /\ (code \in DOMAIN D => Stronger(E[code], D[code]))
  <2>1. PICK e \in for : e.code = code /\ \A d \in against : d.code = code => Stronger(e, d)
    BY <1>4 DEF Prevails
  <2>2. code \in DOMAIN E /\ ~Stronger(e, E[code])
    BY <1>1, <2>1 DEF AreStrengths
  <2>3. ASSUME code \in DOMAIN D PROVE Stronger(E[code], D[code])
    <3>1. PICK d \in against : d.code = code /\ AsStrong(d, D[code])
      BY <1>1, <2>3 DEF AreStrengths
    <3>2. Stronger(e, d)
      BY <2>1, <3>1
    <3>3. QED
      BY <1>1, <2>1, <2>2, <2>3, <3>1, <3>2 DEF Stronger, AsStrong, AreStrengths
  <2>4. QED
    BY <2>2, <2>3
<1>5. QED
  BY <1>2, <1>3, <1>4 DEF for, against, E, D

-----------------------------------------------------------------------------
(* What a profile enables: its terms as in SelectionIsFair.                *)

GroupsFor(p, primary, extension) == {GroupOf(p, primary)} \cup ExtensionGroups(p, extension, primary)

LEMMA GroupsAreSound ==
  ASSUME NEW p, SoundProfile(p), NEW primary \in Fields, NEW extension \in Fields
  PROVE  SoundGroups(GroupsFor(p, primary, extension)) /\ SoundGroups(ExtensionGroups(p, extension, primary))
<1>1. p.priority[primary] \in Nat /\ p.priority[extension] \in Nat
  BY DEF SoundProfile
<1>2. PICK P \in Nat : P = p.priority[primary] + p.priority[extension]
  BY <1>1
<1>3. p.priority[primary] \in 0..P /\ p.priority[extension] \in 0..P
  BY <1>1, <1>2
<1>4. \A g \in GroupsFor(p, primary, extension) : g.priority \in 0..P
  BY <1>3 DEF GroupsFor, GroupOf, Group, ExtensionGroups
<1>5. \A g \in ExtensionGroups(p, extension, primary) : g.priority \in 0..P
  BY <1>3 DEF GroupOf, Group, ExtensionGroups
<1>6. QED
  BY <1>4, <1>5 DEF SoundGroups

LEMMA SpeakingIs ==
  ASSUME NEW p, SoundProfile(p), NEW primary \in Fields, NEW extension \in Fields
  PROVE  /\ Speaking(p, {primary, extension}, primary) = Matches(invocation.rules, GroupsFor(p, primary, extension), FALSE)
         /\ Speaking(p, {extension}, primary) = Matches(invocation.rules, ExtensionGroups(p, extension, primary), FALSE)
<1>. DEFINE takes(fields) == {f \in fields : p.priority[f] >= p.priority[primary]}
            groups(fields) == {GroupOf(p, f) : f \in takes(fields)}
<1>1. p.priority[primary] \in Nat /\ p.priority[extension] \in Nat
  BY DEF SoundProfile
<1>2. p.priority[primary] >= p.priority[primary]
  BY <1>1
<1>3. groups({extension}) = ExtensionGroups(p, extension, primary)
  BY DEF ExtensionGroups, TakesPart
<1>4. groups({primary, extension}) = GroupsFor(p, primary, extension)
  BY <1>2 DEF GroupsFor, ExtensionGroups, TakesPart
<1>5. ASSUME NEW fields
      PROVE  Speaking(p, fields, primary) = Matches(invocation.rules, groups(fields), FALSE)
  BY DEF Speaking, Matches
<1>. HIDE DEF groups
<1>6. QED
  BY <1>3, <1>4, <1>5

\* What is left of the strengths when some prevail over what speaks against.
IsOrdering(ordering, strengths, for, against) ==
    /\ DOMAIN ordering \subseteq DOMAIN strengths
    /\ \A code \in DOMAIN ordering : ordering[code] = strengths[code]
    /\ \A code : code \in DOMAIN ordering <=> Prevails(code, for, against)

LEMMA OrderingIs ==
  ASSUME NEW rules, SoundRules(rules), NEW p, SoundProfile(p), NEW fixableOnly,
         NEW primary \in Fields, NEW extension \in Fields, NEW disabled \in Fields
  PROVE  IsOrdering(Ordering(p, rules, primary, extension, disabled, fixableOnly),
                    Strengths(rules, GroupsFor(p, primary, extension), fixableOnly),
                    Matches(rules, GroupsFor(p, primary, extension), fixableOnly),
                    Matches(rules, ExtensionGroups(p, disabled, primary), FALSE))
<1>. DEFINE strengths == Strengths(rules, GroupsFor(p, primary, extension), fixableOnly)
            disabling == Strengths(rules, ExtensionGroups(p, disabled, primary), FALSE)
<1>1. Ordering(p, rules, primary, extension, disabled, fixableOnly) = EnabledOver(strengths, disabling)
  BY DEF Ordering, GroupsFor
<1>2. \A code : code \in DOMAIN EnabledOver(strengths, disabling) <=>
        Prevails(code, Matches(rules, GroupsFor(p, primary, extension), fixableOnly),
                       Matches(rules, ExtensionGroups(p, disabled, primary), FALSE))
  BY GroupsAreSound, PrevailingIs
<1>. HIDE DEF strengths, disabling
<1>3. /\ DOMAIN EnabledOver(strengths, disabling) \subseteq DOMAIN strengths
      /\ \A code \in DOMAIN EnabledOver(strengths, disabling) :
            EnabledOver(strengths, disabling)[code] = strengths[code]
  BY DEF EnabledOver, Restrict
<1>4. IsOrdering(EnabledOver(strengths, disabling), strengths,
                 Matches(rules, GroupsFor(p, primary, extension), fixableOnly),
                 Matches(rules, ExtensionGroups(p, disabled, primary), FALSE))
  BY <1>2, <1>3 DEF IsOrdering
<1>5. QED
  BY <1>1, <1>4 DEF strengths

For(p) == Speaking(p, {"select", "extend_select"}, "select")
Against(p) == Speaking(p, {"ignore"}, "select")
Fixing(p) == Speaking(p, {"fixable", "extend_fixable"}, "fixable")
Sparing(p) == Speaking(p, {"unfixable"}, "fixable")

Named(p, r) == \E e \in For(p) : e.code = r.code /\ e.exact
Explicit(p) == UNION {Resolve(invocation.rules, s).matching : s \in ToSet(p.values["require_explicit"])}

Left(p) ==
    {r \in invocation.rules :
       /\ Prevails(r.code, For(p), Against(p))
       /\ \A e \in r.effects : p.values[e.setting] \in e.values => e.effect = "ignored" /\ Named(p, r)
       /\ r \in Explicit(p) => Named(p, r)}

Weaker(p, r, k) == \E e \in For(p) : e.code = k.code /\ \A d \in For(p) : d.code = r.code => Stronger(e, d)

LEMMA SettingsAreFields ==
  {"select", "extend_select", "ignore", "fixable", "extend_fixable", "unfixable", "require_explicit"} \subseteq Fields
BY FieldsAssumption DEF SelectionFields

LEMMA ExplicitIs ==
  ASSUME SoundRules(invocation.rules), NEW p
  PROVE  ExplicitOnly(invocation.rules, p.values) = {r.code : r \in Explicit(p)}
<1>. DEFINE rules == invocation.rules
            group == Group(p.values["require_explicit"], 0)
            found == Matches(rules, {group}, FALSE)
<1>1. SoundGroups({group})
  <2>1. \A g \in {group} : g.priority \in 0..0
    BY DEF Group
  <2>. HIDE DEF group
  <2>2. QED
    BY <2>1 DEF SoundGroups
<1>2. AreStrengths(Strengths(rules, {group}, FALSE), found)
  <2>. HIDE DEF group, rules
  <2>1. SoundRules(rules)
    BY DEF rules
  <2>2. QED
    BY <1>1, <2>1, StrengthsAre
<1>3. ExplicitOnly(rules, p.values) = {f.code : f \in found}
  <2>. HIDE DEF found
  <2>1. QED
    BY <1>2 DEF ExplicitOnly, AreStrengths
<1>4. \A f : f \in found <=> f \in AllMatches(rules, group)
  BY DEF Matches, AllMatches
<1>5. \A f : f \in AllMatches(rules, group) <=>
        \E s \in ToSet(p.values["require_explicit"]) : \E r \in Resolve(rules, s).matching : f = MatchOf(rules, group, s, r)
  <2>1. group.selectors = p.values["require_explicit"]
    BY DEF Group
  <2>. HIDE DEF group, rules
  <2>2. QED
    BY <2>1, AllMatchesAre
<1>6. \A s, r : MatchOf(rules, group, s, r).code = r.code
  BY DEF MatchOf
<1>. HIDE DEF found, group, rules
<1>7. ASSUME NEW code PROVE code \in {f.code : f \in found} <=> code \in {r.code : r \in Explicit(p)}
  <2>1. ASSUME NEW f \in found, code = f.code PROVE code \in {r.code : r \in Explicit(p)}
    <3>1. PICK s \in ToSet(p.values["require_explicit"]) : \E r \in Resolve(rules, s).matching : f = MatchOf(rules, group, s, r)
      BY <1>4, <1>5
    <3>2. PICK r \in Resolve(rules, s).matching : f = MatchOf(rules, group, s, r)
      BY <3>1
    <3>3. r \in Explicit(p)
      BY <3>1, <3>2 DEF Explicit, rules
    <3>4. QED
      BY <1>6, <2>1, <3>2, <3>3
  <2>2. ASSUME NEW r \in Explicit(p), code = r.code PROVE code \in {f.code : f \in found}
    <3>1. PICK s \in ToSet(p.values["require_explicit"]) : r \in Resolve(rules, s).matching
      BY DEF Explicit, rules
    <3>2. MatchOf(rules, group, s, r) \in found
      BY <1>4, <1>5, <3>1
    <3>3. QED
      BY <1>6, <2>2, <3>2
  <2>3. QED
    BY <2>1, <2>2
<1>8. QED
  BY <1>3, <1>7 DEF rules

LEMMA EnabledIs ==
  ASSUME SoundRules(invocation.rules), NEW p, SoundProfile(p)
  PROVE  /\ DOMAIN EnabledRules(invocation.rules, p) = {r.code : r \in Left(p)}
         /\ SoundStrengths(invocation.rules, EnabledRules(invocation.rules, p))
         /\ \A c \in DOMAIN EnabledRules(invocation.rules, p) :
              /\ \E e \in For(p) : e.code = c /\ AsStrong(e, EnabledRules(invocation.rules, p)[c])
              /\ \A e \in For(p) : e.code = c => ~Stronger(e, EnabledRules(invocation.rules, p)[c])
         /\ \A e \in For(p) : e.priority \in Int /\ e.specificity \in Int
<1>. DEFINE rules == invocation.rules
            values == p.values
            strengths == Strengths(rules, GroupsFor(p, "select", "extend_select"), FALSE)
            ordering == Ordering(p, rules, "select", "extend_select", "ignore", FALSE)
            settled == AfterSettings(rules, ordering, values)
            enabled == EnabledRules(rules, p)
<1>1. /\ For(p) = Matches(rules, GroupsFor(p, "select", "extend_select"), FALSE)
      /\ Against(p) = Matches(rules, ExtensionGroups(p, "ignore", "select"), FALSE)
  BY SpeakingIs, SettingsAreFields DEF For, Against
<1>2. AreStrengths(strengths, For(p)) /\ \A e \in For(p) : e.code \in Codes(rules)
  BY <1>1, StrengthsAre, GroupsAreSound, SettingsAreFields
<1>3. /\ DOMAIN ordering \subseteq DOMAIN strengths
      /\ \A c \in DOMAIN ordering : ordering[c] = strengths[c]
      /\ \A c : c \in DOMAIN ordering <=> Prevails(c, For(p), Against(p))
  <2>1. IsOrdering(ordering, strengths, For(p), Against(p))
    BY <1>1, OrderingIs, SettingsAreFields
  <2>. HIDE DEF ordering, strengths
  <2>2. QED
    BY <2>1 DEF IsOrdering
<1>4. enabled = AfterRequireExplicit(rules, settled, values)
  BY DEF EnabledRules
<1>5. /\ \A c : c \in DOMAIN settled <=>
           /\ c \in DOMAIN ordering
           /\ "disabled" \notin Triggered(RuleOf(rules, c), values)
           /\ "ignored" \in Triggered(RuleOf(rules, c), values) => ordering[c].exact
      /\ \A c \in DOMAIN settled : settled[c] = ordering[c]
  <2>. HIDE DEF ordering
  <2>1. QED
    BY DEF AfterSettings, Restrict
<1>6. /\ \A c : c \in DOMAIN enabled <=>
           c \in DOMAIN settled /\ (c \in ExplicitOnly(rules, values) => settled[c].exact)
      /\ \A c \in DOMAIN enabled : enabled[c] = settled[c]
  <2>. HIDE DEF settled, enabled
  <2>1. QED
    BY <1>4 DEF AfterRequireExplicit, Restrict
<1>7. ExplicitOnly(rules, values) = {r.code : r \in Explicit(p)}
  BY ExplicitIs
<1>8. Explicit(p) \subseteq rules
  BY SpecificityIs DEF Explicit
<1>. HIDE DEF rules, values, strengths, ordering, settled, enabled
<1>9. SoundRules(rules)
  BY DEF rules
<1>10. ASSUME NEW r \in rules PROVE r.code \in DOMAIN enabled <=> r \in Left(p)
  <2>1. RuleOf(rules, r.code) = r
    BY <1>9, RuleOfIs
  <2>2. r.code \in DOMAIN ordering => (ordering[r.code].exact <=> Named(p, r))
    BY <1>2, <1>3 DEF AreStrengths, Named
  <2>3. r.code \in {s.code : s \in Explicit(p)} <=> r \in Explicit(p)
    BY <1>8, <1>9 DEF SoundRules
  <2>4. \A e \in r.effects : e.effect \in {"disabled", "ignored"}
    BY <1>9 DEF SoundRules
  <2>5. /\ "disabled" \in Triggered(r, values) <=> \E e \in r.effects : values[e.setting] \in e.values /\ e.effect = "disabled"
        /\ "ignored" \in Triggered(r, values) <=> \E e \in r.effects : values[e.setting] \in e.values /\ e.effect = "ignored"
    BY DEF Triggered
  <2>6. r \in Left(p) <=>
          /\ Prevails(r.code, For(p), Against(p))
          /\ \A e \in r.effects : values[e.setting] \in e.values => e.effect = "ignored" /\ Named(p, r)
          /\ r \in Explicit(p) => Named(p, r)
    BY DEF Left, rules, values
  <2>7. r.code \in DOMAIN enabled <=>
          /\ r.code \in DOMAIN ordering
          /\ "disabled" \notin Triggered(r, values)
          /\ "ignored" \in Triggered(r, values) => ordering[r.code].exact
          /\ r \in Explicit(p) => ordering[r.code].exact
    BY <1>5, <1>6, <1>7, <2>1, <2>3
  <2>8. (/\ "disabled" \notin Triggered(r, values)
         /\ "ignored" \in Triggered(r, values) => Named(p, r))
          <=> \A e \in r.effects : values[e.setting] \in e.values => e.effect = "ignored" /\ Named(p, r)
    BY <2>4, <2>5
  <2>9. QED
    BY <1>3, <2>2, <2>6, <2>7, <2>8
<1>11. DOMAIN enabled \subseteq Codes(rules)
  BY <1>2, <1>3, <1>5, <1>6 DEF AreStrengths
<1>12. DOMAIN enabled = {r.code : r \in Left(p)}
  BY <1>10, <1>11 DEF Codes, Left, rules
<1>13. \A c \in DOMAIN enabled : enabled[c] = strengths[c] /\ c \in DOMAIN strengths
  BY <1>3, <1>5, <1>6
<1>14. SoundStrengths(rules, enabled)
  BY <1>2, <1>11, <1>13 DEF SoundStrengths, AreStrengths
<1>15. \A c \in DOMAIN enabled :
         /\ \E e \in For(p) : e.code = c /\ AsStrong(e, enabled[c])
         /\ \A e \in For(p) : e.code = c => ~Stronger(e, enabled[c])
  BY <1>2, <1>13 DEF AreStrengths
<1>16. \A e \in For(p) : e.priority \in Int /\ e.specificity \in Int
  BY <1>2 DEF AreStrengths
<1>17. QED
  BY <1>12, <1>14, <1>15, <1>16 DEF rules, enabled

-----------------------------------------------------------------------------
(* The rules selected                                                      *)

LEMMA WeakerIs ==
  ASSUME SoundRules(invocation.rules), NEW p, SoundProfile(p), NEW r \in Left(p), NEW k \in Left(p)
  PROVE  Weaker(p, r, k) <=> Stronger(EnabledRules(invocation.rules, p)[k.code],
                                      EnabledRules(invocation.rules, p)[r.code])
<1>. DEFINE enabled == EnabledRules(invocation.rules, p)
            a == enabled[r.code]
            b == enabled[k.code]
<1>1. r.code \in DOMAIN enabled /\ k.code \in DOMAIN enabled
  BY EnabledIs
<1>2. /\ \E e \in For(p) : e.code = r.code /\ AsStrong(e, a)
      /\ \A e \in For(p) : e.code = r.code => ~Stronger(e, a)
      /\ \E e \in For(p) : e.code = k.code /\ AsStrong(e, b)
      /\ \A e \in For(p) : e.code = k.code => ~Stronger(e, b)
      /\ \A e \in For(p) : e.priority \in Int /\ e.specificity \in Int
  BY <1>1, EnabledIs
<1>3. a.priority \in Int /\ a.specificity \in Int /\ b.priority \in Int /\ b.specificity \in Int
  BY <1>1, EnabledIs DEF SoundStrengths
<1>. HIDE DEF a, b
<1>4. ASSUME Weaker(p, r, k) PROVE Stronger(b, a)
  <2>1. PICK e \in For(p) : e.code = k.code /\ \A d \in For(p) : d.code = r.code => Stronger(e, d)
    BY <1>4 DEF Weaker
  <2>2. PICK d \in For(p) : d.code = r.code /\ AsStrong(d, a)
    BY <1>2
  <2>3. Stronger(e, d) /\ ~Stronger(e, b)
    BY <1>2, <2>1, <2>2
  <2>4. QED
    BY <1>2, <1>3, <2>1, <2>2, <2>3 DEF Stronger, AsStrong
<1>5. ASSUME Stronger(b, a) PROVE Weaker(p, r, k)
  <2>1. PICK e \in For(p) : e.code = k.code /\ AsStrong(e, b)
    BY <1>2
  <2>2. ASSUME NEW d \in For(p), d.code = r.code PROVE Stronger(e, d)
    <3>1. ~Stronger(d, a)
      BY <1>2, <2>2
    <3>2. QED
      BY <1>2, <1>3, <1>5, <2>1, <3>1 DEF Stronger, AsStrong
  <2>3. QED
    BY <2>1, <2>2 DEF Weaker
<1>6. QED
  BY <1>4, <1>5 DEF a, b

LEMMA NoSelectorError ==
  ASSUME NEW rules, NEW selectors, NEW fixableOnly, NEW reportUnknown, NEW code
  PROVE  <<"incompatible", code>> \notin SelectorErrors(rules, selectors, fixableOnly, reportUnknown)
<1>1. SUFFICES ASSUME <<"incompatible", code>> \in
                 {<<kind, s>> : kind \in {"invalid", "unknown", "no fixes"}, s \in ToSet(selectors)}
               PROVE  FALSE
  BY DEF SelectorErrors
<1>2. PICK kind \in {"invalid", "unknown", "no fixes"} : \E s : <<"incompatible", code>> = <<kind, s>>
  BY <1>1
<1>3. QED
  BY <1>2

Retention(p) == Retained(invocation.rules, EnabledRules(invocation.rules, p))

CandidateOf(p, code) ==
    [code |-> code,
     fixable |-> Fixable(RuleOf(invocation.rules, code)) /\ code \in FixableRules(invocation.rules, p)]

LEMMA SelectionIs ==
  ASSUME NEW p
  PROVE  /\ Selection(p).candidates = {CandidateOf(p, code) : code \in Retention(p)}
         /\ \A code : <<"incompatible", code>> \in Selection(p).errors <=>
              <<"incompatible", code>> \in IncompatibilityErrors(invocation.rules, EnabledRules(invocation.rules, p))
<1>. DEFINE unusable == UnusableSelectors(invocation.rules, p, Defaults["require_explicit"])
<1>1. Selection(p).candidates = {CandidateOf(p, code) : code \in Retention(p)}
  BY DEF Selection, SelectRules, CandidateOf, Retention
<1>2. Selection(p).errors = IncompatibilityErrors(invocation.rules, EnabledRules(invocation.rules, p)) \cup unusable
  <2>. HIDE DEF unusable
  <2>1. QED
    BY DEF Selection, SelectRules, unusable
<1>3. ASSUME NEW code, <<"incompatible", code>> \in unusable PROVE FALSE
  <2>1. \/ \E list : <<"incompatible", code>> \in ListErrors(invocation.rules, list)
        \/ \E list : <<"incompatible", code>> \in FixListErrors(invocation.rules, list)
        \/ <<"incompatible", code>> \in RequireExplicitErrors(invocation.rules, p, Defaults["require_explicit"])
    BY <1>3 DEF UnusableSelectors
  <2>2. \A list : <<"incompatible", code>> \notin ListErrors(invocation.rules, list)
    BY NoSelectorError DEF ListErrors
  <2>3. \A list : <<"incompatible", code>> \notin FixListErrors(invocation.rules, list)
    BY NoSelectorError DEF FixListErrors
  <2>4. <<"incompatible", code>> \notin RequireExplicitErrors(invocation.rules, p, Defaults["require_explicit"])
    BY NoSelectorError DEF RequireExplicitErrors
  <2>5. QED
    BY <2>1, <2>2, <2>3, <2>4
<1>. HIDE DEF unusable
<1>4. QED
  BY <1>1, <1>2, <1>3

Kept(p) == {r \in Left(p) : \E c \in Selection(p).candidates : c.code = r.code}
Rivals(p, r) == {k \in Kept(p) : k.code \in r.incompatible}

LEMMA LeftIs ==
  ASSUME SoundRules(invocation.rules), NEW p, SoundProfile(p)
  PROVE  /\ Left(p) \subseteq invocation.rules
         /\ \A r \in Left(p) : RuleOf(invocation.rules, r.code) = r /\ r.code \in DOMAIN EnabledRules(invocation.rules, p)
         /\ \A r, s \in Left(p) : r.code = s.code => r = s
         /\ Kept(p) = {r \in Left(p) : r.code \in Retention(p)}
         /\ \A code \in Retention(p) : \E r \in Kept(p) : r.code = code
<1>1. Left(p) \subseteq invocation.rules
  BY DEF Left
<1>2. \A r \in Left(p) : RuleOf(invocation.rules, r.code) = r /\ r.code \in DOMAIN EnabledRules(invocation.rules, p)
  <2>1. \A r \in Left(p) : r.code \in DOMAIN EnabledRules(invocation.rules, p)
    BY EnabledIs
  <2>2. \A r \in invocation.rules : RuleOf(invocation.rules, r.code) = r
    BY RuleOfIs
  <2>3. QED
    BY <1>1, <2>1, <2>2
<1>3. \A r, s \in Left(p) : r.code = s.code => r = s
  BY <1>1 DEF SoundRules
<1>4. \A code : CandidateOf(p, code).code = code
  BY DEF CandidateOf
<1>5. Kept(p) = {r \in Left(p) : r.code \in Retention(p)}
  BY <1>4, SelectionIs DEF Kept
<1>6. Retention(p) \subseteq {r.code : r \in Left(p)}
  BY EnabledIs, RetainedIs DEF Retention
<1>7. QED
  BY <1>1, <1>2, <1>3, <1>5, <1>6

\* As many candidates as rules are kept: each is one of them.
LEMMA OneCandidateEach ==
  ASSUME SoundRules(invocation.rules), NEW p, SoundProfile(p)
  PROVE  Cardinality(Kept(p)) = Cardinality(Selection(p).candidates)
<1>. DEFINE f == [r \in Kept(p) |-> CandidateOf(p, r.code)]
            candidates == Selection(p).candidates
<1>1. candidates = {CandidateOf(p, code) : code \in Retention(p)}
  BY SelectionIs
<1>2. \A r \in Kept(p) : r \in Left(p) /\ r \in invocation.rules /\ r.code \in Retention(p)
  BY LeftIs
<1>3. \A code : CandidateOf(p, code).code = code
  BY DEF CandidateOf
<1>. HIDE DEF candidates
<1>4. f \in [Kept(p) -> candidates]
  BY <1>1, <1>2
<1>5. \A r, s \in Kept(p) : f[r] = f[s] => r = s
  <2>1. SUFFICES ASSUME NEW r \in Kept(p), NEW s \in Kept(p), f[r] = f[s] PROVE r = s
    OBVIOUS
  <2>2. CandidateOf(p, r.code) = CandidateOf(p, s.code)
    BY <2>1
  <2>3. r.code = s.code
    BY <1>3, <2>2
  <2>4. QED
    BY <1>2, <2>3, LeftIs
<1>6. \A c \in candidates : \E r \in Kept(p) : f[r] = c
  <2>1. SUFFICES ASSUME NEW c \in candidates PROVE \E r \in Kept(p) : f[r] = c
    OBVIOUS
  <2>2. PICK code \in Retention(p) : c = CandidateOf(p, code)
    BY <1>1
  <2>3. PICK r \in Kept(p) : r.code = code
    BY LeftIs
  <2>4. f[r] = CandidateOf(p, code)
    BY <2>3
  <2>5. QED
    BY <2>2, <2>4
<1>. HIDE DEF f
<1>7. f \in Bijection(Kept(p), candidates)
  BY <1>4, <1>5, <1>6 DEF Bijection, Injection, Surjection, IsInjective
<1>8. IsFiniteSet(Kept(p))
  <2>1. Kept(p) \subseteq invocation.rules /\ IsFiniteSet(invocation.rules)
    BY <1>2 DEF SoundRules
  <2>2. QED
    BY <2>1, FS_Subset
<1>9. QED
  BY <1>7, <1>8, FS_Bijection DEF ExistsBijection, candidates

LEMMA RivalsAreFair ==
  ASSUME SoundRules(invocation.rules), NEW p, SoundProfile(p)
  PROVE  /\ \A r \in Kept(p) : Rivals(p, r) = {}
         /\ \A r \in Left(p) \ Kept(p) :
              /\ \E k \in Rivals(p, r) : ~Weaker(p, k, r)
              /\ <<"incompatible", r.code>> \in Selection(p).errors <=> \A k \in Rivals(p, r) : ~Weaker(p, r, k)
<1>. DEFINE rules == invocation.rules
            enabled == EnabledRules(rules, p)
            K == Retention(p)
<1>1. SoundStrengths(rules, enabled)
  BY EnabledIs
<1>2. /\ K \subseteq DOMAIN enabled
      /\ \A c \in DOMAIN enabled :
            c \in K <=> \A d \in K : TakenBefore(enabled, d, c) => d \notin RuleOf(rules, c).incompatible
  BY <1>1, RetainedIs DEF Retention
<1>3. \A c, d \in DOMAIN enabled : c # d => TakenBefore(enabled, c, d) \/ TakenBefore(enabled, d, c)
  BY <1>1, TakenInOrder
<1>4. /\ \A r \in Left(p) : r \in rules /\ RuleOf(rules, r.code) = r /\ r.code \in DOMAIN enabled
      /\ Kept(p) = {r \in Left(p) : r.code \in K}
      /\ \A code \in K : \E r \in Kept(p) : r.code = code
  BY LeftIs
<1>5. \A r, s \in rules : (s.code \in r.incompatible => r.code \in s.incompatible /\ r # s) /\ (r.code = s.code => r = s)
  BY DEF SoundRules
<1>6. \A r, k \in Left(p) : Weaker(p, r, k) <=> Stronger(enabled[k.code], enabled[r.code])
  BY WeakerIs
<1>7. \A c \in DOMAIN enabled : enabled[c].priority \in Int /\ enabled[c].specificity \in Int
  BY <1>1 DEF SoundStrengths
<1>8. \A code : <<"incompatible", code>> \in Selection(p).errors <=>
         /\ code \in DOMAIN enabled \ K
         /\ ~\E d \in K \cap RuleOf(rules, code).incompatible : Stronger(enabled[d], enabled[code])
  <2>1. SUFFICES ASSUME NEW code
                 PROVE  <<"incompatible", code>> \in IncompatibilityErrors(rules, enabled) <=>
                          /\ code \in DOMAIN enabled \ K
                          /\ ~\E d \in K \cap RuleOf(rules, code).incompatible : Stronger(enabled[d], enabled[code])
    BY SelectionIs
  <2>2. K = Retained(rules, enabled)
    BY DEF Retention
  <2>. HIDE DEF K, enabled, rules
  <2>3. QED
    BY <2>2 DEF IncompatibilityErrors
<1>. HIDE DEF rules, enabled, K
<1>9. ASSUME NEW r \in Kept(p) PROVE Rivals(p, r) = {}
  <2>1. SUFFICES ASSUME NEW k \in Rivals(p, r) PROVE FALSE
    OBVIOUS
  <2>2. k \in Kept(p) /\ k.code \in r.incompatible
    BY DEF Rivals
  <2>3. r.code \in k.incompatible /\ r.code # k.code
    BY <1>4, <1>5, <2>2
  <2>4. TakenBefore(enabled, k.code, r.code) \/ TakenBefore(enabled, r.code, k.code)
    BY <1>3, <1>4, <2>2, <2>3
  <2>5. QED
    BY <1>2, <1>4, <2>2, <2>3, <2>4
<1>10. ASSUME NEW r \in Left(p) \ Kept(p) PROVE \E k \in Rivals(p, r) : ~Weaker(p, k, r)
  <2>1. r.code \notin K
    BY <1>4
  <2>2. PICK d \in K : TakenBefore(enabled, d, r.code) /\ d \in r.incompatible
    BY <1>2, <1>4, <2>1
  <2>3. PICK k \in Kept(p) : k.code = d
    BY <1>4
  <2>4. k \in Rivals(p, r) /\ k \in Left(p)
    BY <1>4, <2>2, <2>3 DEF Rivals
  <2>5. ~Stronger(enabled[r.code], enabled[d])
    BY <1>2, <1>4, <1>7, <2>2 DEF TakenBefore, Stronger, AsStrong
  <2>6. QED
    BY <1>6, <2>3, <2>4, <2>5
<1>11. ASSUME NEW r \in Left(p) \ Kept(p)
       PROVE  <<"incompatible", r.code>> \in Selection(p).errors <=> \A k \in Rivals(p, r) : ~Weaker(p, r, k)
  <2>1. r.code \in DOMAIN enabled \ K
    BY <1>4
  <2>2. <<"incompatible", r.code>> \in Selection(p).errors <=>
          ~\E d \in K \cap r.incompatible : Stronger(enabled[d], enabled[r.code])
    BY <1>4, <1>8, <2>1
  <2>3. (\E d \in K \cap r.incompatible : Stronger(enabled[d], enabled[r.code])) <=>
          \E k \in Rivals(p, r) : Stronger(enabled[k.code], enabled[r.code])
    BY <1>4 DEF Rivals
  <2>4. \A k \in Rivals(p, r) : Weaker(p, r, k) <=> Stronger(enabled[k.code], enabled[r.code])
    BY <1>4, <1>6 DEF Rivals
  <2>5. QED
    BY <2>2, <2>3, <2>4
<1>12. QED
  BY <1>9, <1>10, <1>11

LEMMA FixesAreSelected ==
  ASSUME SoundRules(invocation.rules), NEW p, SoundProfile(p), NEW c \in Selection(p).candidates
  PROVE  c.fixable <=> Fixable(RuleOf(invocation.rules, c.code)) /\ Prevails(c.code, Fixing(p), Sparing(p))
<1>. DEFINE rules == invocation.rules
            groups == GroupsFor(p, "fixable", "extend_fixable")
            some == Matches(rules, groups, TRUE)
<1>1. PICK code \in Retention(p) : c = CandidateOf(p, code)
  BY SelectionIs
<1>2. c.code = code /\ (c.fixable <=> Fixable(RuleOf(rules, code)) /\ code \in FixableRules(rules, p))
  BY <1>1 DEF CandidateOf
<1>3. code \in Codes(rules)
  BY EnabledIs, RetainedIs DEF Retention, SoundStrengths
<1>4. /\ Fixing(p) = Matches(rules, groups, FALSE)
      /\ Sparing(p) = Matches(rules, ExtensionGroups(p, "unfixable", "fixable"), FALSE)
  BY SpeakingIs, SettingsAreFields DEF Fixing, Sparing
<1>5. code \in FixableRules(rules, p) <=> Prevails(code, some, Sparing(p))
  <2>. DEFINE ordering == Ordering(p, rules, "fixable", "extend_fixable", "unfixable", TRUE)
  <2>1. IsOrdering(ordering, Strengths(rules, groups, TRUE), some, Sparing(p))
    BY <1>4, OrderingIs, SettingsAreFields
  <2>. HIDE DEF ordering, some
  <2>2. code \in DOMAIN ordering <=> Prevails(code, some, Sparing(p))
    BY <2>1 DEF IsOrdering
  <2>3. QED
    BY <2>2 DEF FixableRules, ordering
<1>6. Fixable(RuleOf(rules, code)) => {f \in some : f.code = code} = {f \in Fixing(p) : f.code = code}
  BY <1>3, <1>4, MatchesToFix
<1>. HIDE DEF some, rules
<1>7. Fixable(RuleOf(rules, code)) => (Prevails(code, some, Sparing(p)) <=> Prevails(code, Fixing(p), Sparing(p)))
  BY <1>6 DEF Prevails
<1>8. QED
  BY <1>2, <1>5, <1>7 DEF rules

\* Of the rules that selectors and settings leave, a file is checked with all
\* that are compatible: of incompatible ones the stronger stays, and one that
\* falls to none stronger is reported (select_rules).
THEOREM SelectionsAreFair == Spec => []SelectionIsFair
<1>1. Init => PlanInv
  BY InitPlans
<1>2. PlanInv /\ [Next]_vars => PlanInv'
  BY PlansStep
<1>3. ASSUME PlanInv PROVE SelectionIsFair
  <2>1. SoundRules(invocation.rules)
    BY <1>3, RulesAreSound DEF PlanInv, IndependenceInv, SnapshotInv, Shape
  <2>2. ASSUME NEW p \in {byDir[DirectoryOf(path)] : path \in DOMAIN plans}
        PROVE  /\ Cardinality(Kept(p)) = Cardinality(Selection(p).candidates)
               /\ \A r \in Kept(p) : Rivals(p, r) = {}
               /\ \A r \in Left(p) \ Kept(p) :
                     /\ \E k \in Rivals(p, r) : ~Weaker(p, k, r)
                     /\ <<"incompatible", r.code>> \in Selection(p).errors <=>
                          \A k \in Rivals(p, r) : ~Weaker(p, r, k)
               /\ \A c \in Selection(p).candidates :
                     c.fixable <=> Fixable(RuleOf(invocation.rules, c.code)) /\ Prevails(c.code, Fixing(p), Sparing(p))
    <3>1. SoundProfile(p)
      BY <1>3 DEF PlanInv, PlansRight
    <3>2. QED
      BY <2>1, <3>1, OneCandidateEach, RivalsAreFair, FixesAreSelected
  <2>3. QED
    BY <2>2 DEF SelectionIsFair, Kept, Rivals, Left, Weaker, Named, Explicit, For, Against, Fixing, Sparing
<1>4. QED
  BY <1>1, <1>2, <1>3, PTL DEF Spec
=============================================================================
