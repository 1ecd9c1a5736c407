------------------------ MODULE MarkdownRewriteProofs ------------------------
(***************************************************************************)
(* What MarkdownRewrite keeps for every document, every set of bodies the  *)
(* rules may leave, and every way difflib may align them:                  *)
(*   BlocksStayIntact         BlocksIntact                                 *)
(*   FixesAreOfRewrites       no fix is claimed for a document that stays, *)
(*                            and one with an error stays                  *)
(*   FindingsStayInPlace      FindingsInPlace                              *)
(*   RewritesImplementPromise WholeOrNothing, the refinement of            *)
(*                            MarkdownDocument                             *)
(* The first two use only that a rewrite was compared with the document    *)
(* (KeepsShape).  The others need what the search for fences finds: it     *)
(* exists for every sequence of lines, by the least line without it        *)
(* (FencesFound), and its fences are in order, each opened before it is    *)
(* closed (FencesInOrder).  What is put together from the document and     *)
(* bodies is a text again (AssembledIsText).                               *)
(***************************************************************************)
EXTENDS MarkdownRewrite, FiniteSetTheorems, SequenceTheorems, NaturalsInduction,
    WellFoundedInduction, TLAPS

\* Outcomes are of blocks of the document, and are what the rules may leave.
Formatted ==
    /\ DOMAIN outcomes \subseteq Targets
    /\ \A i \in DOMAIN outcomes : outcomes[i] \in OutcomesOf(Body(i), fix /\ AllParse)

Kept == result.source = doc /\ result.fixed = 0

Rewritten ==
    /\ ~result.failed /\ AllParse
    /\ KeepsShape(doc, result.source, Sources)
    /\ result.fixed = CountedFixes

\* What a caller gets is the document, or a rewrite that was compared with it.
IInv == Formatted /\ (stage = "done" => Kept \/ Rewritten)

\* A state function of the document alone stays with it.
LEMMA SameDocument ==
  ASSUME doc' = doc
  PROVE  Targets' = Targets /\ AllParse' = AllParse /\ \A i : Body(i)' = Body(i)
<1>1. Targets' = Targets
  BY DEF Targets
<1>2. \A i : Body(i)' = Body(i)
  BY DEF Body
<1>3. QED
  BY <1>1, <1>2 DEF AllParse

\* A document that is left as it is has no fixed block.
LEMMA NoFixNoCount ==
  ASSUME Formatted, KeepsShape(doc, doc, Sources)
  PROVE  CountedFixes = 0
<1>1. SUFFICES ASSUME NEW i \in DOMAIN outcomes
               PROVE  ~outcomes[i].fixed
  <2>1. {i \in DOMAIN outcomes : outcomes[i].fixed} = {}
    BY <1>1
  <2>2. QED
    BY <2>1, FS_EmptySet DEF CountedFixes
<1>2. i \in Targets /\ i \in DOMAIN Fences(doc)
  BY DEF Formatted, Targets
<1>3. outcomes[i] \in OutcomesOf(Body(i), fix /\ AllParse)
  BY DEF Formatted
<1>4. IsSource(Body(i), outcomes[i].source)
  BY <1>2 DEF KeepsShape, Sources, Body
<1>5. outcomes[i].source \in [lines : Bodies \cup {Body(i)}, ended : BOOLEAN]
  BY <1>3 DEF OutcomesOf
<1>6. outcomes[i].source = [lines |-> Body(i), ended |-> TRUE]
  BY <1>4, <1>5 DEF IsSource
<1>7. QED
  BY <1>3, <1>6 DEF OutcomesOf

\* Another block is formatted.
LEMMA FormattingKeeps ==
  ASSUME IInv, FormatBlock
  PROVE  IInv'
<1>0. PICK i \in Pending : \E o \in OutcomesOf(Body(i), fix /\ AllParse) :
        outcomes' = [j \in DOMAIN outcomes \cup {i} |-> IF j = i THEN o ELSE outcomes[j]]
  BY DEF FormatBlock
<1>1. PICK o \in OutcomesOf(Body(i), fix /\ AllParse) :
        outcomes' = [j \in DOMAIN outcomes \cup {i} |-> IF j = i THEN o ELSE outcomes[j]]
  BY <1>0
<1>2. doc' = doc /\ fix' = fix /\ stage' = "format"
  BY DEF FormatBlock
<1>3. i \in Targets
  BY DEF Pending
<1>4. DOMAIN outcomes' \subseteq Targets'
  BY <1>1, <1>2, <1>3, SameDocument DEF IInv, Formatted
<1>5. ASSUME NEW j \in DOMAIN outcomes'
      PROVE  outcomes'[j] \in OutcomesOf(Body(j), fix /\ AllParse)
  <2>1. CASE j = i
    BY <2>1, <1>1
  <2>2. CASE j # i
    <3>1. j \in DOMAIN outcomes /\ outcomes'[j] = outcomes[j]
      BY <2>2, <1>1
    <3>2. QED
      BY <3>1 DEF IInv, Formatted
  <2>3. QED
    BY <2>1, <2>2
<1>6. ASSUME NEW j \in DOMAIN outcomes'
      PROVE  outcomes'[j] \in OutcomesOf(Body(j), fix /\ AllParse)'
  BY <1>2, <1>5, SameDocument DEF OutcomesOf
<1>7. QED
  BY <1>2, <1>4, <1>6 DEF IInv, Formatted

\* The caller gets a report that keeps the document or was compared with it.
LEMMA ReturningKeeps ==
  ASSUME IInv, NEW report, Return(report),
         \/ report.source = doc /\ report.fixed = 0
         \/ /\ ~report.failed /\ AllParse
            /\ KeepsShape(doc, report.source, Sources)
            /\ report.fixed = CountedFixes
  PROVE  IInv'
<1>1. doc' = doc /\ fix' = fix /\ outcomes' = outcomes /\ stage' = "done" /\ result' = report
  BY DEF Return
<1>2. Formatted'
  BY <1>1, SameDocument DEF IInv, Formatted, OutcomesOf
<1>3. Sources' = Sources /\ CountedFixes' = CountedFixes
  BY <1>1, SameDocument DEF Sources, CountedFixes
<1>4. Kept' \/ Rewritten'
  BY <1>1, <1>3, SameDocument DEF Kept, Rewritten
<1>5. QED
  BY <1>2, <1>4 DEF IInv

LEMMA Start == Init => IInv
  BY DEF Init, IInv, Formatted

LEMMA StepKeeps ==
  ASSUME IInv, [Next]_vars
  PROVE  IInv'
<1>1. CASE FormatBlock
  BY <1>1, FormattingKeeps
<1>2. CASE ReturnCheck
  BY <1>2, ReturningKeeps DEF ReturnCheck, Unchanged, Report
<1>3. CASE RollBackFailed
  BY <1>3, ReturningKeeps DEF RollBackFailed, RollBack, Unchanged, Report
<1>4. CASE RollBackUnsafe
  BY <1>4, ReturningKeeps DEF RollBackUnsafe, RollBack, Unchanged, Report
<1>5. CASE ReturnRewrite
  <2>1. PICK candidate \in Candidates :
          /\ KeepsShape(doc, candidate, Sources)
          /\ Return(Report(candidate, CountedFixes, UnfixedIn(candidate), FALSE))
    BY <1>5 DEF ReturnRewrite
  <2>2. AllParse
    BY <1>5 DEF ReturnRewrite, Fixing
  <2>3. QED
    BY <2>1, <2>2, ReturningKeeps DEF Report
<1>6. CASE UNCHANGED vars
  <2>1. doc' = doc /\ fix' = fix /\ stage' = stage /\ outcomes' = outcomes /\ result' = result
    BY <1>6 DEF vars
  <2>2. Sources' = Sources /\ CountedFixes' = CountedFixes
    BY <2>1, SameDocument DEF Sources, CountedFixes
  <2>3. Formatted'
    BY <2>1, SameDocument DEF IInv, Formatted, OutcomesOf
  <2>4. Kept' = Kept /\ Rewritten' = Rewritten
    BY <2>1, <2>2, SameDocument DEF Kept, Rewritten
  <2>5. QED
    BY <2>1, <2>3, <2>4 DEF IInv
<1>7. QED
  BY <1>1, <1>2, <1>3, <1>4, <1>5, <1>6 DEF Next

LEMMA Invariant == Spec => []IInv
<1>1. Init => IInv
  BY Start
<1>2. IInv /\ [Next]_vars => IInv'
  BY StepKeeps
<1>3. QED
  BY <1>1, <1>2, PTL DEF Spec

\* What a reader of a rewritten document takes for the body of a block is what
\* the rules left of that very block.
THEOREM BlocksStayIntact == Spec => []BlocksIntact
<1>1. IInv => BlocksIntact
  <2>1. SUFFICES ASSUME IInv, stage = "done", result.source # doc
                 PROVE  /\ ~result.failed /\ AllParse
                        /\ \A i \in Targets :
                             BodyOf(result.source, Fences(result.source)[i]) = outcomes[i].source.lines
    BY DEF BlocksIntact
  <2>2. Rewritten
    BY <2>1 DEF IInv, Kept
  <2>3. ASSUME NEW i \in Targets
        PROVE  BodyOf(result.source, Fences(result.source)[i]) = outcomes[i].source.lines
    <3>1. i \in DOMAIN Fences(doc)
      BY DEF Targets
    <3>2. IsSource(BodyOf(result.source, Fences(result.source)[i]), Sources[i])
      BY <2>2, <3>1 DEF Rewritten, KeepsShape, Sources
    <3>3. QED
      BY <3>2 DEF IsSource, Sources
  <2>4. QED
    BY <2>2, <2>3 DEF Rewritten
<1>2. QED
  BY <1>1, Invariant, PTL

\* No fix is claimed for a document that stays, and an error makes it stay.
THEOREM FixesAreOfRewrites ==
  Spec => [](stage = "done" => /\ result.source = doc => result.fixed = 0
                               /\ result.failed => result.source = doc)
<1>1. IInv => (stage = "done" => /\ result.source = doc => result.fixed = 0
                                 /\ result.failed => result.source = doc)
  BY NoFixNoCount DEF IInv, Kept, Rewritten
<1>2. QED
  BY <1>1, Invariant, PTL

-----------------------------------------------------------------------------
(* The fences of a document                                                *)

\* A set of numbers has a least member: what fails for some number fails for
\* a least one.
LEMMA LeastNat ==
  ASSUME NEW T \in SUBSET Nat, T # {}
  PROVE  \E m \in T : \A k \in T : m <= k
<1>. DEFINE R == OpToRel(<, Nat)
<1>1. IsWellFoundedOn(R, Nat)
  BY NatLessThanWellFounded
<1>2. \A i, j \in Nat : <<i, j>> \in R <=> i < j
  BY DEF OpToRel
<1>. HIDE DEF R
<1>3. PICK x \in T : \A y \in T : ~ (<<y, x>> \in R)
  BY <1>1, WFMin
<1>4. \A k \in T : ~(k < x)
  BY <1>2, <1>3
<1>5. QED
  BY <1>4

\* One line of the search for fences, given what is found further down.
Found(text, from, start) ==
    IF start > Len(text) THEN <<>>
    ELSE IF ~OpensFence(text[start]) THEN from[start + 1]
    ELSE IF ClosingIndexes(text, start) = {} THEN <<>>
    ELSE <<[open |-> start, close |-> FirstOf(ClosingIndexes(text, start))]>>
           \o from[FirstOf(ClosingIndexes(text, start)) + 1]

\* The search of the lines from m on.
IsSearch(text, m, from) == from = [start \in m..(Len(text) + 1) |-> Found(text, from, start)]

\* The closing line of a fence comes after its opening line.
LEMMA ClosesLater ==
  ASSUME NEW text \in Seq(MDLines), NEW start \in 1..Len(text), ClosingIndexes(text, start) # {}
  PROVE  /\ FirstOf(ClosingIndexes(text, start)) \in (start + 1)..Len(text)
         /\ FirstOf(ClosingIndexes(text, start)) \in ClosingIndexes(text, start)
<1>. DEFINE C == ClosingIndexes(text, start)
<1>0. Len(text) \in Nat
  OBVIOUS
<1>1. C \in SUBSET Nat /\ C \subseteq (start + 1)..Len(text)
  BY <1>0 DEF ClosingIndexes
<1>. HIDE DEF C
<1>2. \E i \in C : \A j \in C : i <= j
  BY <1>1, LeastNat DEF C
<1>3. FirstOf(C) \in C
  BY <1>2, Zenon DEF FirstOf
<1>4. QED
  BY <1>1, <1>3 DEF C

\* A search of the lines after one makes a search of the lines from it on.
LEMMA SearchGrows ==
  ASSUME NEW text \in Seq(MDLines), NEW m \in 1..Len(text),
         NEW from, IsSearch(text, m + 1, from)
  PROVE  \E more : IsSearch(text, m, more)
<1>. DEFINE more == [start \in m..(Len(text) + 1) |-> IF start = m THEN Found(text, from, m) ELSE from[start]]
<1>0. Len(text) \in Nat
  OBVIOUS
<1>1. \A start \in (m + 1)..(Len(text) + 1) : more[start] = from[start]
  BY <1>0
<1>2. ASSUME NEW start \in m..(Len(text) + 1)
      PROVE  Found(text, more, start) = Found(text, from, start)
  <2>1. CASE start > Len(text)
    BY <2>1 DEF Found
  <2>2. CASE start \in 1..Len(text) /\ ClosingIndexes(text, start) = {}
    <3>1. start + 1 \in (m + 1)..(Len(text) + 1)
      BY <1>0, <2>2
    <3>2. more[start + 1] = from[start + 1]
      BY <3>1, <1>1
    <3>. HIDE DEF more
    <3>3. QED
      BY <2>2, <3>2 DEF Found
  <2>3. CASE start \in 1..Len(text) /\ ClosingIndexes(text, start) # {}
    <3>. DEFINE close == FirstOf(ClosingIndexes(text, start))
    <3>1. close \in (start + 1)..Len(text)
      BY <2>3, ClosesLater
    <3>2. start + 1 \in (m + 1)..(Len(text) + 1) /\ close + 1 \in (m + 1)..(Len(text) + 1)
      BY <1>0, <3>1
    <3>3. more[start + 1] = from[start + 1] /\ more[close + 1] = from[close + 1]
      BY <3>2, <1>1
    <3>. HIDE DEF more
    <3>4. QED
      BY <3>3 DEF Found
  <2>4. QED
    BY <1>0, <2>1, <2>2, <2>3
<1>3. ASSUME NEW start \in m..(Len(text) + 1)
      PROVE  more[start] = Found(text, from, start)
  <2>1. CASE start = m
    BY <2>1
  <2>2. CASE start # m
    <3>1. start \in (m + 1)..(Len(text) + 1)
      BY <1>0, <2>2
    <3>2. from[start] = Found(text, from, start)
      BY <3>1, Zenon DEF IsSearch
    <3>3. QED
      BY <3>1, <3>2, <1>1
  <2>3. QED
    BY <2>1, <2>2
<1>4. more = [start \in m..(Len(text) + 1) |-> more[start]]
  OBVIOUS
<1>. HIDE DEF more
<1>5. \A start \in m..(Len(text) + 1) : more[start] = Found(text, more, start)
  BY <1>2, <1>3
<1>6. IsSearch(text, m, more)
  BY <1>4, <1>5, Zenon DEF IsSearch
<1>7. QED
  BY <1>6

\* There is a search of every document: no line is the last from which there
\* is none.
LEMMA SearchExists ==
  ASSUME NEW text \in Seq(MDLines)
  PROVE  \E from : IsSearch(text, 1, from)
<1>. DEFINE n == Len(text) + 1
            Missing == {d \in 0..Len(text) : ~ \E from : IsSearch(text, n - d, from)}
<1>0. Len(text) \in Nat
  OBVIOUS
<1>1. SUFFICES ASSUME ~ \E from : IsSearch(text, 1, from)
               PROVE  FALSE
  OBVIOUS
<1>2. Len(text) \in Missing
  <2>1. n - Len(text) = 1
    BY <1>0
  <2>2. QED
    BY <2>1, <1>0, <1>1
<1>3. PICK d \in Missing : \A k \in Missing : d <= k
  <2>1. Missing \in SUBSET Nat /\ Missing # {}
    BY <1>2, <1>0
  <2>. HIDE DEF Missing
  <2>2. QED
    BY <2>1, LeastNat
<1>4. d \in 0..Len(text) /\ ~ \E from : IsSearch(text, n - d, from)
  OBVIOUS
<1>5. CASE d = 0
  <2>. DEFINE nothing == [start \in n..n |-> <<>>]
  <2>1. \A start \in n..n : Found(text, nothing, start) = <<>>
    BY <1>0 DEF Found
  <2>2. nothing = [start \in n..n |-> Found(text, nothing, start)]
    BY <2>1, Zenon
  <2>3. n - d = n
    BY <1>5, <1>0
  <2>. HIDE DEF nothing
  <2>4. IsSearch(text, n - d, nothing)
    BY <2>2, <2>3 DEF IsSearch
  <2>5. QED
    BY <2>4, <1>4
<1>6. CASE d # 0
  <2>1. d - 1 \in 0..Len(text) /\ ~(d <= d - 1)
    BY <1>6, <1>4, <1>0
  <2>2. PICK from : IsSearch(text, n - (d - 1), from)
    BY <2>1, <1>3
  <2>3. n - d \in 1..Len(text) /\ n - (d - 1) = (n - d) + 1
    BY <1>6, <1>4, <1>0
  <2>4. \E more : IsSearch(text, n - d, more)
    BY <2>2, <2>3, SearchGrows
  <2>5. QED
    BY <2>4, <1>4
<1>7. QED
  BY <1>5, <1>6

\* What the search finds, line by line.
LEMMA FencesFound ==
  ASSUME NEW text \in Seq(MDLines)
  PROVE  \A start \in 1..(Len(text) + 1) :
           FencesFrom(text)[start] = Found(text, FencesFrom(text), start)
<1>1. FencesFrom(text) = CHOOSE from : IsSearch(text, 1, from)
  BY Zenon DEF FencesFrom, IsSearch, Found
<1>2. IsSearch(text, 1, FencesFrom(text))
  BY <1>1, SearchExists, Zenon
<1>3. QED
  BY <1>2, Zenon DEF IsSearch

\* Closed fences of the lines from start on, one after the other.
InOrder(text, fences, start) ==
    /\ fences \in Seq([open : start..Len(text), close : start..Len(text)])
    /\ \A i \in 1..Len(fences) : fences[i].open < fences[i].close
    /\ \A i, j \in 1..Len(fences) : i < j => fences[i].close < fences[j].open

LEMMA StillInOrder ==
  ASSUME NEW text, Len(text) \in Nat, NEW a \in Nat, NEW b \in Nat, a <= b,
         NEW fences, InOrder(text, fences, b)
  PROVE  InOrder(text, fences, a)
<1>1. b..Len(text) \subseteq a..Len(text)
  OBVIOUS
<1>2. [open : b..Len(text), close : b..Len(text)] \subseteq [open : a..Len(text), close : a..Len(text)]
  BY <1>1
<1>3. fences \in Seq([open : b..Len(text), close : b..Len(text)])
  BY DEF InOrder
<1>4. fences \in Seq([open : a..Len(text), close : a..Len(text)])
  BY <1>2, <1>3, SeqMonotonic
<1>5. QED
  BY <1>4 DEF InOrder

LEMMA FenceBefore ==
  ASSUME NEW text, Len(text) \in Nat, NEW open \in 1..Len(text), NEW close \in (open + 1)..Len(text),
         NEW later, InOrder(text, later, close + 1)
  PROVE  InOrder(text, <<[open |-> open, close |-> close]>> \o later, open)
<1>. DEFINE R == [open : open..Len(text), close : open..Len(text)]
            first == <<[open |-> open, close |-> close]>>
            both == first \o later
<1>1. first \in Seq(R) /\ Len(first) = 1 /\ first[1] = [open |-> open, close |-> close]
  OBVIOUS
<1>2. later \in Seq([open : (close + 1)..Len(text), close : (close + 1)..Len(text)]) /\ later \in Seq(R)
  <2>1. InOrder(text, later, open)
    BY StillInOrder
  <2>2. QED
    BY <2>1 DEF InOrder
<1>3. /\ both \in Seq(R) /\ Len(both) = 1 + Len(later)
      /\ \A i \in 1..(1 + Len(later)) : both[i] = IF i <= 1 THEN first[i] ELSE later[i - 1]
  BY <1>1, <1>2, ConcatProperties
<1>4. Len(later) \in Nat /\ \A i \in 1..Len(later) : later[i] \in [open : (close + 1)..Len(text), close : (close + 1)..Len(text)]
  BY <1>2, LenProperties, ElementOfSeq
<1>. HIDE DEF both, first
<1>5. ASSUME NEW i \in 1..(1 + Len(later))
      PROVE  \/ i = 1 /\ both[i].open = open /\ both[i].close = close
             \/ i - 1 \in 1..Len(later) /\ both[i] = later[i - 1] /\ both[i].open > close
  <2>1. CASE i = 1
    BY <2>1, <1>1, <1>3
  <2>2. CASE i # 1
    <3>1. i - 1 \in 1..Len(later) /\ ~(i <= 1)
      BY <2>2, <1>4
    <3>2. both[i] = later[i - 1]
      BY <3>1, <1>3
    <3>3. later[i - 1].open \in (close + 1)..Len(text)
      BY <3>1, <1>4
    <3>4. QED
      BY <3>1, <3>2, <3>3
  <2>3. QED
    BY <2>1, <2>2
<1>6. ASSUME NEW i \in 1..Len(both)
      PROVE  both[i].open < both[i].close
  <2>1. CASE i - 1 \in 1..Len(later) /\ both[i] = later[i - 1]
    BY <2>1 DEF InOrder
  <2>2. CASE both[i].open = open /\ both[i].close = close
    BY <2>2
  <2>3. QED
    BY <2>1, <2>2, <1>3, <1>5
<1>7. ASSUME NEW i \in 1..Len(both), NEW j \in 1..Len(both), i < j
      PROVE  both[i].close < both[j].open
  <2>1. j # 1 /\ j - 1 \in 1..Len(later) /\ both[j] = later[j - 1] /\ both[j].open > close
    BY <1>3, <1>5, <1>7
  <2>2. CASE i = 1
    <3>1. both[i].close = close
      BY <2>2, <1>3, <1>5
    <3>2. both[j].open \in Int
      BY <2>1, <1>4
    <3>3. QED
      BY <3>1, <3>2, <2>1
  <2>3. CASE i # 1
    <3>1. i - 1 \in 1..Len(later) /\ both[i] = later[i - 1] /\ i - 1 < j - 1
      BY <2>3, <1>3, <1>5, <1>7
    <3>2. later[i - 1].close < later[j - 1].open
      BY <3>1, <2>1 DEF InOrder
    <3>3. QED
      BY <3>1, <3>2, <2>1
  <2>4. QED
    BY <2>2, <2>3
<1>8. QED
  BY <1>3, <1>6, <1>7 DEF InOrder, both, first

\* A fence opens at the first line after the previous one that may open one.
AfterPrevious(fences, i, start) == IF i = 1 THEN start ELSE fences[i - 1].close + 1

OpensFirst(text, fences, start) ==
    \A i \in 1..Len(fences) :
      /\ OpensFence(text[fences[i].open])
      /\ \A l \in AfterPrevious(fences, i, start)..(fences[i].open - 1) : ~OpensFence(text[l])

LEMMA LineSkipped ==
  ASSUME NEW text, Len(text) \in Nat, NEW start \in 1..Len(text), ~OpensFence(text[start]),
         NEW fences, InOrder(text, fences, start + 1), OpensFirst(text, fences, start + 1)
  PROVE  OpensFirst(text, fences, start)
<1>1. SUFFICES ASSUME NEW i \in 1..Len(fences)
               PROVE  /\ OpensFence(text[fences[i].open])
                      /\ \A l \in AfterPrevious(fences, i, start)..(fences[i].open - 1) : ~OpensFence(text[l])
  BY DEF OpensFirst
<1>2. /\ OpensFence(text[fences[i].open])
      /\ \A l \in AfterPrevious(fences, i, start + 1)..(fences[i].open - 1) : ~OpensFence(text[l])
  BY DEF OpensFirst
<1>3. fences[i].open \in Nat
  <2>1. fences[i] \in [open : (start + 1)..Len(text), close : (start + 1)..Len(text)]
    BY ElementOfSeq DEF InOrder
  <2>2. QED
    BY <2>1
<1>4. ASSUME NEW l \in AfterPrevious(fences, i, start)..(fences[i].open - 1)
      PROVE  ~OpensFence(text[l])
  <2>1. CASE i = 1 /\ l = start
    BY <2>1
  <2>2. CASE i = 1 /\ l # start
    <3>1. l \in (start + 1)..(fences[i].open - 1)
      BY <2>2, <1>3 DEF AfterPrevious
    <3>2. QED
      BY <3>1, <2>2, <1>2 DEF AfterPrevious
  <2>3. CASE i # 1
    BY <2>3, <1>2 DEF AfterPrevious
  <2>4. QED
    BY <2>1, <2>2, <2>3
<1>5. QED
  BY <1>2, <1>4

LEMMA FenceOpensFirst ==
  ASSUME NEW text, Len(text) \in Nat, NEW open \in 1..Len(text), NEW close \in (open + 1)..Len(text),
         OpensFence(text[open]),
         NEW later, InOrder(text, later, close + 1), OpensFirst(text, later, close + 1)
  PROVE  OpensFirst(text, <<[open |-> open, close |-> close]>> \o later, open)
<1>. DEFINE R == [open : Nat, close : Nat]
            first == <<[open |-> open, close |-> close]>>
            both == first \o later
<1>1. first \in Seq(R) /\ Len(first) = 1 /\ first[1] = [open |-> open, close |-> close]
  OBVIOUS
<1>2. later \in Seq(R)
  <2>1. [open : (close + 1)..Len(text), close : (close + 1)..Len(text)] \subseteq R
    OBVIOUS
  <2>2. later \in Seq([open : (close + 1)..Len(text), close : (close + 1)..Len(text)])
    BY DEF InOrder
  <2>. HIDE DEF R
  <2>3. QED
    BY <2>1, <2>2, SeqMonotonic
<1>3. /\ both \in Seq(R) /\ Len(both) = 1 + Len(later)
      /\ \A i \in 1..(1 + Len(later)) : both[i] = IF i <= 1 THEN first[i] ELSE later[i - 1]
  BY <1>1, <1>2, ConcatProperties
<1>4. Len(later) \in Nat
  BY <1>2, LenProperties
<1>. HIDE DEF both, first, R
<1>5. both[1].open = open /\ both[1].close = close
  BY <1>1, <1>3, <1>4
<1>6. ASSUME NEW i \in 2..(1 + Len(later))
      PROVE  i - 1 \in 1..Len(later) /\ both[i] = later[i - 1]
  BY <1>3, <1>4
<1>7. ASSUME NEW i \in 1..Len(both)
      PROVE  /\ OpensFence(text[both[i].open])
             /\ \A l \in AfterPrevious(both, i, open)..(both[i].open - 1) : ~OpensFence(text[l])
  <2>1. CASE i = 1
    <3>1. \A l \in AfterPrevious(both, i, open)..(both[i].open - 1) : FALSE
      BY <2>1, <1>5 DEF AfterPrevious
    <3>2. QED
      BY <2>1, <3>1, <1>5
  <2>2. CASE i # 1
    <3>1. i \in 2..(1 + Len(later))
      BY <2>2, <1>3, <1>4
    <3>2. i - 1 \in 1..Len(later) /\ both[i] = later[i - 1]
      BY <3>1, <1>6
    <3>3. AfterPrevious(both, i, open) = AfterPrevious(later, i - 1, close + 1)
      <4>1. CASE i = 2
        BY <4>1, <1>5 DEF AfterPrevious
      <4>2. CASE i # 2
        <5>1. i - 1 \in 2..(1 + Len(later)) /\ i - 1 # 1
          BY <4>2, <3>1
        <5>2. both[i - 1] = later[(i - 1) - 1]
          BY <5>1, <1>6
        <5>3. QED
          BY <5>1, <5>2, <2>2 DEF AfterPrevious
      <4>3. QED
        BY <4>1, <4>2
    <3>4. QED
      BY <3>2, <3>3 DEF OpensFirst
  <2>3. QED
    BY <2>1, <2>2
<1>8. QED
  BY <1>7 DEF OpensFirst, both, first

\* The fences of a document are closed, do not overlap, and open as soon as they
\* may: from no line on is the search the last to find others.
LEMMA FencesInOrder ==
  ASSUME NEW text \in Seq(MDLines)
  PROVE  InOrder(text, Fences(text), 1) /\ OpensFirst(text, Fences(text), 1)
<1>. DEFINE from == FencesFrom(text)
            n == Len(text) + 1
            Right(start) == InOrder(text, from[start], start) /\ OpensFirst(text, from[start], start)
            Wrong == {d \in 0..Len(text) : ~Right(n - d)}
<1>0. Len(text) \in Nat
  OBVIOUS
<1>1. SUFFICES ASSUME ~Right(1)
               PROVE  FALSE
  BY DEF Fences
<1>2. PICK d \in Wrong : \A k \in Wrong : d <= k
  <2>1. n - Len(text) = 1
    BY <1>0
  <2>2. Len(text) \in Wrong
    BY <2>1, <1>0, <1>1
  <2>3. Wrong \in SUBSET Nat /\ Wrong # {}
    BY <2>2, <1>0
  <2>. HIDE DEF Wrong
  <2>4. QED
    BY <2>3, LeastNat
<1>. DEFINE start == n - d
<1>3. d \in 0..Len(text) /\ ~Right(start) /\ start \in 1..n
  BY <1>0
<1>4. from[start] = Found(text, from, start)
  BY <1>3, FencesFound
<1>5. ASSUME NEW later \in (start + 1)..n
      PROVE  InOrder(text, from[later], later) /\ OpensFirst(text, from[later], later)
  <2>1. n - later \in 0..Len(text) /\ ~(d <= n - later) /\ n - (n - later) = later
    BY <1>5, <1>0, <1>3
  <2>2. n - later \notin Wrong
    BY <2>1, <1>2
  <2>3. QED
    BY <2>1, <2>2
<1>. HIDE DEF from
<1>6. InOrder(text, <<>>, start) /\ OpensFirst(text, <<>>, start)
  BY DEF InOrder, OpensFirst
<1>7. CASE start > Len(text)
  BY <1>7, <1>4, <1>6, <1>3 DEF Found
<1>8. CASE start \in 1..Len(text) /\ ~OpensFence(text[start])
  <2>1. from[start] = from[start + 1]
    BY <1>8, <1>4, <1>0 DEF Found
  <2>2. InOrder(text, from[start + 1], start + 1) /\ OpensFirst(text, from[start + 1], start + 1)
    BY <1>5, <1>8, <1>0
  <2>3. InOrder(text, from[start], start) /\ OpensFirst(text, from[start], start)
    <3>1. InOrder(text, from[start], start)
      BY <2>1, <2>2, <1>0, <1>3, StillInOrder
    <3>2. OpensFirst(text, from[start], start)
      BY <2>1, <2>2, <1>0, <1>8, LineSkipped
    <3>3. QED
      BY <3>1, <3>2
  <2>4. QED
    BY <2>3, <1>3
<1>9. CASE start \in 1..Len(text) /\ OpensFence(text[start]) /\ ClosingIndexes(text, start) = {}
  BY <1>9, <1>4, <1>6, <1>3, <1>0 DEF Found
<1>10. CASE start \in 1..Len(text) /\ OpensFence(text[start]) /\ ClosingIndexes(text, start) # {}
  <2>. DEFINE close == FirstOf(ClosingIndexes(text, start))
  <2>1. close \in (start + 1)..Len(text)
    BY <1>10, ClosesLater
  <2>2. from[start] = <<[open |-> start, close |-> close]>> \o from[close + 1]
    BY <1>10, <1>4, <1>0 DEF Found
  <2>3. InOrder(text, from[close + 1], close + 1) /\ OpensFirst(text, from[close + 1], close + 1)
    BY <2>1, <1>5, <1>0, <1>10
  <2>. HIDE DEF close, start
  <2>4. InOrder(text, from[start], start) /\ OpensFirst(text, from[start], start)
    BY <2>1, <2>2, <2>3, <1>0, <1>10, FenceBefore, FenceOpensFirst
  <2>5. QED
    BY <2>4, <1>3
<1>11. QED
  BY <1>7, <1>8, <1>9, <1>10, <1>3, <1>0

-----------------------------------------------------------------------------
(* What is put back together is a document again                           *)

\* The body of a closed fence is as long as the lines between its delimiters.
LEMMA BodyIsText ==
  ASSUME NEW text \in Seq(MDLines), NEW fence \in [open : 1..Len(text), close : 1..Len(text)],
         fence.open < fence.close
  PROVE  /\ BodyOf(text, fence) \in Seq(MDLines)
         /\ DOMAIN BodyOf(text, fence) = 1..(fence.close - fence.open - 1)
         /\ Len(BodyOf(text, fence)) = fence.close - fence.open - 1
<1>. DEFINE n == fence.close - fence.open - 1
<1>0. Len(text) \in Nat /\ n \in Nat
  OBVIOUS
<1>1. ASSUME NEW line \in MDLines, NEW opening \in MDLines
      PROVE  Logical(line, opening) \in MDLines
  BY DEF Logical, MDLines
<1>2. ASSUME NEW k \in 1..n
      PROVE  Logical(text[fence.open + k], text[fence.open]) \in MDLines
  <2>1. fence.open + k \in 1..Len(text) /\ fence.open \in 1..Len(text)
    BY <1>0
  <2>2. text[fence.open + k] \in MDLines /\ text[fence.open] \in MDLines
    BY <2>1, ElementOfSeq
  <2>3. QED
    BY <2>2, <1>1
<1>3. BodyOf(text, fence) \in [1..n -> MDLines]
  <2>. HIDE DEF n
  <2>1. [k \in 1..n |-> Logical(text[fence.open + k], text[fence.open])] \in [1..n -> MDLines]
    BY <1>2, Zenon
  <2>2. QED
    BY <2>1 DEF BodyOf, n
<1>. HIDE DEF n
<1>4. QED
  BY <1>0, <1>3 DEF n

LEMMA RenderedIsText ==
  ASSUME NEW text \in Seq(MDLines), NEW fence \in [open : 1..Len(text), close : 1..Len(text)],
         fence.open < fence.close, NEW new \in Seq(MDLines),
         NEW kept \in Alignments(BodyOf(text, fence), new)
  PROVE  /\ RenderedBody(text, fence, new, kept) \in Seq(MDLines)
         /\ Len(RenderedBody(text, fence, new, kept)) = Len(new)
<1>. DEFINE old == BodyOf(text, fence)
            n == fence.close - fence.open - 1
<1>0. Len(text) \in Nat /\ Len(new) \in Nat /\ DOMAIN new = 1..Len(new) /\ n \in Nat /\ Len(old) = n
  BY BodyIsText
<1>1. \A k \in 1..Len(new) : kept[k] \in 0..n
  <2>1. CASE old = new
    BY <2>1, <1>0 DEF Alignments
  <2>2. CASE old # new
    <3>1. kept \in [DOMAIN new -> 0..Len(old)]
      BY <2>2 DEF Alignments
    <3>2. QED
      BY <3>1, <1>0
  <2>3. QED
    BY <2>1, <2>2
<1>2. ASSUME NEW line \in MDLines, NEW indent \in Nat
      PROVE  [line EXCEPT !.indent = @ + indent] \in MDLines
  <2>. DEFINE texts == {Plain(word) : word \in Words} \cup FenceTexts
  <2>1. MDLines = [indent : Nat, text : texts]
    BY DEF MDLines
  <2>. HIDE DEF texts
  <2>2. line \in [indent : Nat, text : texts]
    BY <2>1
  <2>3. line.indent + indent \in Nat
    BY <2>2
  <2>4. [line EXCEPT !.indent = line.indent + indent] = [indent |-> line.indent + indent, text |-> line.text]
    BY <2>2
  <2>5. [line EXCEPT !.indent = line.indent + indent] \in [indent : Nat, text : texts]
    BY <2>2, <2>3, <2>4
  <2>6. QED
    BY <2>1, <2>5
<1>3. ASSUME NEW k \in 1..Len(new)
      PROVE  (IF kept[k] # 0 THEN text[fence.open + kept[k]]
              ELSE IF IsEmptyLine(new[k]) THEN new[k]
              ELSE [new[k] EXCEPT !.indent = @ + text[fence.open].indent]) \in MDLines
  <2>1. CASE kept[k] # 0
    <3>1. kept[k] \in 1..n
      BY <2>1, <1>1
    <3>2. fence.open + kept[k] \in 1..Len(text)
      BY <3>1, <1>0
    <3>3. QED
      BY <2>1, <3>2, ElementOfSeq
  <2>2. CASE kept[k] = 0
    <3>1. new[k] \in MDLines /\ text[fence.open] \in MDLines
      BY ElementOfSeq
    <3>2. text[fence.open].indent \in Nat
      BY <3>1 DEF MDLines
    <3>3. QED
      BY <2>2, <3>1, <3>2, <1>2
  <2>3. QED
    BY <2>1, <2>2
<1>4. RenderedBody(text, fence, new, kept) \in [1..Len(new) -> MDLines]
  BY <1>0, <1>3, Zenon DEF RenderedBody
<1>5. QED
  BY <1>0, <1>4

LEMMA FollowedIsText ==
  ASSUME NEW body \in Seq(MDLines), NEW ended, NEW rest \in Seq(MDLines), body = <<>> => ended
  PROVE  FollowedBy(body, ended, rest) \in Seq(MDLines)
<1>1. CASE ended \/ rest = <<>>
  BY <1>1, ConcatProperties DEF FollowedBy
<1>2. CASE ~(ended \/ rest = <<>>)
  <2>1. Len(body) \in 1..Len(body) /\ Len(body) \in Nat
    BY <1>2, EmptySeq
  <2>2. body[Len(body)] \in MDLines
    BY <2>1, ElementOfSeq
  <2>3. Plain("joined") \in {Plain(word) : word \in Words}
    BY MarkdownFencesAssumption
  <2>4. [body[Len(body)] EXCEPT !.text = Plain("joined")] \in MDLines
    BY <2>2, <2>3 DEF MDLines
  <2>5. \A i \in 1..(Len(body) - 1) : body[i] \in MDLines
    BY <2>1, ElementOfSeq
  <2>6. SubSeq(body, 1, Len(body) - 1) \in Seq(MDLines)
    BY <2>1, <2>5, SubSeqProperties
  <2>7. Tail(rest) \in Seq(MDLines)
    BY <1>2, HeadTailProperties
  <2>. DEFINE joined == [body[Len(body)] EXCEPT !.text = Plain("joined")]
              start == SubSeq(body, 1, Len(body) - 1)
              tail == Tail(rest)
  <2>8. FollowedBy(body, ended, rest) = start \o <<joined>> \o tail
    BY <1>2, Zenon DEF FollowedBy
  <2>. HIDE DEF joined, start, tail
  <2>9. <<joined>> \in Seq(MDLines)
    BY <2>4 DEF joined
  <2>10. start \o <<joined>> \in Seq(MDLines)
    BY <2>6, <2>9, ConcatProperties DEF start
  <2>11. QED
    BY <2>7, <2>8, <2>10, ConcatProperties DEF tail
<1>3. QED
  BY <1>1, <1>2

\* What follows the i-th fence, given what follows the next one.
Follows(text, fences, indexes, bodies, ended, rest, i) ==
    LET end == IF i = 0 THEN 1 ELSE fences[i].close
        upto == IF i = Len(fences) THEN Len(text) ELSE fences[i + 1].open
        here == SubSeq(text, end, upto)
    IN  IF i = Len(fences) THEN here
        ELSE here \o
               IF i + 1 \in indexes
               THEN FollowedBy(bodies[i + 1], ended[i + 1], rest[i + 1])
               ELSE SubSeq(text, fences[i + 1].open + 1, fences[i + 1].close - 1) \o rest[i + 1]

IsAssembly(text, fences, indexes, bodies, ended, m, rest) ==
    rest = [i \in m..Len(fences) |-> Follows(text, fences, indexes, bodies, ended, rest, i)]

LEMMA AssemblyGrows ==
  ASSUME NEW text, NEW fences, Len(fences) \in Nat, NEW indexes, NEW bodies, NEW ended,
         NEW m \in 0..Len(fences), m # Len(fences),
         NEW rest, IsAssembly(text, fences, indexes, bodies, ended, m + 1, rest)
  PROVE  \E more : IsAssembly(text, fences, indexes, bodies, ended, m, more)
<1>. DEFINE F(r, i) == Follows(text, fences, indexes, bodies, ended, r, i)
            more == [i \in m..Len(fences) |-> IF i = m THEN F(rest, m) ELSE rest[i]]
<1>1. \A i \in (m + 1)..Len(fences) : i \in m..Len(fences) /\ more[i] = rest[i]
  OBVIOUS
<1>2. ASSUME NEW i \in m..Len(fences)
      PROVE  F(more, i) = F(rest, i)
  <2>1. CASE i = Len(fences)
    BY <2>1 DEF Follows
  <2>2. CASE i # Len(fences)
    <3>1. i + 1 \in (m + 1)..Len(fences)
      BY <2>2
    <3>2. more[i + 1] = rest[i + 1]
      BY <3>1, <1>1
    <3>. HIDE DEF more
    <3>3. QED
      BY <3>2, Zenon DEF Follows
  <2>3. QED
    BY <2>1, <2>2
<1>3. ASSUME NEW i \in m..Len(fences)
      PROVE  more[i] = F(rest, i)
  <2>1. CASE i = m
    BY <2>1
  <2>2. CASE i # m
    <3>1. i \in (m + 1)..Len(fences)
      BY <2>2
    <3>2. rest[i] = F(rest, i)
      BY <3>1, Zenon DEF IsAssembly
    <3>3. QED
      BY <3>1, <3>2, <1>1
  <2>3. QED
    BY <2>1, <2>2
<1>4. more = [i \in m..Len(fences) |-> more[i]]
  OBVIOUS
<1>. HIDE DEF more
<1>5. \A i \in m..Len(fences) : more[i] = F(more, i)
  BY <1>2, <1>3
<1>6. IsAssembly(text, fences, indexes, bodies, ended, m, more)
  BY <1>4, <1>5, Zenon DEF IsAssembly
<1>7. QED
  BY <1>6

LEMMA AssemblyExists ==
  ASSUME NEW text, NEW fences, Len(fences) \in Nat, NEW indexes, NEW bodies, NEW ended
  PROVE  \E rest : IsAssembly(text, fences, indexes, bodies, ended, 0, rest)
<1>. DEFINE n == Len(fences)
            Some(m) == \E rest : IsAssembly(text, fences, indexes, bodies, ended, m, rest)
            Missing == {d \in 0..n : ~Some(n - d)}
<1>1. SUFFICES ASSUME ~Some(0)
               PROVE  FALSE
  OBVIOUS
<1>2. PICK d \in Missing : \A k \in Missing : d <= k
  <2>1. n - n = 0 /\ n \in 0..n
    OBVIOUS
  <2>2. n \in Missing
    BY <2>1, <1>1
  <2>3. Missing \in SUBSET Nat /\ Missing # {}
    BY <2>2
  <2>. HIDE DEF Missing
  <2>4. QED
    BY <2>3, LeastNat
<1>3. d \in 0..n /\ ~Some(n - d)
  OBVIOUS
<1>4. CASE d = 0
  <2>. DEFINE last == [i \in n..n |-> Follows(text, fences, indexes, bodies, ended, <<>>, i)]
  <2>1. \A i \in n..n : i = n
    OBVIOUS
  <2>2. \A i \in n..n : Follows(text, fences, indexes, bodies, ended, <<>>, i)
                          = Follows(text, fences, indexes, bodies, ended, last, i)
    <3>. HIDE DEF last
    <3>1. QED
      BY <2>1 DEF Follows
  <2>3. last = [i \in n..n |-> Follows(text, fences, indexes, bodies, ended, last, i)]
    BY <2>2, Zenon
  <2>4. n - d = n
    BY <1>4
  <2>. HIDE DEF last
  <2>5. IsAssembly(text, fences, indexes, bodies, ended, n - d, last)
    BY <2>3, <2>4 DEF IsAssembly
  <2>6. QED
    BY <2>5, <1>3
<1>5. CASE d # 0
  <2>1. d - 1 \in 0..n /\ ~(d <= d - 1)
    BY <1>5, <1>3
  <2>2. d - 1 \notin Missing
    BY <2>1, <1>2
  <2>3. PICK rest : IsAssembly(text, fences, indexes, bodies, ended, n - (d - 1), rest)
    BY <2>1, <2>2
  <2>4. n - d \in 0..n /\ n - d # n /\ n - (d - 1) = (n - d) + 1
    BY <1>5, <1>3
  <2>5. \E more : IsAssembly(text, fences, indexes, bodies, ended, n - d, more)
    BY <2>3, <2>4, AssemblyGrows
  <2>6. QED
    BY <2>5, <1>3
<1>6. QED
  BY <1>4, <1>5

LEMMA AssemblyIsText ==
  ASSUME NEW text \in Seq(MDLines), NEW fences, InOrder(text, fences, 1),
         NEW indexes, NEW bodies, NEW ended,
         \A i \in indexes : bodies[i] \in Seq(MDLines) /\ (bodies[i] = <<>> => ended[i]),
         NEW rest, IsAssembly(text, fences, indexes, bodies, ended, 0, rest)
  PROVE  \A i \in 0..Len(fences) : rest[i] \in Seq(MDLines)
<1>. DEFINE n == Len(fences)
            Wrong == {d \in 0..n : rest[n - d] \notin Seq(MDLines)}
<1>0. n \in Nat /\ Len(text) \in Nat
  BY DEF InOrder
<1>1. \A i \in 0..n : rest[i] = Follows(text, fences, indexes, bodies, ended, rest, i)
  BY Zenon DEF IsAssembly
<1>2. SUFFICES ASSUME NEW w \in 0..n, rest[w] \notin Seq(MDLines)
               PROVE  FALSE
  OBVIOUS
<1>3. PICK d \in Wrong : \A k \in Wrong : d <= k
  <2>1. n - (n - w) = w /\ n - w \in 0..n
    BY <1>0
  <2>2. n - w \in Wrong
    BY <2>1, <1>2
  <2>3. Wrong \subseteq 0..n /\ 0..n \subseteq Nat
    OBVIOUS
  <2>. HIDE DEF Wrong
  <2>4. QED
    BY <2>2, <2>3, LeastNat
<1>. DEFINE i == n - d
<1>4. d \in 0..n /\ rest[i] \notin Seq(MDLines) /\ i \in 0..n
  BY <1>0
<1>5. i # n => rest[i + 1] \in Seq(MDLines)
  <2>1. SUFFICES ASSUME i # n
                 PROVE  rest[i + 1] \in Seq(MDLines)
    OBVIOUS
  <2>2. d - 1 \in 0..n /\ ~(d <= d - 1) /\ n - (d - 1) = i + 1
    BY <2>1, <1>4, <1>0
  <2>3. d - 1 \notin Wrong
    BY <2>2, <1>3
  <2>4. QED
    BY <2>2, <2>3
<1>. HIDE DEF i
<1>6. ASSUME NEW a \in 1..(Len(text) + 1), NEW b \in 0..Len(text)
      PROVE  SubSeq(text, a, b) \in Seq(MDLines)
  <2>1. \A k \in a..b : text[k] \in MDLines
    BY <1>0, ElementOfSeq
  <2>2. QED
    BY <1>0, <2>1, SubSeqProperties
<1>7. \A k \in 1..n : fences[k].open \in 1..Len(text) /\ fences[k].close \in 1..Len(text)
  <2>1. \A k \in 1..n : fences[k] \in [open : 1..Len(text), close : 1..Len(text)]
    BY ElementOfSeq DEF InOrder
  <2>2. QED
    BY <2>1
<1>. DEFINE end == IF i = 0 THEN 1 ELSE fences[i].close
            upto == IF i = n THEN Len(text) ELSE fences[i + 1].open
            here == SubSeq(text, end, upto)
<1>8. here \in Seq(MDLines)
  <2>1. end \in 1..(Len(text) + 1)
    BY <1>0, <1>4, <1>7
  <2>2. upto \in 0..Len(text)
    <3>1. i # n => i + 1 \in 1..n
      BY <1>0, <1>4
    <3>2. QED
      BY <3>1, <1>0, <1>7
  <2>. HIDE DEF end, upto
  <2>3. QED
    BY <2>1, <2>2, <1>6
<1>9. CASE i = n
  <2>1. rest[i] = here
    BY <1>9, <1>1, <1>4 DEF Follows
  <2>2. QED
    BY <2>1, <1>8, <1>4
<1>10. CASE i # n /\ i + 1 \in indexes
  <2>1. rest[i] = here \o FollowedBy(bodies[i + 1], ended[i + 1], rest[i + 1])
    BY <1>10, <1>1, <1>4 DEF Follows
  <2>2. FollowedBy(bodies[i + 1], ended[i + 1], rest[i + 1]) \in Seq(MDLines)
    BY <1>10, <1>5, FollowedIsText
  <2>. HIDE DEF here
  <2>3. QED
    BY <2>1, <2>2, <1>8, <1>4, ConcatProperties
<1>11. CASE i # n /\ i + 1 \notin indexes
  <2>. DEFINE body == SubSeq(text, fences[i + 1].open + 1, fences[i + 1].close - 1)
  <2>1. rest[i] = here \o (body \o rest[i + 1])
    BY <1>11, <1>1, <1>4 DEF Follows
  <2>2. body \in Seq(MDLines)
    <3>1. i + 1 \in 1..n
      BY <1>11, <1>0, <1>4
    <3>2. fences[i + 1].open + 1 \in 1..(Len(text) + 1) /\ fences[i + 1].close - 1 \in 0..Len(text)
      BY <3>1, <1>7, <1>0
    <3>3. QED
      BY <3>2, <1>6
  <2>. HIDE DEF here, body
  <2>3. body \o rest[i + 1] \in Seq(MDLines)
    BY <2>2, <1>5, <1>11, ConcatProperties
  <2>4. QED
    BY <2>1, <2>3, <1>8, <1>4, ConcatProperties
<1>12. QED
  BY <1>9, <1>10, <1>11
-----------------------------------------------------------------------------
\* A document with other bodies is what an assembly has before its first fence.
LEMMA WithBodiesIs ==
  ASSUME NEW text, NEW fences, Len(fences) \in Nat, NEW indexes, NEW bodies, NEW ended
  PROVE  \E rest : /\ IsAssembly(text, fences, indexes, bodies, ended, 0, rest)
                   /\ WithBodies(text, fences, indexes, bodies, ended) = rest[0]
<1>. DEFINE rest == CHOOSE r : IsAssembly(text, fences, indexes, bodies, ended, 0, r)
<1>1. WithBodies(text, fences, indexes, bodies, ended) = rest[0]
  BY Zenon DEF WithBodies, IsAssembly, Follows
<1>2. IsAssembly(text, fences, indexes, bodies, ended, 0, rest)
  BY AssemblyExists, Zenon
<1>. HIDE DEF rest
<1>3. QED
  BY <1>1, <1>2

LEMMA AssembledIsText ==
  ASSUME NEW text \in Seq(MDLines), NEW fences, InOrder(text, fences, 1),
         NEW indexes, NEW bodies, NEW ended,
         \A i \in indexes : bodies[i] \in Seq(MDLines) /\ (bodies[i] = <<>> => ended[i])
  PROVE  WithBodies(text, fences, indexes, bodies, ended) \in Seq(MDLines)
<1>1. Len(fences) \in Nat
  BY DEF InOrder
<1>2. PICK rest : /\ IsAssembly(text, fences, indexes, bodies, ended, 0, rest)
                  /\ WithBodies(text, fences, indexes, bodies, ended) = rest[0]
  BY <1>1, WithBodiesIs
<1>3. \A i \in 0..Len(fences) : rest[i] \in Seq(MDLines)
  BY <1>2, AssemblyIsText, Zenon
<1>4. QED
  BY <1>1, <1>2, <1>3

\* Where the blocks are: at closed fences.
LEMMA FencesPlaced ==
  ASSUME NEW text \in Seq(MDLines), NEW i \in DOMAIN Fences(text)
  PROVE  /\ Fences(text)[i] \in [open : 1..Len(text), close : 1..Len(text)]
         /\ Fences(text)[i].open < Fences(text)[i].close
<1>. DEFINE F == Fences(text)
<1>1. F \in Seq([open : 1..Len(text), close : 1..Len(text)])
  BY FencesInOrder DEF InOrder
<1>2. i \in 1..Len(F)
  BY <1>1, LenProperties
<1>3. QED
  BY <1>1, <1>2, FencesInOrder, ElementOfSeq DEF InOrder

\* Every candidate is the document with bodies that are as the rules left them.
LEMMA CandidateBodies ==
  ASSUME doc \in Seq(MDLines), Formatted, DOMAIN outcomes = Targets, NEW candidate \in Candidates
  PROVE  \E bodies :
           /\ candidate = WithBodies(doc, Fences(doc), Targets, bodies, [i \in Targets |-> Sources[i].ended])
           /\ \A i \in Targets :
                /\ bodies[i] \in Seq(MDLines) /\ Len(bodies[i]) = Len(Sources[i].lines)
                /\ bodies[i] = <<>> => Sources[i].ended
<1>. DEFINE F == Fences(doc)
            Chosen == {c \in [Targets -> UNION {Alignments(Body(i), Sources[i].lines) : i \in Targets}] :
                         \A i \in Targets : c[i] \in Alignments(Body(i), Sources[i].lines)}
            Bodied(c) == [i \in Targets |-> RenderedBody(doc, F[i], Sources[i].lines, c[i])]
<1>1. PICK choice \in Chosen :
        candidate = WithBodies(doc, F, Targets, Bodied(choice), [i \in Targets |-> Sources[i].ended])
  BY DEF Candidates
<1>2. ASSUME NEW i \in Targets
      PROVE  F[i] \in [open : 1..Len(doc), close : 1..Len(doc)] /\ F[i].open < F[i].close
  BY FencesPlaced DEF Targets
<1>3. ASSUME NEW i \in Targets
      PROVE  /\ Bodied(choice)[i] \in Seq(MDLines) /\ Len(Bodied(choice)[i]) = Len(Sources[i].lines)
             /\ Bodied(choice)[i] = <<>> => Sources[i].ended
  <2>1. outcomes[i] \in OutcomesOf(Body(i), fix /\ AllParse)
    BY DEF Formatted
  <2>2. Body(i) \in Seq(MDLines)
    BY <1>2, BodyIsText DEF Body
  <2>3. Sources[i] = outcomes[i].source
    BY DEF Sources
  <2>4. /\ Sources[i].lines \in Bodies \cup {Body(i)}
        /\ Sources[i].lines = <<>> => Sources[i].ended
    BY <2>1, <2>3 DEF OutcomesOf
  <2>5. Sources[i].lines \in Seq(MDLines)
    BY <2>2, <2>4, MarkdownRewriteAssumption
  <2>6. choice[i] \in Alignments(BodyOf(doc, F[i]), Sources[i].lines)
    BY DEF Body
  <2>7. /\ RenderedBody(doc, F[i], Sources[i].lines, choice[i]) \in Seq(MDLines)
        /\ Len(RenderedBody(doc, F[i], Sources[i].lines, choice[i])) = Len(Sources[i].lines)
    BY <1>2, <2>5, <2>6, RenderedIsText
  <2>8. RenderedBody(doc, F[i], Sources[i].lines, choice[i]) = <<>> => Sources[i].lines = <<>>
    BY <2>5, <2>7, EmptySeq
  <2>9. QED
    BY <2>4, <2>7, <2>8
<1>. DEFINE bodies == Bodied(choice)
<1>4. \A i \in Targets : /\ bodies[i] \in Seq(MDLines) /\ Len(bodies[i]) = Len(Sources[i].lines)
                         /\ bodies[i] = <<>> => Sources[i].ended
  BY <1>3
<1>. HIDE DEF bodies
<1>5. QED
  BY <1>1, <1>4 DEF bodies

\* What the rules left of the blocks, put back, is a document.
LEMMA CandidatesAreText ==
  ASSUME doc \in Seq(MDLines), Formatted, DOMAIN outcomes = Targets, NEW candidate \in Candidates
  PROVE  candidate \in Seq(MDLines)
<1>. DEFINE ended == [i \in Targets |-> Sources[i].ended]
<1>1. PICK bodies :
        /\ candidate = WithBodies(doc, Fences(doc), Targets, bodies, ended)
        /\ \A i \in Targets : bodies[i] \in Seq(MDLines) /\ (bodies[i] = <<>> => Sources[i].ended)
  BY CandidateBodies
<1>2. \A i \in Targets : bodies[i] \in Seq(MDLines) /\ (bodies[i] = <<>> => ended[i])
  BY <1>1
<1>. HIDE DEF ended
<1>3. QED
  BY <1>1, <1>2, FencesInOrder, AssembledIsText

-----------------------------------------------------------------------------
(* Findings in place                                                       *)

\* The findings that are reported are those of the text that is left.
Reported ==
    \/ /\ result.source = doc /\ result.unfixed = UnfixedIn(doc)
       /\ Targets = {} \/ ~AllParse \/ ~fix
    \/ /\ result.source = doc /\ result.unfixed = InitialFindings
       /\ result.failed /\ fix /\ AllParse
    \/ /\ result.source \in Seq(MDLines) /\ KeepsShape(doc, result.source, Sources)
       /\ result.unfixed = UnfixedIn(result.source)
       /\ ~result.failed /\ fix /\ AllParse

PlacedInv ==
    /\ IInv /\ doc \in Seq(MDLines)
    /\ stage = "done" => Reported
    /\ stage # "done" => result = NoReport

LEMMA ReportingKeeps ==
  ASSUME PlacedInv, IInv', doc' = doc, fix' = fix, outcomes' = outcomes,
         stage' = "done", NEW report, result' = report,
         \/ /\ report.source = doc /\ report.unfixed = UnfixedIn(doc)
            /\ Targets = {} \/ ~AllParse \/ ~fix
         \/ /\ report.source = doc /\ report.unfixed = InitialFindings
            /\ report.failed /\ fix /\ AllParse
         \/ /\ report.source \in Seq(MDLines) /\ KeepsShape(doc, report.source, Sources)
            /\ report.unfixed = UnfixedIn(report.source)
            /\ ~report.failed /\ fix /\ AllParse
  PROVE  PlacedInv'
<1>1. Sources' = Sources
  BY SameDocument DEF Sources
<1>2. InitialFindings' = InitialFindings
  BY DEF InitialFindings
<1>3. UnfixedIn(result.source)' = UnfixedIn(report.source) /\ UnfixedIn(doc)' = UnfixedIn(doc)
  BY DEF UnfixedIn
<1>4. Reported'
  BY <1>1, <1>2, <1>3, SameDocument DEF Reported
<1>5. QED
  BY <1>4 DEF PlacedInv

LEMMA PlacedStep ==
  ASSUME PlacedInv, [Next]_vars
  PROVE  PlacedInv'
<1>0. IInv'
  BY StepKeeps DEF PlacedInv
<1>1. CASE FormatBlock
  <2>1. doc' = doc /\ stage = "format" /\ stage' = "format" /\ result' = result
    BY <1>1 DEF FormatBlock
  <2>2. QED
    BY <2>1, <1>0 DEF PlacedInv, NoReport, Report
<1>2. CASE ReturnCheck
  <2>. DEFINE report == Unchanged(UnfixedIn(doc), SomeFailed \/ ~AllParse)
  <2>1. /\ doc' = doc /\ fix' = fix /\ outcomes' = outcomes /\ stage' = "done" /\ result' = report
        /\ Targets = {} \/ ~AllParse \/ ~fix
    BY <1>2 DEF ReturnCheck, Return
  <2>2. report.source = doc /\ report.unfixed = UnfixedIn(doc)
    BY DEF Unchanged, Report
  <2>. HIDE DEF report
  <2>3. QED
    BY <2>1, <2>2, <1>0, ReportingKeeps
<1>3. ASSUME Fixing, RollBack
      PROVE  PlacedInv'
  <2>. DEFINE report == Unchanged(InitialFindings, TRUE)
  <2>1. /\ doc' = doc /\ fix' = fix /\ outcomes' = outcomes /\ stage' = "done" /\ result' = report
        /\ fix /\ AllParse
    BY <1>3 DEF RollBack, Return, Fixing
  <2>2. report.source = doc /\ report.unfixed = InitialFindings /\ report.failed
    BY DEF Unchanged, Report
  <2>. HIDE DEF report
  <2>3. QED
    BY <2>1, <2>2, <1>0, ReportingKeeps
<1>4. CASE RollBackFailed
  BY <1>3, <1>4 DEF RollBackFailed
<1>5. CASE RollBackUnsafe
  BY <1>3, <1>5 DEF RollBackUnsafe
<1>6. CASE ReturnRewrite
  <2>1. PICK candidate \in Candidates :
          /\ KeepsShape(doc, candidate, Sources)
          /\ Return(Report(candidate, CountedFixes, UnfixedIn(candidate), FALSE))
    BY <1>6 DEF ReturnRewrite
  <2>. DEFINE report == Report(candidate, CountedFixes, UnfixedIn(candidate), FALSE)
  <2>2. /\ doc' = doc /\ fix' = fix /\ outcomes' = outcomes /\ stage' = "done" /\ result' = report
        /\ fix /\ AllParse /\ Pending = {}
    BY <1>6, <2>1 DEF ReturnRewrite, Fixing, Return
  <2>3. DOMAIN outcomes = Targets
    BY <2>2 DEF Pending, AllParse, PlacedInv, IInv, Formatted
  <2>4. candidate \in Seq(MDLines)
    BY <2>3, CandidatesAreText DEF PlacedInv, IInv
  <2>5. /\ report.source = candidate /\ report.unfixed = UnfixedIn(candidate) /\ ~report.failed
    BY DEF Report
  <2>. HIDE DEF report
  <2>6. QED
    BY <2>1, <2>2, <2>4, <2>5, <1>0, ReportingKeeps
<1>7. CASE UNCHANGED vars
  <2>1. doc' = doc /\ fix' = fix /\ stage' = stage /\ outcomes' = outcomes /\ result' = result
    BY <1>7 DEF vars
  <2>2. CASE stage = "done"
    <3>1. Reported
      BY <2>2 DEF PlacedInv
    <3>2. QED
      BY <2>1, <2>2, <3>1, <1>0, ReportingKeeps DEF Reported
  <2>3. CASE stage # "done"
    BY <2>1, <2>3, <1>0 DEF PlacedInv, NoReport, Report
  <2>4. QED
    BY <2>2, <2>3
<1>8. QED
  BY <1>1, <1>2, <1>4, <1>5, <1>6, <1>7 DEF Next

LEMMA PlacedInvariant == Spec => []PlacedInv
<1>1. Init => PlacedInv
  <2>1. SUFFICES ASSUME Init
                 PROVE  PlacedInv
    OBVIOUS
  <2>2. doc \in Seq(MDLines) /\ stage = "format"
    BY <2>1, MarkdownRewriteAssumption DEF Init
  <2>3. QED
    BY <2>1, <2>2, Start DEF PlacedInv, Init
<1>2. PlacedInv /\ [Next]_vars => PlacedInv'
  BY PlacedStep
<1>3. QED
  BY <1>1, <1>2, PTL DEF Spec

\* Lines of a body are lines strictly inside its fence.
LEMMA OffsetIsInside ==
  ASSUME NEW text \in Seq(MDLines), NEW i \in DOMAIN Fences(text), NEW lines,
         lines \subseteq DOMAIN BodyOf(text, Fences(text)[i])
  PROVE  Offset(lines, Fences(text)[i]) =
           {n \in 1..Len(text) : /\ n > Fences(text)[i].open /\ n < Fences(text)[i].close
                                 /\ n - Fences(text)[i].open \in lines}
<1>. DEFINE F == Fences(text)
            fence == F[i]
<1>1. F \in Seq([open : 1..Len(text), close : 1..Len(text)])
  BY FencesInOrder DEF InOrder
<1>2. i \in 1..Len(F)
  BY <1>1, LenProperties
<1>3. fence \in [open : 1..Len(text), close : 1..Len(text)] /\ fence.open < fence.close
  BY <1>1, <1>2, FencesInOrder, ElementOfSeq DEF InOrder
<1>. HIDE DEF fence
<1>4. DOMAIN BodyOf(text, fence) = 1..(fence.close - fence.open - 1)
  BY <1>3, BodyIsText
<1>5. \A k \in lines : k \in 1..(fence.close - fence.open - 1)
  BY <1>4 DEF fence
<1>6. Len(text) \in Nat /\ fence.open \in 1..Len(text) /\ fence.close \in 1..Len(text)
  BY <1>3
<1>7. ASSUME NEW n
      PROVE  (\E k \in lines : n = fence.open + k)
               <=> n \in 1..Len(text) /\ n > fence.open /\ n < fence.close /\ n - fence.open \in lines
  <2>1. ASSUME NEW k \in lines, n = fence.open + k
        PROVE  n \in 1..Len(text) /\ n > fence.open /\ n < fence.close /\ n - fence.open \in lines
    <3>1. k \in 1..(fence.close - fence.open - 1)
      BY <1>5
    <3>2. n - fence.open = k
      BY <2>1, <3>1, <1>6
    <3>3. QED
      BY <2>1, <3>1, <3>2, <1>6
  <2>2. ASSUME n \in 1..Len(text), n - fence.open \in lines
        PROVE  \E k \in lines : n = fence.open + k
    <3>1. n = fence.open + (n - fence.open)
      BY <2>2, <1>6
    <3>2. QED
      BY <2>2, <3>1
  <2>3. QED
    BY <2>1, <2>2
<1>8. QED
  BY <1>7 DEF Offset, fence

\* Findings of the blocks of a text are at lines inside its fences.
LEMMA AllInside ==
  ASSUME NEW text \in Seq(MDLines), NEW S, S \subseteq DOMAIN Fences(text), NEW lines,
         \A i \in S : lines[i] \subseteq DOMAIN BodyOf(text, Fences(text)[i])
  PROVE  UNION {Offset(lines[i], Fences(text)[i]) : i \in S} =
           {n \in 1..Len(text) :
              \E i \in S : /\ n > Fences(text)[i].open /\ n < Fences(text)[i].close
                           /\ n - Fences(text)[i].open \in lines[i]}
<1>1. \A i \in S : Offset(lines[i], Fences(text)[i]) =
        {n \in 1..Len(text) : /\ n > Fences(text)[i].open /\ n < Fences(text)[i].close
                              /\ n - Fences(text)[i].open \in lines[i]}
  BY OffsetIsInside
<1>2. QED
  BY <1>1

\* Findings before the fixes, and without fixes those after too, are at lines
\* of the blocks of the document.
LEMMA FindingsOfDocument ==
  ASSUME PlacedInv, NEW i \in DOMAIN outcomes
  PROVE  /\ i \in DOMAIN Fences(doc)
         /\ outcomes[i].initial \subseteq DOMAIN BodyOf(doc, Fences(doc)[i])
         /\ ~(fix /\ AllParse) => outcomes[i].unfixed \subseteq DOMAIN BodyOf(doc, Fences(doc)[i])
<1>1. outcomes[i] \in OutcomesOf(Body(i), fix /\ AllParse)
  BY DEF PlacedInv, IInv, Formatted
<1>2. outcomes[i].initial \subseteq DOMAIN Body(i)
  BY <1>1 DEF OutcomesOf
<1>3. ~(fix /\ AllParse) => outcomes[i].unfixed = outcomes[i].initial
  BY <1>1 DEF OutcomesOf
<1>4. QED
  BY <1>2, <1>3 DEF Body, PlacedInv, IInv, Formatted, Targets

\* Every reported line is the line, in the document as it is left, of a finding
\* that holds for the text there, and none is forgotten
\* (formatter.py, _offset_markdown_findings and _markdown_rollback_result).
THEOREM FindingsStayInPlace == Spec => []FindingsInPlace
<1>1. ASSUME PlacedInv, stage = "done"
      PROVE  LET kept == result.source # doc \/ ~result.failed
                 found(i) == IF fix /\ AllParse /\ ~kept THEN outcomes[i].initial ELSE outcomes[i].unfixed
             IN  result.unfixed =
                   {n \in 1..Len(result.source) :
                      \E i \in DOMAIN outcomes :
                        LET fence == Fences(result.source)[i]
                        IN  n > fence.open /\ n < fence.close /\ n - fence.open \in found(i)}
  <2>. DEFINE S == DOMAIN outcomes
              kept == result.source # doc \/ ~result.failed
              found == [i \in S |-> IF fix /\ AllParse /\ ~kept THEN outcomes[i].initial ELSE outcomes[i].unfixed]
              text == result.source
              places == UNION {Offset(found[i], Fences(text)[i]) : i \in S}
  <2>1. Reported /\ doc \in Seq(MDLines)
    BY <1>1 DEF PlacedInv
  <2>2. text \in Seq(MDLines)
    BY <2>1 DEF Reported
  <2>3. /\ S \subseteq DOMAIN Fences(text)
        /\ \A i \in S : found[i] \subseteq DOMAIN BodyOf(text, Fences(text)[i])
        /\ result.unfixed = places
    <3>1. CASE result.source = doc /\ result.unfixed = UnfixedIn(doc) /\ (Targets = {} \/ ~AllParse \/ ~fix)
      <4>1. S = {} \/ ~(fix /\ AllParse)
        BY <3>1, <1>1 DEF PlacedInv, IInv, Formatted
      <4>2. \A i \in S : found[i] = outcomes[i].unfixed
        BY <4>1
      <4>3. result.unfixed = UNION {Offset(outcomes[i].unfixed, Fences(doc)[i]) : i \in S}
        BY <3>1 DEF UnfixedIn
      <4>. HIDE DEF found
      <4>4. QED
        BY <3>1, <4>1, <4>2, <4>3, <1>1, FindingsOfDocument
    <3>2. CASE result.source = doc /\ result.unfixed = InitialFindings /\ result.failed /\ fix /\ AllParse
      <4>1. \A i \in S : found[i] = outcomes[i].initial
        BY <3>2
      <4>2. result.unfixed = UNION {Offset(outcomes[i].initial, Fences(doc)[i]) : i \in S}
        BY <3>2 DEF InitialFindings
      <4>. HIDE DEF found
      <4>3. QED
        BY <3>2, <4>1, <4>2, <1>1, FindingsOfDocument
    <3>3. CASE /\ KeepsShape(doc, result.source, Sources) /\ result.unfixed = UnfixedIn(result.source)
               /\ ~result.failed /\ fix /\ AllParse
      <4>1. \A i \in S : found[i] = outcomes[i].unfixed
        BY <3>3
      <4>2. result.unfixed = UNION {Offset(outcomes[i].unfixed, Fences(text)[i]) : i \in S}
        BY <3>3 DEF UnfixedIn
      <4>3. ASSUME NEW i \in S
            PROVE  i \in DOMAIN Fences(text) /\ outcomes[i].unfixed \subseteq DOMAIN BodyOf(text, Fences(text)[i])
        <5>1. i \in Targets /\ i \in DOMAIN Fences(doc) /\ outcomes[i] \in OutcomesOf(Body(i), fix /\ AllParse)
          BY <1>1 DEF PlacedInv, IInv, Formatted, Targets
        <5>2. BodyOf(text, Fences(text)[i]) = outcomes[i].source.lines
          BY <3>3, <5>1 DEF KeepsShape, IsSource, Sources
        <5>3. outcomes[i].unfixed \subseteq DOMAIN outcomes[i].source.lines
          BY <5>1 DEF OutcomesOf
        <5>4. DOMAIN Fences(text) = 1..Len(Fences(text)) /\ DOMAIN Fences(doc) = 1..Len(Fences(doc))
          BY <2>1, <2>2, FencesInOrder, LenProperties DEF InOrder
        <5>5. Len(Fences(text)) = Len(Fences(doc))
          BY <3>3 DEF KeepsShape
        <5>6. QED
          BY <5>1, <5>2, <5>3, <5>4, <5>5
      <4>. HIDE DEF found, text
      <4>4. QED
        BY <4>1, <4>2, <4>3
    <3>4. QED
      BY <2>1, <3>1, <3>2, <3>3 DEF Reported
  <2>. HIDE DEF found, text
  <2>4. places = {n \in 1..Len(text) :
                    \E i \in S : /\ n > Fences(text)[i].open /\ n < Fences(text)[i].close
                                 /\ n - Fences(text)[i].open \in found[i]}
    BY <2>2, <2>3, AllInside
  <2>5. QED
    BY <2>3, <2>4 DEF found, text
<1>2. PlacedInv => FindingsInPlace
  BY <1>1 DEF FindingsInPlace
<1>3. QED
  BY <1>2, PlacedInvariant, PTL

-----------------------------------------------------------------------------
(* What is outside the Python blocks                                       *)

\* From line p on, the text is s.
EndsWith(text, p, s) ==
    /\ p \in 1..(Len(text) + 1) /\ Len(text) = p - 1 + Len(s)
    /\ \A k \in 1..Len(s) : text[p - 1 + k] = s[k]

LEMMA Pieces ==
  ASSUME NEW text \in Seq(MDLines), NEW a \in Seq(MDLines), NEW b \in Seq(MDLines),
         NEW r \in Seq(MDLines),
         NEW p, EndsWith(text, p, a \o (b \o r))
  PROVE  /\ \A k \in 1..Len(a) : text[p - 1 + k] = a[k]
         /\ SubSeq(text, p, p + Len(a) - 1) = a
         /\ SubSeq(text, p + Len(a), p + Len(a) + Len(b) - 1) = b
         /\ EndsWith(text, p + Len(a) + Len(b), r)
<1>. DEFINE br == b \o r
            all == a \o br
            la == Len(a)
            lb == Len(b)
<1>1. /\ br \in Seq(MDLines) /\ Len(br) = lb + Len(r)
      /\ \A k \in 1..(lb + Len(r)) : br[k] = IF k <= lb THEN b[k] ELSE r[k - lb]
  BY ConcatProperties
<1>. HIDE DEF br
<1>2. /\ Len(all) = la + Len(br)
      /\ \A k \in 1..(la + Len(br)) : all[k] = IF k <= la THEN a[k] ELSE br[k - la]
  BY <1>1, ConcatProperties
<1>3. /\ p \in 1..(Len(text) + 1) /\ Len(text) = p - 1 + Len(all)
      /\ \A k \in 1..Len(all) : text[p - 1 + k] = all[k]
  BY DEF EndsWith, br
<1>. HIDE DEF all
<1>4. la \in Nat /\ lb \in Nat /\ Len(r) \in Nat /\ Len(text) \in Nat
  BY LenProperties
<1>. HIDE DEF la, lb
<1>5. p \in Nat /\ Len(all) = la + (lb + Len(r))
  BY <1>1, <1>2, <1>3, <1>4
<1>6. ASSUME NEW k \in 1..la
      PROVE  text[p - 1 + k] = a[k]
  <2>1. k \in 1..(la + Len(br)) /\ k <= la
    BY <1>1, <1>4
  <2>2. QED
    BY <2>1, <1>2, <1>3
<1>7. ASSUME NEW k \in 1..(lb + Len(r))
      PROVE  text[p - 1 + (la + k)] = br[k]
  <2>1. la + k \in 1..(la + Len(br)) /\ ~(la + k <= la) /\ (la + k) - la = k
    BY <1>1, <1>4
  <2>2. QED
    BY <2>1, <1>2, <1>3
<1>8. ASSUME NEW k \in 1..lb
      PROVE  text[p + la + k - 1] = b[k]
  <2>1. k \in 1..(lb + Len(r)) /\ k <= lb /\ p - 1 + (la + k) = p + la + k - 1
    BY <1>4, <1>5
  <2>2. QED
    BY <2>1, <1>1, <1>7
<1>9. ASSUME NEW k \in 1..Len(r)
      PROVE  text[(p + la + lb) - 1 + k] = r[k]
  <2>1. lb + k \in 1..(lb + Len(r)) /\ ~(lb + k <= lb) /\ (lb + k) - lb = k
    BY <1>4
  <2>2. p - 1 + (la + (lb + k)) = (p + la + lb) - 1 + k
    BY <1>4, <1>5
  <2>3. QED
    BY <2>1, <2>2, <1>1, <1>7
<1>10. EndsWith(text, p + la + lb, r)
  <2>1. p + la + lb \in 1..(Len(text) + 1) /\ Len(text) = (p + la + lb) - 1 + Len(r)
    BY <1>3, <1>4, <1>5
  <2>2. QED
    BY <2>1, <1>9 DEF EndsWith
<1>11. SubSeq(text, p, p + la - 1) = a
  <2>1. \A k \in p..(p + la - 1) : text[k] \in MDLines
    BY <1>3, <1>4, <1>5, ElementOfSeq
  <2>2. /\ SubSeq(text, p, p + la - 1) \in Seq(MDLines)
        /\ Len(SubSeq(text, p, p + la - 1)) = la
        /\ \A k \in 1..((p + la - 1) - p + 1) : SubSeq(text, p, p + la - 1)[k] = text[p + k - 1]
    BY <2>1, <1>4, <1>5, SubSeqProperties
  <2>3. \A k \in 1..la : k \in 1..((p + la - 1) - p + 1) /\ p + k - 1 = p - 1 + k
    BY <1>4, <1>5
  <2>4. \A k \in 1..la : SubSeq(text, p, p + la - 1)[k] = a[k]
    BY <2>2, <2>3, <1>6
  <2>5. QED
    BY <2>2, <2>4, SeqEqual DEF la
<1>12. SubSeq(text, p + la, p + la + lb - 1) = b
  <2>1. \A k \in (p + la)..(p + la + lb - 1) : text[k] \in MDLines
    BY <1>3, <1>4, <1>5, ElementOfSeq
  <2>2. /\ SubSeq(text, p + la, p + la + lb - 1) \in Seq(MDLines)
        /\ Len(SubSeq(text, p + la, p + la + lb - 1)) = lb
        /\ \A k \in 1..((p + la + lb - 1) - (p + la) + 1) :
             SubSeq(text, p + la, p + la + lb - 1)[k] = text[p + la + k - 1]
    BY <2>1, <1>4, <1>5, SubSeqProperties
  <2>3. \A k \in 1..lb : k \in 1..((p + la + lb - 1) - (p + la) + 1)
    BY <1>4, <1>5
  <2>4. \A k \in 1..lb : SubSeq(text, p + la, p + la + lb - 1)[k] = b[k]
    BY <2>2, <2>3, <1>8
  <2>5. QED
    BY <2>2, <2>4, SeqEqual DEF lb
<1>13. QED
  BY <1>6, <1>10, <1>11, <1>12 DEF la, lb

\* The first line from start on that opens a fence.
FirstOpening(text, start, o) ==
    /\ o \in Nat /\ start <= o /\ OpensFence(text[o])
    /\ \A l \in start..(o - 1) : ~OpensFence(text[l])

\* From line p on, new has the lines e to o of the text.
SameLines(new, p, text, e, o) == \A k \in 1..(o - e + 1) : new[p - 1 + k] = text[e + k - 1]

\* Where the texts agree up to the first line that opens a fence in one of them,
\* it is the first in the other.
LEMMA SameOpening ==
  ASSUME NEW text, NEW new, NEW e \in Nat, NEW p \in Nat, NEW x \in 0..1, NEW o, NEW g,
         NEW s, s = e + x, FirstOpening(text, s, o), NEW t, t = p + x, FirstOpening(new, t, g),
         SameLines(new, p, text, e, o)
  PROVE  g = p + (o - e)
<1>. USE DEF FirstOpening, SameLines
<1>. DEFINE q == p + (o - e)
<1>1. OpensFence(new[q])
  <2>1. o - e + 1 \in 1..(o - e + 1) /\ p - 1 + (o - e + 1) = q /\ e + (o - e + 1) - 1 = o
    OBVIOUS
  <2>2. new[q] = text[o]
    BY <2>1
  <2>3. QED
    BY <2>2
<1>2. ~(q \in (p + x)..(g - 1))
  BY <1>1
<1>3. ~(g < q)
  <2>1. SUFFICES ASSUME g < q
                 PROVE  FALSE
    OBVIOUS
  <2>. DEFINE k == g - p + 1
  <2>2. k \in 1..(o - e + 1) /\ p - 1 + k = g /\ e + k - 1 \in (e + x)..(o - 1)
    BY <2>1
  <2>3. new[g] = text[e + k - 1]
    BY <2>2
  <2>4. QED
    BY <2>2, <2>3
<1>4. q \in Int /\ p + x <= q
  OBVIOUS
<1>. HIDE DEF q
<1>5. g = q
  BY <1>2, <1>3, <1>4
<1>6. QED
  BY <1>5 DEF q

\* Where a fence and the stretch after it begin: at the first line, or at the
\* closing line of a fence.
EndOf(fences, i) == IF i = 0 THEN 1 ELSE fences[i].close

\* The closing line opens no fence.
Skipped(i) == IF i = 0 THEN 0 ELSE 1

\* The abstract specification looks for fences as MarkdownFences does.
LEMMA PromiseFences ==
  ASSUME NEW text
  PROVE  Promise!Fences(text) = Fences(text)
BY DEF Promise!Fences, Fences, Promise!FencesFrom, FencesFrom, Promise!OpensFence, OpensFence,
       Promise!ClosingIndexes, ClosingIndexes, Promise!ClosesFence, ClosesFence, Promise!FirstOf, FirstOf

LEMMA PromiseBetween ==
  ASSUME NEW text, NEW i
  PROVE  Promise!Between(text, i) =
           SubSeq(text, EndOf(Fences(text), i),
                  IF i = Len(Fences(text)) THEN Len(text) ELSE Fences(text)[i + 1].open)
BY PromiseFences DEF Promise!Between, EndOf

LEMMA PromiseInside ==
  ASSUME NEW text, NEW i
  PROVE  Promise!Inside(text, i) = SubSeq(text, Fences(text)[i].open + 1, Fences(text)[i].close - 1)
BY PromiseFences DEF Promise!Inside

\* What is put back changes nothing between fences, and nothing inside those it
\* is not meant for, if the fences are found again with the bodies put there.
LEMMA OthersStay ==
  ASSUME NEW text \in Seq(MDLines), NEW new \in Seq(MDLines),
         NEW indexes, NEW bodies, NEW ended,
         \A i \in indexes : bodies[i] \in Seq(MDLines) /\ ended[i],
         new = WithBodies(text, Fences(text), indexes, bodies, ended),
         Len(Fences(new)) = Len(Fences(text)),
         \A i \in DOMAIN Fences(text) :
           Fences(new)[i].close - Fences(new)[i].open - 1 =
             IF i \in indexes THEN Len(bodies[i])
             ELSE Fences(text)[i].close - Fences(text)[i].open - 1
  PROVE  /\ \A i \in 0..Len(Fences(text)) : Promise!Between(new, i) = Promise!Between(text, i)
         /\ \A i \in DOMAIN Fences(text) : i \notin indexes => Promise!Inside(new, i) = Promise!Inside(text, i)
<1>. DEFINE O == Fences(text)
            G == Fences(new)
            n == Len(O)
            H(i) == Promise!Between(text, i)
            B(i) == IF i \in indexes THEN bodies[i] ELSE Promise!Inside(text, i)
<1>1. PICK rest : /\ IsAssembly(text, O, indexes, bodies, ended, 0, rest)
                  /\ new = rest[0]
  <2>1. Len(Fences(text)) \in Nat
    BY FencesInOrder DEF InOrder
  <2>2. QED
    BY <2>1, WithBodiesIs
<1>2. /\ InOrder(text, O, 1) /\ OpensFirst(text, O, 1)
      /\ InOrder(new, G, 1) /\ OpensFirst(new, G, 1)
  BY FencesInOrder
<1>3. n \in Nat /\ Len(G) = n /\ DOMAIN O = 1..n /\ Len(text) \in Nat /\ Len(new) \in Nat
  BY <1>2, LenProperties DEF InOrder
<1>4. \A i \in 0..n : rest[i] \in Seq(MDLines)
  BY <1>1, <1>2, AssemblyIsText
<1>5. \A i \in 1..n : /\ O[i].open \in 1..Len(text) /\ O[i].close \in 1..Len(text) /\ O[i].open < O[i].close
                      /\ G[i].open \in 1..Len(new) /\ G[i].close \in 1..Len(new) /\ G[i].open < G[i].close
  <2>1. O \in Seq([open : 1..Len(text), close : 1..Len(text)]) /\ G \in Seq([open : 1..Len(new), close : 1..Len(new)])
    BY <1>2 DEF InOrder
  <2>2. \A i \in 1..n : O[i] \in [open : 1..Len(text), close : 1..Len(text)] /\ G[i] \in [open : 1..Len(new), close : 1..Len(new)]
    BY <2>1, <1>3, ElementOfSeq
  <2>3. QED
    BY <2>2, <1>2, <1>3 DEF InOrder
<1>6. ASSUME NEW a \in 1..(Len(text) + 1), NEW b \in 0..Len(text)
      PROVE  /\ SubSeq(text, a, b) \in Seq(MDLines)
             /\ Len(SubSeq(text, a, b)) = IF a <= b THEN b - a + 1 ELSE 0
             /\ \A k \in 1..(b - a + 1) : SubSeq(text, a, b)[k] = text[a + k - 1]
  <2>1. \A k \in a..b : text[k] \in MDLines
    BY <1>3, ElementOfSeq
  <2>2. QED
    BY <1>3, <2>1, SubSeqProperties
<1>7. ASSUME NEW i \in 0..n, i # n
      PROVE  /\ i + 1 \in 1..n
             /\ H(i) = SubSeq(text, EndOf(O, i), O[i + 1].open)
             /\ H(i) \in Seq(MDLines) /\ Len(H(i)) = O[i + 1].open - EndOf(O, i) + 1
             /\ \A k \in 1..(O[i + 1].open - EndOf(O, i) + 1) : H(i)[k] = text[EndOf(O, i) + k - 1]
             /\ EndOf(O, i) \in 1..Len(text) /\ EndOf(O, i) <= O[i + 1].open
             /\ i # 0 => EndOf(O, i) < O[i + 1].open
  <2>1. i + 1 \in 1..n
    BY <1>3, <1>7
  <2>2. H(i) = SubSeq(text, EndOf(O, i), O[i + 1].open)
    BY <1>7, PromiseBetween
  <2>3. i # 0 => i \in 1..n /\ O[i].close < O[i + 1].open
    <3>1. i # 0 => i \in 1..n /\ i < i + 1
      BY <1>3
    <3>2. QED
      BY <3>1, <2>1, <1>2 DEF InOrder
  <2>4. EndOf(O, i) \in 1..Len(text) /\ EndOf(O, i) <= O[i + 1].open /\ (i # 0 => EndOf(O, i) < O[i + 1].open)
    BY <2>1, <2>3, <1>3, <1>5 DEF EndOf
  <2>5. EndOf(O, i) \in 1..(Len(text) + 1) /\ O[i + 1].open \in 0..Len(text)
    BY <2>1, <2>4, <1>3, <1>5
  <2>. HIDE DEF H, O
  <2>6. QED
    BY <2>1, <2>2, <2>4, <2>5, <1>6
<1>8. ASSUME NEW i \in 1..n
      PROVE  /\ B(i) \in Seq(MDLines)
             /\ Len(B(i)) = G[i].close - G[i].open - 1
  <2>1. CASE i \in indexes
    BY <2>1, <1>3
  <2>2. CASE i \notin indexes
    <3>1. B(i) = SubSeq(text, O[i].open + 1, O[i].close - 1)
      BY <2>2, PromiseInside
    <3>2. O[i].open + 1 \in 1..(Len(text) + 1) /\ O[i].close - 1 \in 0..Len(text)
      BY <1>3, <1>5
    <3>3. B(i) \in Seq(MDLines) /\ Len(B(i)) = IF O[i].open + 1 <= O[i].close - 1 THEN (O[i].close - 1) - (O[i].open + 1) + 1 ELSE 0
      <4>. HIDE DEF O, B
      <4>1. QED
        BY <3>1, <3>2, <1>6
    <3>4. Len(B(i)) = O[i].close - O[i].open - 1
      <4>. HIDE DEF O, B
      <4>1. QED
        BY <3>3, <1>5, <1>3
    <3>5. G[i].close - G[i].open - 1 = O[i].close - O[i].open - 1
      BY <2>2, <1>3
    <3>6. QED
      BY <3>3, <3>4, <3>5
  <2>3. QED
    BY <2>1, <2>2
<1>9. \A i \in 0..n : rest[i] = Follows(text, O, indexes, bodies, ended, rest, i)
  BY <1>1, Zenon DEF IsAssembly
<1>10. ASSUME NEW i \in 0..n, i # n
       PROVE  rest[i] = H(i) \o (B(i + 1) \o rest[i + 1])
  <2>1. CASE i + 1 \in indexes
    <3>1. FollowedBy(bodies[i + 1], ended[i + 1], rest[i + 1]) = bodies[i + 1] \o rest[i + 1]
      BY <2>1 DEF FollowedBy
    <3>2. QED
      BY <2>1, <3>1, <1>9, <1>10, PromiseBetween DEF Follows, EndOf
  <2>2. CASE i + 1 \notin indexes
    BY <2>2, <1>9, <1>10, PromiseBetween, PromiseInside DEF Follows, EndOf
  <2>3. QED
    BY <2>1, <2>2
<1>11. rest[n] = H(n)
  <2>1. n \in 0..n
    BY <1>3
  <2>2. rest[n] = SubSeq(text, EndOf(O, n), Len(text))
    BY <2>1, <1>9 DEF Follows, EndOf
  <2>3. H(n) = SubSeq(text, EndOf(O, n), Len(text))
    BY PromiseBetween
  <2>4. QED
    BY <2>2, <2>3
<1>. HIDE DEF H, B, O, G
<1>12. ASSUME NEW i \in 0..n, i # n, EndsWith(new, EndOf(G, i), rest[i])
       PROVE  /\ SubSeq(new, EndOf(G, i), G[i + 1].open) = H(i)
              /\ SubSeq(new, G[i + 1].open + 1, G[i + 1].close - 1) = B(i + 1)
              /\ EndsWith(new, EndOf(G, i + 1), rest[i + 1])
  <2>0. PICK e, p, o, g, x, c :
          /\ e = EndOf(O, i) /\ p = EndOf(G, i) /\ o = O[i + 1].open /\ g = G[i + 1].open
          /\ x = Skipped(i) /\ c = G[i + 1].close
    OBVIOUS
  <2>1. /\ i + 1 \in 1..n /\ H(i) \in Seq(MDLines) /\ Len(H(i)) = o - e + 1
        /\ \A k \in 1..(o - e + 1) : H(i)[k] = text[e + k - 1]
        /\ e \in 1..Len(text) /\ e + x <= o
    BY <2>0, <1>7, <1>12, <1>5, <1>3 DEF Skipped
  <2>2. B(i + 1) \in Seq(MDLines) /\ Len(B(i + 1)) = c - g - 1 /\ rest[i + 1] \in Seq(MDLines)
    BY <2>0, <2>1, <1>8, <1>4, <1>3
  <2>3. /\ \A k \in 1..Len(H(i)) : new[p - 1 + k] = H(i)[k]
        /\ SubSeq(new, p, p + Len(H(i)) - 1) = H(i)
        /\ SubSeq(new, p + Len(H(i)), p + Len(H(i)) + Len(B(i + 1)) - 1) = B(i + 1)
        /\ EndsWith(new, p + Len(H(i)) + Len(B(i + 1)), rest[i + 1])
    <3>1. EndsWith(new, p, H(i) \o (B(i + 1) \o rest[i + 1]))
      BY <2>0, <1>10, <1>12
    <3>2. H(i) \in Seq(MDLines) /\ B(i + 1) \in Seq(MDLines) /\ rest[i + 1] \in Seq(MDLines)
      BY <2>1, <2>2
    <3>3. QED
      BY <3>1, <3>2, Pieces, Zenon
  <2>4. p \in 1..Len(new) /\ p + x <= g /\ g \in Nat
    <3>1. i # 0 => i \in 1..n /\ i < i + 1
      BY <1>3
    <3>2. i # 0 => G[i].close < G[i + 1].open
      BY <3>1, <2>1, <1>2, <1>3 DEF InOrder
    <3>3. QED
      BY <2>0, <3>1, <3>2, <2>1, <1>5, <1>3 DEF EndOf, Skipped
  <2>5. OpensFence(text[o]) /\ \A l \in (e + x)..(o - 1) : ~OpensFence(text[l])
    <3>1. e + x = AfterPrevious(O, i + 1, 1)
      BY <2>0, <1>3, <2>1 DEF EndOf, AfterPrevious, Skipped
    <3>2. QED
      BY <2>0, <3>1, <2>1, <1>2, <1>3 DEF OpensFirst
  <2>6. OpensFence(new[g]) /\ \A l \in (p + x)..(g - 1) : ~OpensFence(new[l])
    <3>1. p + x = AfterPrevious(G, i + 1, 1)
      BY <2>0, <1>3, <2>1 DEF EndOf, AfterPrevious, Skipped
    <3>2. QED
      BY <2>0, <3>1, <2>1, <1>2, <1>3 DEF OpensFirst
  <2>7. \A k \in 1..(o - e + 1) : new[p - 1 + k] = text[e + k - 1]
    BY <2>1, <2>3
  <2>8. e \in Nat /\ p \in Nat /\ x \in 0..1 /\ o \in Nat /\ c \in Nat
    BY <2>0, <2>1, <2>4, <1>5, <1>3 DEF Skipped
  <2>9. g = p + (o - e)
    <3>1. PICK s, t : s = e + x /\ t = p + x
      OBVIOUS
    <3>2. FirstOpening(text, s, o) /\ FirstOpening(new, t, g)
      BY <3>1, <2>1, <2>4, <2>5, <2>6, <2>8 DEF FirstOpening
    <3>3. SameLines(new, p, text, e, o)
      BY <2>7 DEF SameLines
    <3>4. QED
      BY <3>1, <3>2, <3>3, <2>8, SameOpening
  <2>10. Len(H(i)) = o - e + 1 /\ Len(B(i + 1)) = c - g - 1
    BY <2>1, <2>2
  <2>11. /\ p + Len(H(i)) - 1 = g /\ p + Len(H(i)) = g + 1
         /\ p + Len(H(i)) + Len(B(i + 1)) = c
         /\ p + Len(H(i)) + Len(B(i + 1)) - 1 = c - 1
    BY <2>4, <2>8, <2>9, <2>10
  <2>12. EndOf(G, i + 1) = c
    BY <2>0, <1>3 DEF EndOf
  <2>13. /\ SubSeq(new, p, g) = H(i) /\ SubSeq(new, g + 1, c - 1) = B(i + 1)
         /\ EndsWith(new, c, rest[i + 1])
    BY <2>3, <2>11
  <2>14. QED
    BY <2>0, <2>12, <2>13
<1>13. \A i \in 0..n : EndsWith(new, EndOf(G, i), rest[i])
  <2>. DEFINE Wrong == {i \in 0..n : ~EndsWith(new, EndOf(G, i), rest[i])}
  <2>1. SUFFICES ASSUME Wrong # {}
                 PROVE  FALSE
    OBVIOUS
  <2>2. PICK i \in Wrong : \A k \in Wrong : i <= k
    <3>1. Wrong \subseteq 0..n /\ 0..n \subseteq Nat
      OBVIOUS
    <3>. HIDE DEF Wrong
    <3>2. QED
      BY <2>1, <3>1, LeastNat
  <2>3. i \in 0..n /\ ~EndsWith(new, EndOf(G, i), rest[i])
    OBVIOUS
  <2>4. CASE i = 0
    <3>1. EndsWith(new, 1, rest[0])
      BY <1>1, <1>3 DEF EndsWith
    <3>2. QED
      BY <3>1, <2>3, <2>4 DEF EndOf
  <2>5. CASE i # 0
    <3>1. i - 1 \in 0..n /\ i - 1 # n /\ ~(i <= i - 1) /\ (i - 1) + 1 = i
      BY <2>3, <2>5, <1>3
    <3>2. EndsWith(new, EndOf(G, i - 1), rest[i - 1])
      BY <3>1, <2>2
    <3>3. EndsWith(new, EndOf(G, (i - 1) + 1), rest[(i - 1) + 1])
      BY <3>1, <3>2, <1>12
    <3>4. QED
      BY <3>1, <3>3, <2>3
  <2>6. QED
    BY <2>4, <2>5
<1>14. ASSUME NEW i \in 0..n
       PROVE  Promise!Between(new, i) = H(i)
  <2>1. CASE i # n
    <3>1. Promise!Between(new, i) = SubSeq(new, EndOf(G, i), G[i + 1].open)
      BY <2>1, <1>3, PromiseBetween DEF G
    <3>2. QED
      BY <2>1, <3>1, <1>12, <1>13
  <2>2. CASE i = n
    <3>0. PICK p, h, z : p = EndOf(G, n) /\ h = H(n) /\ z = <<>>
      OBVIOUS
    <3>1. Promise!Between(new, n) = SubSeq(new, p, Len(new))
      BY <3>0, <1>3, PromiseBetween DEF G
    <3>2. EndsWith(new, p, h)
      BY <3>0, <1>3, <1>11, <1>13
    <3>3. h \in Seq(MDLines) /\ z \in Seq(MDLines)
      BY <3>0, <1>3, <1>4, <1>11
    <3>4. h = h \o (z \o z)
      BY <3>0, <3>3, ConcatEmptySeq
    <3>5. SubSeq(new, p, p + Len(h) - 1) = h
      <4>1. EndsWith(new, p, h \o (z \o z))
        BY <3>2, <3>4
      <4>2. QED
        BY <4>1, <3>3, Pieces
    <3>6. p + Len(h) - 1 = Len(new)
      <4>1. Len(h) \in Nat
        BY <3>3, LenProperties
      <4>2. QED
        BY <4>1, <3>2, <1>3 DEF EndsWith
    <3>7. QED
      BY <3>0, <3>1, <3>5, <3>6, <2>2
  <2>3. QED
    BY <2>1, <2>2
<1>15. ASSUME NEW i \in 1..n, i \notin indexes
       PROVE  Promise!Inside(new, i) = Promise!Inside(text, i)
  <2>1. i - 1 \in 0..n /\ i - 1 # n /\ (i - 1) + 1 = i
    BY <1>3
  <2>2. EndsWith(new, EndOf(G, i - 1), rest[i - 1])
    BY <2>1, <1>13
  <2>3. SubSeq(new, G[(i - 1) + 1].open + 1, G[(i - 1) + 1].close - 1) = B((i - 1) + 1)
    BY <2>1, <2>2, <1>12
  <2>4. SubSeq(new, G[i].open + 1, G[i].close - 1) = B(i)
    BY <2>1, <2>3
  <2>5. B(i) = Promise!Inside(text, i)
    BY <1>15 DEF B
  <2>6. Promise!Inside(new, i) = SubSeq(new, G[i].open + 1, G[i].close - 1)
    BY PromiseInside DEF G
  <2>7. QED
    BY <2>4, <2>5, <2>6
<1>16. QED
  BY <1>3, <1>14, <1>15 DEF H, O

\* A rewrite that was compared with the document is the same but for its Python
\* blocks.
LEMMA RewriteKeepsOthers ==
  ASSUME doc \in Seq(MDLines), Formatted, DOMAIN outcomes = Targets, NEW candidate \in Candidates,
         KeepsShape(doc, candidate, Sources)
  PROVE  Promise!SameButForPython(doc, candidate)
<1>. DEFINE ended == [i \in Targets |-> Sources[i].ended]
            O == Fences(doc)
            G == Fences(candidate)
<1>1. PICK bodies :
        /\ candidate = WithBodies(doc, Fences(doc), Targets, bodies, ended)
        /\ \A i \in Targets : bodies[i] \in Seq(MDLines) /\ Len(bodies[i]) = Len(Sources[i].lines)
  BY CandidateBodies
<1>2. candidate \in Seq(MDLines)
  BY CandidatesAreText
<1>3. Len(G) = Len(O)
  BY DEF KeepsShape
<1>4. DOMAIN G = DOMAIN O
  <2>1. DOMAIN G = 1..Len(G) /\ DOMAIN O = 1..Len(O)
    BY <1>2, FencesInOrder, LenProperties DEF InOrder
  <2>2. QED
    BY <2>1, <1>3
<1>5. ASSUME NEW i \in DOMAIN O
      PROVE  /\ Len(BodyOf(doc, O[i])) = O[i].close - O[i].open - 1
             /\ Len(BodyOf(candidate, G[i])) = G[i].close - G[i].open - 1
  BY <1>2, <1>4, FencesPlaced, BodyIsText
<1>6. ASSUME NEW i \in DOMAIN O
      PROVE  IF i \in Targets THEN IsSource(BodyOf(candidate, G[i]), Sources[i])
             ELSE BodyOf(candidate, G[i]) = BodyOf(doc, O[i])
  BY DEF KeepsShape, Sources
<1>7. Targets \subseteq DOMAIN O
  BY DEF Targets
<1>8. \A i \in Targets : bodies[i] \in Seq(MDLines) /\ ended[i]
  BY <1>1, <1>6, <1>7 DEF IsSource
<1>9. \A i \in DOMAIN O : G[i].close - G[i].open - 1 =
                             IF i \in Targets THEN Len(bodies[i]) ELSE O[i].close - O[i].open - 1
  BY <1>1, <1>5, <1>6 DEF IsSource
<1>. HIDE DEF ended
<1>10. /\ \A i \in 0..Len(O) : Promise!Between(candidate, i) = Promise!Between(doc, i)
       /\ \A i \in DOMAIN O : i \notin Targets => Promise!Inside(candidate, i) = Promise!Inside(doc, i)
  BY <1>1, <1>2, <1>3, <1>8, <1>9, OthersStay
<1>11. \A i \in DOMAIN O : ~IsTarget(doc, O[i]) => i \notin Targets
  BY DEF Targets
<1>12. QED
  BY <1>3, <1>10, <1>11, PromiseFences DEF Promise!SameButForPython, Promise!IsTarget, IsTarget

LEMMA CountIsNumber ==
  ASSUME doc \in Seq(MDLines), Formatted
  PROVE  CountedFixes \in Nat
<1>. DEFINE F == Fences(doc)
<1>1. DOMAIN F = 1..Len(F) /\ Len(F) \in Nat
  BY FencesInOrder, LenProperties DEF InOrder
<1>2. {i \in DOMAIN outcomes : outcomes[i].fixed} \subseteq 1..Len(F)
  BY <1>1 DEF Formatted, Targets
<1>3. IsFiniteSet(1..Len(F))
  BY <1>1, FS_Interval
<1>4. IsFiniteSet({i \in DOMAIN outcomes : outcomes[i].fixed})
  BY <1>2, <1>3, FS_Subset
<1>5. QED
  BY <1>4, FS_CardinalityType DEF CountedFixes

\* A step replaces the document as MarkdownDocument promises, or leaves it.
LEMMA StepReplaces ==
  ASSUME PlacedInv, PlacedInv', [Next]_vars
  PROVE  [Promise!Next]_(Promise!vars)
<1>. DEFINE document == IF stage = "done" THEN result.source ELSE doc
            claimed == result.fixed
<1>1. SUFFICES \/ document' = document /\ claimed' = claimed
               \/ /\ Promise!SameButForPython(document, document')
                  /\ claimed' \in Nat /\ (document' = document => claimed' = 0)
  BY DEF Promise!Next, Promise!Replace, Promise!vars
<1>2. CASE FormatBlock
  <2>1. doc' = doc /\ stage = "format" /\ stage' = "format" /\ result' = result
    BY <1>2 DEF FormatBlock
  <2>2. QED
    BY <2>1
<1>3. ASSUME NEW report, Return(report), report.source = doc, report.fixed = 0
      PROVE  document' = document /\ claimed' = claimed
  <2>1. doc' = doc /\ stage = "format" /\ stage' = "done" /\ result' = report
    BY <1>3 DEF Return
  <2>2. result.fixed = 0
    BY <2>1 DEF PlacedInv, NoReport, Report
  <2>3. QED
    BY <2>1, <2>2, <1>3
<1>4. CASE ReturnCheck
  BY <1>3, <1>4 DEF ReturnCheck, Unchanged, Report
<1>5. CASE RollBackFailed
  BY <1>3, <1>5 DEF RollBackFailed, RollBack, Unchanged, Report
<1>6. CASE RollBackUnsafe
  BY <1>3, <1>6 DEF RollBackUnsafe, RollBack, Unchanged, Report
<1>7. CASE ReturnRewrite
  <2>1. PICK candidate \in Candidates :
          /\ KeepsShape(doc, candidate, Sources)
          /\ Return(Report(candidate, CountedFixes, UnfixedIn(candidate), FALSE))
    BY <1>7 DEF ReturnRewrite
  <2>2. AllParse /\ Pending = {}
    BY <1>7 DEF ReturnRewrite, Fixing
  <2>3. doc \in Seq(MDLines) /\ Formatted
    BY DEF PlacedInv, IInv
  <2>4. DOMAIN outcomes = Targets
    BY <2>2, <2>3 DEF Pending, AllParse, Formatted
  <2>5. Promise!SameButForPython(doc, candidate)
    BY <2>1, <2>3, <2>4, RewriteKeepsOthers
  <2>6. CountedFixes \in Nat
    BY <2>3, CountIsNumber
  <2>7. candidate = doc => CountedFixes = 0
    BY <2>1, <2>3, NoFixNoCount
  <2>8. doc' = doc /\ stage = "format" /\ stage' = "done" /\ result'.source = candidate /\ result'.fixed = CountedFixes
    BY <2>1 DEF Return, Report
  <2>9. QED
    BY <2>5, <2>6, <2>7, <2>8
<1>8. CASE UNCHANGED vars
  BY <1>8 DEF vars
<1>9. QED
  BY <1>2, <1>4, <1>5, <1>6, <1>7, <1>8 DEF Next

\* Formatting a Markdown document implements MarkdownDocument: the document is
\* replaced at once and in its Python blocks only, or it stays and no fix is
\* claimed (formatter.py, _format_markdown_source_plan).
THEOREM RewritesImplementPromise == Spec => WholeOrNothing
<1>1. Init => Promise!Init
  BY DEF Init, Promise!Init, NoReport, Report
<1>2. PlacedInv /\ PlacedInv' /\ [Next]_vars => [Promise!Next]_(Promise!vars)
  BY StepReplaces
<1>3. QED
  BY <1>1, <1>2, PlacedInvariant, PTL DEF Spec, WholeOrNothing, Promise!Spec
=============================================================================
