---------------------------- MODULE FixLoopProofs ----------------------------
(***************************************************************************)
(* Proofs about FixLoop, for any rules, texts, hooks and iteration limit.  *)
(*                                                                         *)
(* IInv is inductive.  FixesExplainSource and RepeatIsError need the       *)
(* record of every text reached (SeenShape): a text that came back was     *)
(* left by a fix, so the last check, which sees the same text, finds       *)
(* something fixable.  NoFixableLeft needs what the rules of an unchanged  *)
(* pass have told about the current text (ResultShape).                    *)
(***************************************************************************)
EXTENDS FixLoop, TLAPS

Explained ==
    /\ fixed = <<>> => source = initial
    /\ fixed # <<>> =>
         /\ fixed[1].from = initial
         /\ fixed[Len(fixed)].to = source
         /\ \A n \in 1..(Len(fixed) - 1) : fixed[n].to = fixed[n + 1].from

IInv == TypeOK /\ PassShape /\ Explained /\ SeenShape /\ ResultShape

\* Nothing is known of a run that has not started but its text.
LEMMA InitIInv == ASSUME Init PROVE IInv
<1>1. PICK s \in Sources : Started(s)
  BY DEF Init
<1>2. TypeOK
  <2>1. hooks \in AllHooks /\ fixing \in BOOLEAN /\ again \in BOOLEAN
    BY FixLoopAssumption DEF Init
  <2>2. initial \in Sources /\ source \in Sources /\ ending \in Endings /\ pc = "start"
    BY <1>1, FixLoopAssumption DEF Started
  <2>3. iteration \in 0..MaxFixIterations /\ rule \in 1..(RuleCount + 1)
    BY <1>1, FixLoopAssumption DEF Started
  <2>4. prepared = None /\ failed = None /\ changed \in BOOLEAN /\ stop = None
    BY <1>1 DEF Started
  <2>5. seen \in [Sources -> Nat \cup {None}]
    BY <1>1 DEF Started
  <2>6. fixed \in Seq(Fixes) /\ errors \subseteq Errors /\ unfixed \subseteq Findings
    BY <1>1 DEF Started
  <2>7. QED
    BY <2>1, <2>2, <2>3, <2>4, <2>5, <2>6 DEF TypeOK
<1>3. PassShape /\ Explained /\ SeenShape /\ ResultShape
  BY <1>1 DEF Started, PassShape, Explained, SeenShape, ResultShape
<1>4. QED
  BY <1>2, <1>3 DEF IInv

\* What a check finds has the type of findings and errors.
LEMMA CheckTypes ==
  ASSUME NEW s
  PROVE  CheckFindings(s) \subseteq Findings /\ CheckErrors(s) \subseteq Errors
<1>1. ASSUME NEW r \in Rules PROVE FindsFixable(r, s) \in BOOLEAN
  BY DEF FindsFixable
<1>2. CheckFindings(s) \subseteq Findings
  BY <1>1 DEF CheckFindings, Findings
<1>3. CheckErrors(s) \subseteq Errors
  BY DEF CheckErrors, Errors
<1>4. QED
  BY <1>2, <1>3

\* As long as hooks and line ending stay, a text is judged the same.
LEMMA SameVerdicts ==
  ASSUME UNCHANGED <<hooks, ending>>, NEW s
  PROVE  /\ FixableLeft(s)' = FixableLeft(s)
         /\ CheckFindings(s)' = CheckFindings(s)
         /\ CheckErrors(s)' = CheckErrors(s)
         /\ \A r : FindsFixable(r, s)' = FindsFixable(r, s)
         /\ \A c : PreparesAt(c, s)' = PreparesAt(c, s)
  BY DEF FixableLeft, CheckFindings, CheckErrors, FindsFixable, Finds, PreparesAt, OutcomeAt

\* Everything the last check is told, it is told about the same text.
LEMMA StartChecks ==
  ASSUME IInv, StartMisaligned \/ StartCheck
  PROVE  IInv'
<1>. USE DEF IInv
<1>1. UNCHANGED <<hooks, fixing, initial, ending, source, iteration, prepared, failed, changed,
                  seen, fixed, stop>> /\ pc = "start" /\ pc' \in {"check", "done"}
  BY DEF StartMisaligned, StartCheck, runVars, passVars
<1>2. TypeOK'
  BY DEF StartMisaligned, StartCheck, TypeOK, runVars, passVars, Errors
<1>3. PassShape'
  <2>1. prepared' # None => PreparesAt(prepared.category, prepared.source)'
    BY <1>1 DEF PassShape, PreparesAt
  <2>2. QED
    BY <1>1, <2>1 DEF PassShape, StartMisaligned, StartCheck
<1>4. Explained'
  BY <1>1 DEF Explained
<1>5. SeenShape'
  BY <1>1 DEF SeenShape
<1>6. ResultShape'
  <2>1. fixed' = <<>> /\ stop' = None
    BY <1>1 DEF PassShape
  <2>2. CASE StartMisaligned
    BY <2>1, <2>2 DEF StartMisaligned, ResultShape
  <2>3. CASE StartCheck
    BY <2>1, <2>3, FixLoopAssumption DEF StartCheck, runVars, ResultShape
  <2>4. QED
    BY <2>2, <2>3
<1>7. QED
  BY <1>2, <1>3, <1>4, <1>5, <1>6

\* The precheck of a fix run: nothing to do, or a first pass over a text that
\* has something to fix or fails.
LEMMA PrecheckKeeps ==
  ASSUME IInv, PrecheckDone \/ PrecheckFinds
  PROVE  IInv'
<1>. USE DEF IInv
<1>3. CASE PrecheckDone
  <2>1. TypeOK'
    BY <1>3, CheckTypes DEF PrecheckDone, TypeOK, runVars, passVars
  <2>2. PassShape' /\ Explained' /\ SeenShape'
    BY <1>3 DEF PrecheckDone, runVars, passVars, PassShape, Explained, SeenShape, PreparesAt
  <2>3. UNCHANGED <<hooks, ending, source, fixed, stop>>
    BY <1>3 DEF PrecheckDone, runVars
  <2>4. NothingToFix' /\ CheckFindings(source)' = CheckFindings(source)
    BY <1>3, <2>3 DEF PrecheckDone, NothingToFix, CheckErrors, CheckFindings, FixableLeft,
       FindsFixable, Finds, PreparesAt, OutcomeAt
  <2>5. ResultShape'
    <3>1. fixed' = <<>> /\ stop' = None
      BY <1>3, <2>3 DEF PrecheckDone, PassShape
    <3>2. QED
      BY <1>3, <2>4, <3>1, FixLoopAssumption DEF PrecheckDone, ResultShape
  <2>6. QED
    BY <2>1, <2>2, <2>5
<1>4. CASE PrecheckFinds
  <2>1. /\ source' = source /\ source = initial /\ fixed = <<>> /\ fixed' = <<>> /\ stop' = None
        /\ iteration' = 1 /\ pc' = "pass" /\ fixing /\ fixing' /\ rule' = 1
        /\ changed' = FALSE /\ UNCHANGED <<hooks, ending, initial>>
        /\ prepared' = None /\ failed' = None
    BY <1>4 DEF PrecheckFinds, BeginPass, runVars, PassShape
  <2>2. \A s \in Sources : seen'[s] = IF s = source THEN 0 ELSE None
    BY <1>4 DEF PrecheckFinds, PassShape, TypeOK
  <2>3. TypeOK'
    <3>1. seen' \in [Sources -> Nat \cup {None}]
      BY <1>4 DEF PrecheckFinds, TypeOK
    <3>2. iteration' \in 0..MaxFixIterations /\ rule' \in 1..(RuleCount + 1)
      BY <2>1, FixLoopAssumption
    <3>3. QED
      BY <1>4, <2>1, <3>1, <3>2 DEF PrecheckFinds, TypeOK, runVars
  <2>4. PassShape' /\ Explained'
    BY <1>4, <2>1 DEF PassShape, Explained
  <2>5. SeenShape'
    <3>1. initial \in Sources /\ None \notin Nat
      BY FixLoopAssumption DEF TypeOK
    <3>2. Len(fixed') = 0 /\ 0 # None
      BY <2>1, <3>1
    <3>3. QED
      BY <2>1, <2>2, <3>1, <3>2 DEF SeenShape
  <2>6. ResultShape'
    BY <2>1 DEF ResultShape
  <2>7. QED
    BY <2>3, <2>4, <2>5, <2>6
<1>5. QED
  BY <1>3, <1>4

\* What a rule whose context is ready does tells whether it has something
\* fixable in the current text.
LEMMA ReadyTells ==
  ASSUME IInv, InPass, Attempted, Ready
  PROVE  /\ prepared.source = source
         /\ Outcome = OutcomeAt(rule, source)
         /\ Outcome.kind \in {"clean", "reports"} => ~FindsFixable(rule, source)
         /\ Outcome.kind = "fixes" => FixableLeft(source)
<1>1. prepared.category = CategoryOf[rule] /\ prepared.source = source
  BY DEF Ready
<1>2. prepared # None
  <2>1. prepared \in [category : Categories, source : Sources]
    BY FixLoopAssumption DEF Ready, IInv, TypeOK, InPass
  <2>2. QED
    BY <2>1, FixLoopAssumption
<1>3. QED
  BY <1>1, <1>2 DEF IInv, PassShape, Outcome, FindsFixable, Finds, FixableLeft, Attempted, InPass
\* Passing over a rule, preparing its category, or failing on it: the text and
\* what was fixed stay.
LEMMA IdleKeeps ==
  ASSUME IInv, SkipRule \/ PrepareCategory \/ PreparationFails \/ RuleIdle \/ RuleFails
  PROVE  IInv'
<1>. USE DEF IInv
<1>1. /\ UNCHANGED <<hooks, fixing, again, initial, ending, pc, source, iteration, changed,
                     seen, fixed, stop, unfixed>>
      /\ InPass /\ pc = "pass"
  BY DEF SkipRule, PrepareCategory, PreparationFails, RuleIdle, RuleFails, runVars, InPass
<1>2. rule \in Rules /\ rule' \in {rule, rule + 1} /\ errors \subseteq errors'
  BY DEF SkipRule, PrepareCategory, PreparationFails, RuleIdle, RuleFails, passVars, InPass
<1>3. CategoryOf[rule] \in Categories /\ CategoryOf[rule] # None
  BY <1>2, FixLoopAssumption
<1>4. TypeOK'
  <2>1. rule' \in 1..(RuleCount + 1)
    BY <1>2, FixLoopAssumption DEF Rules
  <2>2. prepared' \in [category : Categories, source : Sources] \cup {None}
    BY <1>3 DEF TypeOK, SkipRule, PrepareCategory, PreparationFails, RuleIdle, RuleFails
  <2>3. failed' \in Categories \cup {None}
    BY <1>3 DEF TypeOK, SkipRule, PrepareCategory, PreparationFails, RuleIdle, RuleFails
  <2>4. errors' \subseteq Errors
    BY DEF TypeOK, SkipRule, PrepareCategory, PreparationFails, RuleIdle, RuleFails, Errors
  <2>5. QED
    BY <1>1, <2>1, <2>2, <2>3, <2>4 DEF TypeOK
<1>5. PassShape'
  <2>1. prepared' # None => PreparesAt(prepared.category, prepared.source)'
    BY <1>1 DEF PassShape, PreparesAt, SkipRule, PrepareCategory, PreparationFails, RuleIdle,
       RuleFails
  <2>2. failed' # None => errors' # {}
    BY DEF PassShape, SkipRule, PrepareCategory, PreparationFails, RuleIdle, RuleFails
  <2>3. QED
    BY <1>1, <2>1, <2>2 DEF PassShape
<1>6. Explained'
  BY <1>1 DEF Explained
<1>7. SeenShape'
  <2>1. \A s : FixableLeft(s)' = FixableLeft(s)
    BY <1>1, SameVerdicts
  <2>2. QED
    BY <1>1, <2>1 DEF SeenShape
<1>8. ResultShape'
  <2>1. \A r : FindsFixable(r, source)' = FindsFixable(r, source)
    BY <1>1 DEF FindsFixable, Finds, PreparesAt, OutcomeAt
  <2>2. rule' = rule + 1 /\ errors' = {} => ~FindsFixable(rule, source)
    <3>1. CASE SkipRule
      BY <1>3, <3>1 DEF SkipRule, Attempted, PassShape, FindsFixable, passVars
    <3>2. CASE RuleIdle
      BY <3>2, ReadyTells DEF RuleIdle
    <3>3. CASE PrepareCategory
      BY <1>2, <3>3 DEF PrepareCategory, Rules
    <3>4. CASE PreparationFails \/ RuleFails
      BY <3>4 DEF PreparationFails, RuleFails
    <3>5. QED
      BY <3>1, <3>2, <3>3, <3>4
  <2>3. ~changed' /\ errors' = {} => \A r \in 1..(rule' - 1) : ~FindsFixable(r, source)
    <3>1. ~changed' /\ errors' = {} => \A r \in 1..(rule - 1) : ~FindsFixable(r, source)
      BY <1>1, <1>2 DEF ResultShape
    <3>2. \A r \in 1..(rule' - 1) : r \in 1..(rule - 1) \/ (r = rule /\ rule' = rule + 1)
      <4>1. rule \in Nat
        BY <1>2, FixLoopAssumption DEF Rules
      <4>2. CASE rule' = rule
        BY <4>1, <4>2
      <4>3. CASE rule' = rule + 1
        BY <4>1, <4>3
      <4>4. QED
        BY <1>2, <4>2, <4>3
    <3>3. QED
      BY <2>2, <3>1, <3>2
  <2>4. QED
    BY <1>1, <2>1, <2>3 DEF ResultShape
<1>9. QED
  BY <1>4, <1>5, <1>6, <1>7, <1>8

\* A fix extends the chain of fixes by one that starts where it ended.
LEMMA FixKeeps ==
  ASSUME IInv, RuleFixes
  PROVE  IInv'
<1>. USE DEF IInv
<1>. DEFINE fix == [rule |-> rule, from |-> prepared.source, to |-> Outcome.to]
<1>1. /\ UNCHANGED <<hooks, fixing, again, initial, ending, pc, iteration, prepared, failed,
                     seen, stop, errors, unfixed>>
      /\ pc = "pass" /\ InPass /\ Attempted /\ Ready /\ rule \in Rules
      /\ source' = Outcome.to /\ fixed' = Append(fixed, fix) /\ changed' = TRUE
      /\ rule' = rule + 1 /\ Outcome.kind = "fixes" /\ Outcome.to # prepared.source
  BY DEF RuleFixes, runVars, InPass
<1>2. prepared.source = source /\ Outcome = OutcomeAt(rule, source) /\ FixableLeft(source)
  BY <1>1, ReadyTells
<1>3. Outcome.to \in Sources
  <2>1. <<source, ending>> \in Situations
    BY DEF TypeOK, Situations
  <2>2. OutcomeAt(rule, source) \in Outcomes
    BY <1>1, <2>1 DEF TypeOK, AllHooks, OutcomeAt
  <2>3. QED
    BY <1>1, <1>2, <2>2 DEF Outcomes
<1>4. fix \in Fixes /\ fixed \in Seq(Fixes)
  BY <1>1, <1>2, <1>3 DEF TypeOK, Fixes
<1>5. /\ fixed' \in Seq(Fixes) /\ Len(fixed') = Len(fixed) + 1 /\ Len(fixed) \in Nat
      /\ fixed'[Len(fixed) + 1] = fix /\ \A n \in 1..Len(fixed) : fixed'[n] = fixed[n]
  BY <1>1, <1>4
<1>6. TypeOK'
  <2>1. rule' \in 1..(RuleCount + 1)
    BY <1>1, FixLoopAssumption DEF Rules
  <2>2. QED
    BY <1>1, <1>3, <1>5, <2>1 DEF TypeOK
<1>7. PassShape'
  BY <1>1 DEF PassShape, PreparesAt
<1>8. Explained'
  <2>1. fixed' # <<>>
    BY <1>5
  <2>2. fixed'[1].from = initial
    <3>1. CASE fixed = <<>>
      BY <1>2, <1>5, <3>1 DEF Explained
    <3>2. CASE fixed # <<>>
      BY <1>4, <1>5, <3>2 DEF Explained
    <3>3. QED
      BY <3>1, <3>2
  <2>3. fixed'[Len(fixed')].to = source'
    BY <1>1, <1>5
  <2>4. \A n \in 1..(Len(fixed') - 1) : fixed'[n].to = fixed'[n + 1].from
    <3>1. ASSUME NEW n \in 1..Len(fixed) PROVE fixed'[n].to = fixed'[n + 1].from
      <4>1. fixed # <<>> /\ fixed'[n] = fixed[n]
        BY <1>4, <1>5, <3>1
      <4>2. CASE n = Len(fixed)
        BY <1>2, <1>5, <4>1, <4>2 DEF Explained
      <4>3. CASE n # Len(fixed)
        <5>1. n \in 1..(Len(fixed) - 1) /\ n + 1 \in 1..Len(fixed)
          BY <1>5, <3>1, <4>3
        <5>2. QED
          BY <1>5, <4>1, <5>1 DEF Explained
      <4>4. QED
        BY <4>2, <4>3
    <3>2. QED
      BY <1>5, <3>1
  <2>5. QED
    BY <1>1, <2>1, <2>2, <2>3, <2>4 DEF Explained
<1>9. SeenShape'
  <2>1. \A s : FixableLeft(s)' = FixableLeft(s)
    BY <1>1, SameVerdicts
  <2>2. ASSUME NEW s \in Sources, seen[s] # None
        PROVE  /\ seen[s] \in Nat /\ seen[s] <= Len(fixed')
               /\ seen[s] = 0 <=> s = initial
               /\ seen[s] # 0 => fixed'[seen[s]].to = s
               /\ FixableLeft(s)
    <3>1. seen[s] \in Nat /\ seen[s] <= Len(fixed)
      BY <1>1, <2>2 DEF TypeOK, SeenShape
    <3>2. seen[s] # 0 => seen[s] \in 1..Len(fixed)
      BY <1>5, <3>1
    <3>3. seen[s] # 0 => fixed'[seen[s]].to = s
      BY <1>1, <1>5, <2>2, <3>2 DEF SeenShape
    <3>4. FixableLeft(s)
      BY <1>1, <1>2, <2>2 DEF SeenShape
    <3>5. seen[s] = 0 <=> s = initial
      BY <1>1, <2>2 DEF SeenShape
    <3>6. QED
      BY <1>5, <3>1, <3>3, <3>4, <3>5
  <2>3. seen[initial] # None
    BY <1>1 DEF SeenShape
  <2>4. QED
    BY <1>1, <2>1, <2>2, <2>3 DEF SeenShape
<1>10. ResultShape'
  BY <1>1 DEF ResultShape
<1>11. QED
  BY <1>6, <1>7, <1>8, <1>9, <1>10

\* A text that cannot be aligned takes the run back to its beginning.
LEMMA MisalignedKeeps ==
  ASSUME IInv, FixMisaligned
  PROVE  IInv'
<1>. USE DEF IInv
<1>1. /\ UNCHANGED <<hooks, fixing, again, initial, ending, iteration, rule, prepared, failed,
                     changed, seen, stop>>
      /\ pc = "pass" /\ pc' = "done" /\ source' = initial /\ fixed' = <<>>
      /\ errors' = errors \cup {"alignment"} /\ unfixed' = CheckFindings(initial)
  BY DEF FixMisaligned, runVars, passVars, InPass
<1>2. TypeOK'
  BY <1>1, CheckTypes DEF TypeOK, Errors
<1>3. PassShape'
  BY <1>1 DEF PassShape, PreparesAt
<1>4. Explained' /\ SeenShape'
  BY <1>1 DEF Explained, SeenShape
<1>5. ResultShape'
  BY <1>1 DEF ResultShape
<1>6. QED
  BY <1>2, <1>3, <1>4, <1>5
\* After a pass that changed nothing every rule has told what it finds.
LEMMA StableKeeps ==
  ASSUME IInv, PassStable
  PROVE  IInv'
<1>. USE DEF IInv
<1>1. /\ UNCHANGED <<hooks, fixing, again, initial, ending, source, iteration, rule, prepared,
                     failed, changed, seen, fixed, stop, errors, unfixed>>
      /\ pc = "pass" /\ pc' = "check" /\ ~changed /\ rule = RuleCount + 1
  BY DEF PassStable, PassOver, runVars, passVars
<1>2. TypeOK'
  BY <1>1 DEF TypeOK
<1>3. PassShape'
  BY <1>1 DEF PassShape, PreparesAt
<1>4. Explained' /\ SeenShape'
  BY <1>1 DEF Explained, SeenShape
<1>5. ResultShape'
  <2>1. source = initial => fixed = <<>>
    <3>1. seen[source] = Len(fixed) /\ seen[initial] # None
      BY <1>1 DEF SeenShape
    <3>2. source = initial => Len(fixed) = 0
      BY <1>1, <3>1 DEF SeenShape, TypeOK
    <3>3. fixed \in Seq(Fixes)
      BY DEF TypeOK
    <3>4. QED
      BY <3>2, <3>3
  <2>2. errors = {} => ~FixableLeft(source)
    <3>1. errors = {} => \A r \in 1..RuleCount : ~FindsFixable(r, source)
      BY <1>1, FixLoopAssumption DEF ResultShape
    <3>2. QED
      BY <3>1 DEF FixableLeft, Rules
  <2>3. FixableLeft(source)' = FixableLeft(source)
    BY <1>1 DEF FixableLeft, FindsFixable, Finds, PreparesAt, OutcomeAt
  <2>4. stop = None /\ stop # "repeat"
    BY <1>1, FixLoopAssumption DEF PassShape
  <2>5. QED
    BY <1>1, <2>1, <2>2, <2>3, <2>4 DEF ResultShape
<1>6. QED
  BY <1>2, <1>3, <1>4, <1>5

\* The fixes kept when a text comes back are those that first led to it.
LEMMA RepeatKeeps ==
  ASSUME IInv, PassRepeats
  PROVE  IInv'
<1>. USE DEF IInv
<1>1. /\ UNCHANGED <<hooks, fixing, again, initial, ending, source, iteration, rule, prepared,
                     failed, changed, seen, errors, unfixed>>
      /\ pc = "pass" /\ pc' = "check" /\ changed /\ stop' = "repeat"
      /\ seen[source] # None /\ fixed' = SubSeq(fixed, 1, seen[source])
  BY DEF PassRepeats, PassOver, runVars, passVars, SurvivingFixes
<1>. DEFINE kept == seen[source]
<1>2. /\ source \in Sources /\ fixed \in Seq(Fixes) /\ kept \in Nat /\ kept <= Len(fixed)
      /\ kept = 0 <=> source = initial
      /\ kept # 0 => fixed[kept].to = source
      /\ FixableLeft(source)
  BY <1>1 DEF TypeOK, SeenShape
<1>3. /\ fixed' \in Seq(Fixes) /\ Len(fixed') = kept
      /\ \A n \in 1..kept : fixed'[n] = fixed[n]
  BY <1>1, <1>2
<1>4. TypeOK'
  BY <1>1, <1>3 DEF TypeOK
<1>5. PassShape'
  BY <1>1 DEF PassShape, PreparesAt
<1>6. Explained'
  <2>1. CASE kept = 0
    BY <1>1, <1>2, <1>3, <2>1 DEF Explained
  <2>2. CASE kept # 0
    <3>1. kept \in 1..Len(fixed) /\ 1 \in 1..kept /\ fixed # <<>> /\ fixed' # <<>>
      BY <1>2, <1>3, <2>2
    <3>2. fixed'[1].from = initial /\ fixed'[kept].to = source
      BY <1>2, <1>3, <3>1, <2>2 DEF Explained
    <3>3. ASSUME NEW n \in 1..(kept - 1) PROVE fixed'[n].to = fixed'[n + 1].from
      <4>1. n \in 1..kept /\ n + 1 \in 1..kept /\ n \in 1..(Len(fixed) - 1)
        BY <1>2, <3>3
      <4>2. QED
        BY <1>3, <3>1, <4>1 DEF Explained
    <3>4. QED
      BY <1>1, <1>3, <3>1, <3>2, <3>3 DEF Explained
  <2>3. QED
    BY <2>1, <2>2
<1>7. SeenShape'
  BY <1>1 DEF SeenShape
<1>8. ResultShape'
  <2>1. FixableLeft(source)' = FixableLeft(source)
    BY <1>1 DEF FixableLeft, FindsFixable, Finds, PreparesAt, OutcomeAt
  <2>2. source = initial => fixed' = <<>>
    BY <1>2, <1>3
  <2>3. QED
    BY <1>1, <1>2, <2>1, <2>2, FixLoopAssumption DEF ResultShape
<1>9. QED
  BY <1>4, <1>5, <1>6, <1>7, <1>8

\* A pass that reached a new text has left by a fix every text seen before.
LEMMA ProgressKeeps ==
  ASSUME IInv, PassProgresses
  PROVE  IInv'
<1>. USE DEF IInv
<1>1. /\ UNCHANGED <<hooks, fixing, again, initial, ending, source, fixed, errors, unfixed>>
      /\ pc = "pass" /\ changed /\ seen[source] = None
      /\ seen' = [seen EXCEPT ![source] = Len(fixed)]
  BY DEF PassProgresses, PassOver, runVars
<1>2. \/ pc' = "pass" /\ BeginPass /\ iteration < MaxFixIterations /\ stop' = stop
      \/ pc' = "check" /\ stop' = "limit" /\ UNCHANGED <<iteration, rule, prepared, failed, changed>>
  BY DEF PassProgresses, BeginPass, PassesLeft, passVars
<1>3. /\ source \in Sources /\ initial \in Sources /\ fixed \in Seq(Fixes) /\ Len(fixed) \in Nat
      /\ seen'[source] = Len(fixed) /\ \A s \in Sources : s # source => seen'[s] = seen[s]
      /\ seen' \in [Sources -> Nat \cup {None}]
  BY <1>1 DEF TypeOK
<1>4. source # initial /\ seen[initial] # None
  BY <1>1 DEF SeenShape
<1>5. fixed # <<>> /\ Len(fixed) # 0 /\ fixed[Len(fixed)].to = source
  BY <1>3, <1>4 DEF Explained
<1>6. TypeOK'
  <2>1. iteration' \in 0..MaxFixIterations /\ rule' \in 1..(RuleCount + 1)
    BY <1>2, FixLoopAssumption DEF TypeOK, BeginPass
  <2>2. /\ prepared' \in [category : Categories, source : Sources] \cup {None}
        /\ failed' \in Categories \cup {None} /\ changed' \in BOOLEAN
    BY <1>2 DEF TypeOK, BeginPass
  <2>3. QED
    BY <1>1, <1>2, <1>3, <2>1, <2>2 DEF TypeOK
<1>7. PassShape'
  <2>1. prepared' # None => PreparesAt(prepared.category, prepared.source)'
    BY <1>1, <1>2 DEF PassShape, PreparesAt, BeginPass
  <2>2. failed' # None => errors' # {}
    BY <1>1, <1>2 DEF PassShape, BeginPass
  <2>3. QED
    BY <1>1, <1>2, <2>1, <2>2 DEF PassShape
<1>8. Explained'
  BY <1>1 DEF Explained
<1>9. SeenShape'
  <2>1. CASE pc' = "check"
    BY <2>1 DEF SeenShape
  <2>2. CASE pc' = "pass"
    <3>1. changed' = FALSE
      BY <1>2, <2>2 DEF BeginPass
    <3>2. \A s : FixableLeft(s)' = FixableLeft(s)
      BY <1>1, SameVerdicts
    <3>3. ASSUME NEW s \in Sources, seen'[s] # None
          PROVE  /\ seen'[s] <= Len(fixed)
                 /\ seen'[s] = 0 <=> s = initial
                 /\ seen'[s] # 0 => fixed[seen'[s]].to = s
                 /\ FixableLeft(s) \/ s = source
      <4>1. CASE s = source
        BY <1>3, <1>4, <1>5, <4>1
      <4>2. CASE s # source
        BY <1>1, <1>3, <3>3, <4>2 DEF SeenShape
      <4>3. QED
        BY <4>1, <4>2
    <3>4. QED
      BY <1>1, <1>3, <1>4, <3>1, <3>2, <3>3 DEF SeenShape
  <2>3. QED
    BY <1>2, <2>1, <2>2
<1>10. ResultShape'
  <2>1. CASE pc' = "pass"
    <3>1. rule' = 1
      BY <1>2, <2>1 DEF BeginPass
    <3>2. QED
      BY <2>1, <3>1 DEF ResultShape
  <2>2. CASE pc' = "check"
    BY <1>1, <1>2, <1>4, <2>2, FixLoopAssumption DEF ResultShape
  <2>3. QED
    BY <1>2, <2>1, <2>2
<1>11. QED
  BY <1>6, <1>7, <1>8, <1>9, <1>10

\* The last check reports what the passes left.
LEMMA FinalCheckKeeps ==
  ASSUME IInv, FinalCheck
  PROVE  IInv'
<1>. USE DEF IInv
<1>1. /\ UNCHANGED <<hooks, fixing, again, initial, ending, source, iteration, rule, prepared,
                     failed, changed, seen, fixed, stop>>
      /\ pc = "check" /\ pc' = "done" /\ unfixed' = CheckFindings(source)
      /\ errors' = errors \cup CheckErrors(source) \cup ConvergenceErrors
  BY DEF FinalCheck, runVars, passVars
<1>2. ConvergenceErrors \subseteq Errors
  BY DEF ConvergenceErrors, TypeOK, Errors
<1>3. TypeOK'
  BY <1>1, <1>2, CheckTypes DEF TypeOK
<1>4. PassShape'
  BY <1>1 DEF PassShape, PreparesAt
<1>5. Explained' /\ SeenShape'
  BY <1>1 DEF Explained, SeenShape
<1>6. ResultShape'
  <2>1. NothingToFix' = (CheckErrors(source) = {} /\ ~FixableLeft(source))
    BY <1>1 DEF NothingToFix, CheckErrors, FixableLeft, FindsFixable, Finds, PreparesAt, OutcomeAt
  <2>2. CheckFindings(source)' = CheckFindings(source)
    BY <1>1 DEF CheckFindings, FindsFixable, Finds, PreparesAt, OutcomeAt
  <2>3. fixing /\ errors' = {} => ~FixableLeft(source)
    BY <1>1 DEF ResultShape, ConvergenceErrors
  <2>4. stop = "repeat" => errors' # {}
    BY <1>1, FixLoopAssumption DEF ResultShape, ConvergenceErrors
  <2>5. fixing' /\ errors' = {} => NothingToFix' /\ unfixed' = CheckFindings(source)'
    BY <1>1, <2>1, <2>2, <2>3
  <2>6. QED
    BY <1>1, <2>4, <2>5 DEF ResultShape
<1>7. QED
  BY <1>3, <1>4, <1>5, <1>6

\* A new run starts from the text that is there.
LEMMA RerunKeeps ==
  ASSUME IInv, Rerun
  PROVE  IInv'
<1>. USE DEF IInv
<1>1. TypeOK'
  <2>1. iteration' \in 0..MaxFixIterations /\ rule' \in 1..(RuleCount + 1)
    BY FixLoopAssumption DEF Rerun
  <2>2. ending' \in Endings /\ initial' \in Sources /\ source' \in Sources
    BY FixLoopAssumption DEF Rerun, TypeOK
  <2>3. fixed' \in Seq(Fixes) /\ seen' \in [Sources -> Nat \cup {None}]
    BY DEF Rerun
  <2>4. QED
    BY <2>1, <2>2, <2>3 DEF Rerun, TypeOK
<1>2. /\ pc' = "start" /\ initial' = source /\ source' = source /\ iteration' = 0
      /\ ending' = LineEndingOf[source] /\ prepared' = None /\ failed' = None
      /\ fixed' = <<>> /\ stop' = None /\ errors' = {} /\ seen' = [t \in Sources |-> None]
  BY DEF Rerun
<1>3. PassShape'
  BY <1>2 DEF PassShape
<1>4. Explained' /\ SeenShape' /\ ResultShape'
  BY <1>2 DEF Explained, SeenShape, ResultShape
<1>5. QED
  BY <1>1, <1>3, <1>4

\* IInv holds of every step.
LEMMA NextIInv == ASSUME IInv, [Next]_vars PROVE IInv'
<1>1. CASE UNCHANGED vars
  <2>1. UNCHANGED <<hooks, fixing, again, initial, ending, pc, source, iteration, rule, prepared,
                    failed, changed, seen, fixed, stop, errors, unfixed>>
    BY <1>1 DEF vars, runVars, passVars
  <2>2. TypeOK' /\ Explained'
    BY <2>1 DEF IInv, TypeOK, Explained
  <2>3. PassShape'
    BY <2>1 DEF IInv, PassShape, PreparesAt
  <2>4. SeenShape'
    BY <2>1, SameVerdicts DEF IInv, SeenShape
  <2>5. ResultShape'
    <3>1. /\ NothingToFix' = NothingToFix /\ FixableLeft(source)' = FixableLeft(source)
          /\ CheckFindings(source)' = CheckFindings(source)
          /\ \A r : FindsFixable(r, source)' = FindsFixable(r, source)
      BY <2>1 DEF NothingToFix, CheckErrors, CheckFindings, FixableLeft, FindsFixable, Finds,
         PreparesAt, OutcomeAt
    <3>2. QED
      BY <2>1, <3>1 DEF IInv, ResultShape
  <2>6. QED
    BY <2>2, <2>3, <2>4, <2>5 DEF IInv
<1>2. CASE Next
  BY <1>2, StartChecks, PrecheckKeeps, IdleKeeps, FixKeeps, MisalignedKeeps, StableKeeps,
     RepeatKeeps, ProgressKeeps, FinalCheckKeeps, RerunKeeps DEF Next, RunStep
<1>3. QED
  BY <1>1, <1>2
-----------------------------------------------------------------------------
(* Theorems                                                                *)

LEMMA Invariance == Spec => []IInv
<1>1. Init => IInv
  BY InitIInv
<1>2. IInv /\ [Next]_vars => IInv'
  BY NextIInv
<1>3. QED
  BY <1>1, <1>2, PTL DEF Spec

\* The state keeps its types; in particular no run makes more passes than the
\* iteration limit, however the rules undo each other (run_rule_plan).
THEOREM RunTypes == Spec => []TypeOK
<1>1. IInv => TypeOK
  BY DEF IInv
<1>2. QED
  BY <1>1, Invariance, PTL

\* The fixes a run reports lead from the text it read to the text it leaves,
\* with nothing that a cycle or a failed alignment undid (run_rule_plan).
THEOREM FixesExplain == Spec => []FixesExplainSource
<1>1. IInv => FixesExplainSource
  BY DEF IInv, Explained, ResultShape, FixesExplainSource
<1>2. QED
  BY <1>1, Invariance, PTL

\* An error-free fix run leaves nothing that the selected fixes could fix
\* (the last check of run_rule_plan).
THEOREM NothingFixableLeft == Spec => []NoFixableLeft
<1>1. IInv => NoFixableLeft
  <2>1. SUFFICES ASSUME IInv, pc = "done", fixing, errors = {}, NEW finding \in unfixed
                 PROVE  ~finding.fixable
    BY DEF NoFixableLeft
  <2>2. ~FixableLeft(source) /\ finding \in CheckFindings(source)
    BY <2>1 DEF IInv, ResultShape, NothingToFix
  <2>3. PICK r \in Rules : finding = [rule |-> r, fixable |-> FindsFixable(r, source)]
    BY <2>2 DEF CheckFindings
  <2>4. QED
    BY <2>2, <2>3 DEF FixableLeft
<1>2. QED
  BY <1>1, Invariance, PTL

\* A cycle of fixes never ends as a success: the fix that left the repeated
\* text is still to be done when the last check looks (convergence errors).
THEOREM RepeatReported == Spec => []RepeatIsError
<1>1. IInv => RepeatIsError
  BY DEF IInv, ResultShape, RepeatIsError
<1>2. QED
  BY <1>1, Invariance, PTL

\* Each change of the text is the fix of a selected rule computed from that
\* text, or the return to the text the run read (_run_fix_pass).
THEOREM FixesAreOfTheText == Spec => FixesCompose
<1>1. IInv /\ [Next]_vars => [source' # source =>
         \/ \E r \in Fixable : OutcomeAt(r, source) = [kind |-> "fixes", to |-> source']
         \/ pc' = "done" /\ source' = initial]_vars
  <2>1. SUFFICES ASSUME IInv, Next, source' # source
                 PROVE  \/ \E r \in Fixable : OutcomeAt(r, source) = [kind |-> "fixes", to |-> source']
                        \/ pc' = "done" /\ source' = initial
    BY DEF vars
  <2>2. CASE RuleFixes
    <3>1. Outcome = OutcomeAt(rule, source) /\ rule \in Fixable /\ InPass
      BY <2>1, <2>2, ReadyTells DEF RuleFixes, Attempted
    <3>2. Outcome.kind = "fixes" /\ source' = Outcome.to
      BY <2>2 DEF RuleFixes
    <3>3. OutcomeAt(rule, source) \in Outcomes
      BY <2>1, <3>1 DEF IInv, TypeOK, AllHooks, OutcomeAt, Situations, InPass
    <3>4. OutcomeAt(rule, source) = [kind |-> "fixes", to |-> source']
      BY <3>1, <3>2, <3>3 DEF Outcomes
    <3>5. QED
      BY <3>1, <3>4
  <2>3. CASE FixMisaligned
    BY <2>3 DEF FixMisaligned
  <2>4. QED
    BY <2>1, <2>2, <2>3 DEF Next, RunStep, StartMisaligned, StartCheck, PrecheckDone, PrecheckFinds,
       SkipRule, PrepareCategory, PreparationFails, RuleIdle, RuleFails, PassStable, PassRepeats,
       PassProgresses, FinalCheck, Rerun
<1>2. QED
  BY <1>1, Invariance, PTL DEF Spec, FixesCompose

-----------------------------------------------------------------------------
(* The fixed point, where the line ending does not depend on the text.     *)

LineEndingKept == \A s, t \in Sources : LineEndingOf[s] = LineEndingOf[t]

\* A repeated run finds at its start what the last check of the first found.
AgainShape ==
    again =>
        /\ fixing /\ pc \in {"start", "done"}
        /\ source = initial /\ fixed = <<>>
        /\ pc = "start" => NothingToFix

\* The step that begins the second run, and the steps of that run.
LEMMA NextAgain == ASSUME IInv, AgainShape, [Next]_vars, LineEndingKept PROVE AgainShape'
<1>1. CASE UNCHANGED vars
  BY <1>1 DEF vars, runVars, AgainShape, NothingToFix, CheckErrors, FixableLeft, FindsFixable,
     Finds, PreparesAt, OutcomeAt
<1>2. CASE Rerun
  <2>1. fixing /\ errors = {} /\ pc = "done" /\ NothingToFix
    BY <1>2 DEF Rerun, IInv, ResultShape
  <2>2. UNCHANGED <<hooks, ending, source>>
    BY <1>2 DEF Rerun, IInv, PassShape, TypeOK, LineEndingKept
  <2>3. NothingToFix'
    BY <2>1, <2>2 DEF NothingToFix, CheckErrors, FixableLeft, FindsFixable, Finds, PreparesAt,
       OutcomeAt
  <2>4. QED
    BY <1>2, <2>1, <2>3 DEF Rerun, AgainShape
<1>3. CASE RunStep
  <2>1. UNCHANGED <<again, fixing>>
    BY <1>3 DEF RunStep, StartMisaligned, StartCheck, PrecheckDone, PrecheckFinds, SkipRule,
       PrepareCategory, PreparationFails, RuleIdle, RuleFails, RuleFixes, FixMisaligned,
       PassStable, PassRepeats, PassProgresses, FinalCheck, runVars
  <2>2. CASE ~again
    BY <2>1, <2>2 DEF AgainShape
  <2>3. CASE again
    <3>1. StartMisaligned \/ PrecheckDone
      BY <1>3, <2>3 DEF AgainShape, RunStep, StartMisaligned, StartCheck, PrecheckDone,
         PrecheckFinds, SkipRule, PrepareCategory, PreparationFails, RuleIdle, RuleFails,
         RuleFixes, FixMisaligned, PassStable, PassRepeats, PassProgresses, FinalCheck,
         InPass, PassOver
    <3>2. QED
      BY <2>3, <3>1 DEF AgainShape, StartMisaligned, PrecheckDone, runVars
  <2>4. QED
    BY <2>2, <2>3
<1>4. QED
  BY <1>1, <1>2, <1>3 DEF Next

\* Where fixes leave the resolved line ending alone, repeating a successful
\* fix run changes nothing (docs_site/versioning.md, "fixed point").
THEOREM RepeatedRunIsStable ==
  ASSUME LineEndingKept
  PROVE  Spec => []FixedPoint
<1>1. Init => AgainShape
  BY DEF Init, AgainShape
<1>2. IInv /\ AgainShape /\ [Next]_vars => AgainShape'
  BY NextAgain
<1>3. AgainShape => FixedPoint
  BY DEF AgainShape, FixedPoint
<1>4. QED
  BY <1>1, <1>2, <1>3, Invariance, PTL DEF Spec
=============================================================================
