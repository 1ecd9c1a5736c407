SPECIFICATION FairSpec
CONSTANTS
  Contents <- MCContents
  Empty = "empty"
  Engines = {e1}
  Analyses = {a1}
  Contexts = {"private"}
  Endings <- MCEndings
  ConfiguredEnding <- MCConfiguredEnding
  FirstEnding <- MCFirstEnding
  Verdict <- MCVerdict
  Rewrite <- MCRewrite
  i1 = i1
  i2 = i2
  e1 = e1
  e2 = e2
  Invocations = {i1, i2}
  Files = {f1}
  Launches <- MCFixAndCheck
  None = None
  SizeOf <- MCSizeOf
  Mtimes = {0}
  MaxDay = 0
  ProofTtlDays = 1
  Responsive = {i2}
  Free = Free
  Cleaner = Cleaner
INVARIANTS RowsProveClean
PROPERTIES CacheTransparent ProofsSurvive InvocationsFinish
