SPECIFICATION Spec
CONSTANTS
  Contents <- MCContents
  Empty = "empty"
  Engines = {e1, e2}
  Analyses = {a1}
  Contexts = {"private", "public"}
  Endings <- MCEndings
  ConfiguredEnding <- MCConfiguredEnding
  FirstEnding <- MCFirstEnding
  Verdict <- MCVerdict
  Rewrite <- MCRewrite
  i1 = i1
  i2 = i2
  e1 = e1
  e2 = e2
  Invocations = {i1}
  Files = {f1}
  Launches <- MCOneByOne
  None = None
  SizeOf <- MCSizeOf
  Mtimes = {0, 1}
  MaxDay = 2
  ProofTtlDays = 1
  Responsive = {}
  Free = Free
  Cleaner = Cleaner
CONSTRAINT OneWorldOrTheOther
PROPERTIES CacheTransparent ProofsSurvive
