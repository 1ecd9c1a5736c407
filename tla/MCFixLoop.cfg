SPECIFICATION FairSpec
CONSTANTS
  A = A
  B = B
  C = C
  Sources <- MCSources
  Endings = {"lf"}
  LineEndingOf <- MCLineEndingOf
  RuleCount = 3
  Categories = {"PCF", "PDF"}
  CategoryOf <- MCCategoryOf
  Fixable = {1, 2, 3}
  MaxFixIterations = 2
  Hooks <- MCHooks
  None = None
CHECK_DEADLOCK FALSE
INVARIANTS FixesExplainSource RepeatIsError FixedPoint
PROPERTIES FixesCompose Terminates
