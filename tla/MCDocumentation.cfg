SPECIFICATION Spec
CONSTANTS
  Underscored <- MCUnderscored
  Dunders <- MCDunders
  Final <- MCFinal
  Cases <- MCCases
CHECK_DEADLOCK FALSE
INVARIANTS OwnersFallToOneRule ExceptionIndexAgrees
PROPERTIES AnswersSettle FixesOnlyRemoveFindings
