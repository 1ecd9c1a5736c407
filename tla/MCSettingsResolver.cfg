SPECIFICATION Spec
CONSTANTS
  Wild <- MCWild
  CategoryOrder <- MCOrder
  Fields <- MCFields
  Defaults <- MCDefaults
  NestedFields <- MCNested
  EffectFields = {"docstring_convention"}
  Invalid = Invalid
  Suffix <- MCSuffix
  Directories <- MCDirectories
  Files <- MCFiles
  Contents <- MCContents
  Absent = Absent
  Broken = Broken
  Invocations <- MCInvocations
  Nothing = Nothing
CHECK_DEADLOCK FALSE
INVARIANTS LookupsAreIndependent OneSnapshot StrongestOriginWins SelectionIsFair
