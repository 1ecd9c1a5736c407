CONSTANTS
    Words = {"empty", "joined", "code", "broken"}
    Documents <- MCDocuments
    Bodies <- MCBodies
    Unparsable <- MCUnparsable
    FindingSets <- MCFindingSets
SPECIFICATION Spec
INVARIANTS
    BlocksIntact
    FindingsInPlace
PROPERTY
    WholeOrNothing
CHECK_DEADLOCK FALSE
