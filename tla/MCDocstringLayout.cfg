CONSTANTS
    Layouts <- MCLayouts
    Setups <- MCSetups
    MaxPasses = 3
SPECIFICATION LayoutSpec
INVARIANTS
    Settles
    ContentKept
    LastSectionSpaced
CHECK_DEADLOCK FALSE
