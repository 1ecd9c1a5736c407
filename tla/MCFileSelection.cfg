SPECIFICATION Spec
CONSTANTS
    Directories <- MCDirectories
    Paths <- MCPaths
    Files <- MCFiles
    Missing = {"gone"}
    SubDirectories <- MCSubDirectories
    Entries <- MCEntries
    Links = {"r/link"}
    Physical <- MCPhysical
    DisplayPath <- MCDisplayPath
    Score <- MCScore
    CommandLines <- MCCommandLines
    Policies <- MCPolicies
INVARIANTS
    SelectsAsDocumented
    SelectedOnce
    ClearestSpellingKept
CHECK_DEADLOCK FALSE
