SPECIFICATION Spec
CONSTANTS
    BasePrograms <- MCBase
    Extensions <- MCExtensions
    BlockChoices <- OutageBlocks
    ReplayWindow = 1
    PageSize = 2
    AutoDiscovery = TRUE
    MaxSlot = 4
    MaxCrashes = 1
    MaxErrors = 1
INVARIANTS
    TypeOK
    NothingSkipped
    WindowIsSound
PROPERTIES
    ImplementsOrderedIngest
    CursorsAdvance
