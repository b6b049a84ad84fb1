SPECIFICATION Spec
CONSTANTS
    BasePrograms <- MCBase
    Extensions <- MCExtensions
    BlockChoices <- PairBlocks
    ReplayWindow = 1
    PageSize = 2
    AutoDiscovery = TRUE
    MaxSlot = 4
    MaxCrashes = 0
    MaxErrors = 1
INVARIANTS
    FailedSlotIsReplayed
