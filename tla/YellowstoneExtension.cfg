SPECIFICATION FairSpec
CONSTANTS
    BasePrograms <- MCBase
    Extensions <- MCExtensions
    BlockChoices <- ExtensionBlocks
    ReplayWindow = 1
    PageSize = 2
    AutoDiscovery = TRUE
    MaxSlot = 4
    MaxCrashes = 1
    MaxErrors = 0
INVARIANT ScopeIsCovered
PROPERTY EventuallyCaughtUp
