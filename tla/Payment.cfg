CONSTANTS
    MaxRows = 3
    PageSize = 1
    RecentSize = 2
    MaxPages = 3
    Lookups = 1
    BalancePages = 2
    Window = 1
    LogsBack = 1
    HeadsTTL = 0
    RecentTTL = 0
    HistoryTTL = 1
    AlertWindow = 2
    MaxReorg = 1
    SerialTokens = {"mimic"}
    Sanctioned = {}
    Poisoners = {"else"}
    Deployers = {}
    Parties <- MCParties
    Shape <- MCShape
    SafeDepth <- MCSafeDepth
    FinalDepth <- MCFinalDepth
    Scenes <- MCScenes
SPECIFICATION Spec
INVARIANTS FinalIsFinal HistoryExact LatestSeen LookalikesFlagged
CHECK_DEADLOCK FALSE
