\* Requests that overlap: three of them, and one operation to confirm.
SPECIFICATION Spec
CONSTANTS
    Modes = {"spawn"}
    Turns = 3
    Spawned = 3
    SpawnedActs = 1
    SpawnedExpired = 0
    SpawnedFaults = 0
    MaxActs = 1
    MaxFaults = 0
    HistoryLimit = 5
    KeepLimit = 1
    TitleFrom = 5
    TitleTo = 5
INVARIANT ExecutedOnce
CHECK_DEADLOCK FALSE
