\* Four requests one after the other, with two operations and a fault, or three at
\* once, with one operation; a history compacted as soon as it holds an exchange.
SPECIFICATION Spec
CONSTANTS
    Modes = {"queue", "spawn"}
    Turns = 4
    MaxActs = 2
    MaxFaults = 1
    Spawned = 3
    SpawnedActs = 1
    SpawnedExpired = 0
    SpawnedFaults = 0
    HistoryLimit = 1
    KeepLimit = 0
    TitleFrom = 1
    TitleTo = 1
INVARIANTS
    NothingIsLeftRunning
    ConfirmedRunsOnce
    HistoryIsKept
    ExpiredIsDropped
PROPERTIES
    LateWritesTakeNothing
CHECK_DEADLOCK FALSE
