\* The same instance, where the feed offers more entries than the retention keeps.
SPECIFICATION Spec
CONSTANTS
    Items = {"a", "b", "c"}
    Offered = {"a", "b"}
    Retain = 1
    Limit = 1
    MaxRev = 2
    MaxTime = 2
    MaxEdits = 2
    MaxSubs = 2
    MaxFaults = 1
INVARIANTS
    HistoryIsQuiet
CHECK_DEADLOCK FALSE
