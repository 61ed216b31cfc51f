\* Three entries, of which one is remembered and one pushed in a scan, with
\* two changes of the feed, a fault and a subscription made twice.
SPECIFICATION Spec
CONSTANTS
    Items = {"a", "b", "c"}
    Offered = {"a", "b"}
    Retain = 1
    Limit = 1
    MaxRev = 2
    MaxTime = 2
    MaxEdits = 2
    MaxSubs = 2
    MaxFaults = 1
INVARIANTS
    TableIsSound
    SeenIsSound
PROPERTIES
    PendingIsKept
    EveryEntryIsAsked
CHECK_DEADLOCK FALSE
