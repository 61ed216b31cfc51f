\* One turn over two candidates: a search of limited use that shares the gate, and a
\* write that depends on the call before it.
SPECIFICATION Spec
CONSTANTS
    Candidates = 2
    MaxRounds = 2
    Reads = {"search"}
    Writes = {"edit"}
    Searches = {"search"}
    Limited = {"search"}
    Dependent = {"edit"}
    CallLimit = 1
    BatchMax = 2
INVARIANTS
    WritesStayWithTheirCandidate
    ReaderIsToldTruly
    ExecutorIsSound
PROPERTIES
    NothingStartsAfterTheEnd
    WritesGetTheirGrace
    TurnEnds
