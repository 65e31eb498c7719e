\* Three overlapping requests, one of each kind; the worker may die between any
\* two commits.
SPECIFICATION FairSpec
CONSTANTS
    r1 = r1
    r2 = r2
    r3 = r3
    NoJob = NoJob
    Requests = {r1, r2, r3}
    JobKind <- OneOfEach
INVARIANTS AtMostOnce LedgerMatchesEffects RunningAccounted
PROPERTIES ImplementsQueue EveryJobSettled
CHECK_DEADLOCK FALSE
