CONSTANTS
    q1 = q1
    q2 = q2
    q3 = q3
    Query = {q1, q2, q3}
    Batch <- MCBatch
    HasCallback = {q2, q3}
    Cancellable = {q1}
    Instance = {1}
    NoQuery = NoQuery
    maxThreads = 2
    MaxStarts = 1
SPECIFICATION FairSpec
INVARIANTS NoQuerySlept RestOrNothing CallbacksCalled
PROPERTIES QueriesSettle TerminateEndsUnlessMissed
\* terminate() returns, or waits for a thread that slept on
CHECK_DEADLOCK FALSE
