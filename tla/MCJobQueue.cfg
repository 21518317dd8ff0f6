CONSTANTS
    Job = {j1, j2, j3}
    Caller = {c1, c2}
    Runner = runner
    Nobody = nobody
SPECIFICATION FairSpec
INVARIANTS Conserved NoLostWakeup
PROPERTIES JobsComplete Implements
\* the queue stops: run() returns and its callers leave
CHECK_DEADLOCK FALSE
