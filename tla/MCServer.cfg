CONSTANTS
    Slot = {s1, s2}
    MaxRequests = 2
    Optional = {"abort", "oversize", "filter", "disorder", "late"}
    Deviating = {1}
SPECIFICATION FairSpec
INVARIANTS OnlyAbortTakesObject EveryMessageHasTask AnswersAreOwn
PROPERTIES Answered ExitsAfterHalt
\* main() returns
CHECK_DEADLOCK FALSE
