CONSTANTS
    Id = {r1}
    ManagerId = m0
    Contexts = {"own"}
    MaxCalls = 1
    MaxUnread = 1
    MaxManagement = 1
SPECIFICATION FairSpec
INVARIANTS NoTaskSlept OnlyLateCallsSlept
PROPERTIES TerminateDrains TasksHandled HaltsUnlessMissed
\* handler() returns
CHECK_DEADLOCK FALSE
