CONSTANTS
    Id = {r1}
    ManagerId = m0
    Contexts = {"main"}
    MaxCalls = 1
    MaxUnread = 1
    MaxManagement = 0
SPECIFICATION Spec
INVARIANTS NoSelfDeadlock
CHECK_DEADLOCK FALSE
