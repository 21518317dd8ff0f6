CONSTANTS
    Slot = {s1}
    MaxRequests = 1
    Optional = {"abort"}
    Deviating = {1}
SPECIFICATION Spec
INVARIANTS JobKeepsItsObject
CHECK_DEADLOCK FALSE
