CONSTANTS
    Script = {a}
    Item = {i1, i2}
    MaxRows = 2
    MaxPhotos = 1
    MaxRuns = 1
SPECIFICATION Spec
INVARIANTS MovesMeetNobody
\* after MaxRuns scripts none is left to run
CHECK_DEADLOCK FALSE
