CONSTANTS
    Script = {a, b}
    Item = {i1, i2}
    MaxRows = 2
    MaxPhotos = 2
    MaxRuns = 3
SPECIFICATION Spec
SYMMETRY Symmetry
INVARIANTS ShownPhotosExist PhotosMatch
PROPERTIES ItemsKept
\* after MaxRuns scripts none is left to run
CHECK_DEADLOCK FALSE
