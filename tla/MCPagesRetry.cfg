CONSTANTS
    i1 = i1
    i2 = i2
    Item = {i1, i2}
    Table <- MCTable
    Asked = {"collection", i1}
    NoTable = NoTable
    MaxVersions = 2
    execute_retry_count = 3
    MaxAbandoned = 1
SPECIFICATION Spec
INVARIANTS Atomic
