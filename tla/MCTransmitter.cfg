CONSTANTS
    ChunkSize = 512
    RequestId = {1}
    MaxConnections = 2
    MaxRequests = 3
    Lengths = {20, 700}
    MaxShorts = 3
    Cuts = {12}
SPECIFICATION FairSpec
INVARIANTS OwnOutput NothingLost BufferTells ForgottenWereHungUp
PROPERTIES Drained
\* the web server may have no more to ask
CHECK_DEADLOCK FALSE
