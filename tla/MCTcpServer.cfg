\* One acceptor, two client connections (shortinfo, a 1.10 streamfeed or a feed
\* request answered with 505), sync or asynchronous transfer, two plain samples.
CONSTANTS
    Acceptors <- MCAcceptors
    MaxSessions = 2
    Requests <- MCRequests
    MaxBuffered = {0, 1}
    ChunkSize = 1
    PushKinds = {"d"}
    MaxPushes = 2
    SyncModes = {FALSE, TRUE}
SPECIFICATION Spec
INVARIANT OneWriteInFlight
CHECK_DEADLOCK FALSE
