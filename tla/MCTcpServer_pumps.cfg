\* One session in asynchronous transfer, a pushthrough and a plain sample in
\* chunks of two, then end_serving and the owner's release.
CONSTANTS
    Acceptors <- MCAcceptors
    MaxSessions = 1
    Requests <- MCFeeds
    MaxBuffered = {1}
    ChunkSize = 2
    PushKinds = {"d", "f"}
    MaxPushes = 2
    SyncModes = {FALSE}
SPECIFICATION Spec
PROPERTY PumpsExit
CHECK_DEADLOCK FALSE
