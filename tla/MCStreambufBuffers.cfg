CONSTANTS
    Stream <- MCStream
    GetCap = 2
    PutCap = 1
    Counts = {1, 3}
    Chars = {"a", "b"}
    MaxCalls = 4
    EOF = EOF
SPECIFICATION Spec
INVARIANT ReadsFollowStream
INVARIANT WritesFollowPuts
PROPERTY CloseFlushes
CHECK_DEADLOCK FALSE
