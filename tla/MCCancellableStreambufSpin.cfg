\* One read on a connected socket and one cancel() from another thread.
CONSTANTS
    None = None
    Ops <- MCReads
    MaxOps = 1
    InitOpen = {TRUE}
SPECIFICATION Spec
PROPERTY CloseOnlyWhenNotRunning
CHECK_DEADLOCK FALSE
