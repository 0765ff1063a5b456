\* connect() racing with cancel().
CONSTANTS
    None = None
    Ops <- MCAll
    MaxOps = 2
    InitOpen = {TRUE, FALSE}
SPECIFICATION Spec
PROPERTY CancelUnblocks
CHECK_DEADLOCK FALSE
