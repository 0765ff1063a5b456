\* connect, reads and writes, the socket open or closed at the start, and one cancel() from another thread.
CONSTANTS
    None = None
    Ops <- MCAll
    MaxOps = 3
    InitOpen = {TRUE, FALSE}
SPECIFICATION Spec
INVARIANT ReadSuccessMeansData
PROPERTY CancelReturns
PROPERTY ImplementsCancellableStream
CHECK_DEADLOCK FALSE
