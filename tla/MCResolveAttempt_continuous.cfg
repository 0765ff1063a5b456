\* resolve_continuous with forget_after = 1: the attempt runs until
\* cancelled while results() prunes the entries; stray datagrams arrive.
CONSTANTS
    u1 = u1  u2 = u2  ux = ux  a1 = a1  a2 = a2  b1 = b1  uc = uc  m4 = m4  bc = bc
    None = None
    Forever = Forever
    Uids <- MCUids
    V4Addrs <- MCV4
    V6Addrs = {}
    Ucast = uc
    HasUnicast = TRUE
    McastSenders <- MCMcastOne
    Broadcast = None
    Reach <- MCReachOne
    RecvFamily = "v4"
    Mode = "continuous"
    Minimum = 0
    MinimumTime = 1
    Timeout = Forever
    UcastWait = 1
    McastWait = 1
    UcastRtt = 1
    ForgetAfter = 1
    MaxTime = 3
    MaxCancels = 1
    StrayFrom <- MCStray
SPECIFICATION Spec
INVARIANT TypeOK
PROPERTY ResultsFrozenOnceCancelled
CHECK_DEADLOCK FALSE
