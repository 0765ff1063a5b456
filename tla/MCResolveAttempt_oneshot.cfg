\* resolve_oneshot(query, minimum = 2, timeout = 2, minimum_time = 1) with
\* known peers and one IPv4 multicast sender, IPv4-only receive socket; io_.run() returns.
CONSTANTS
    u1 = u1  u2 = u2  ux = ux  a1 = a1  a2 = a2  b1 = b1  uc = uc  m4 = m4  bc = bc
    None = None
    Forever = Forever
    Uids <- MCUids
    V4Addrs <- MCV4
    V6Addrs = {}
    Ucast = uc
    HasUnicast = TRUE
    McastSenders <- MCMcastOne
    Broadcast = None
    Reach <- MCReachOne
    RecvFamily = "v4"
    Mode = "oneshot"
    Minimum = 2
    MinimumTime = 1
    Timeout = 2
    UcastWait = 1
    McastWait = 1
    UcastRtt = 1
    ForgetAfter = 0
    MaxTime = 3
    MaxCancels = 1
    StrayFrom = {}
SPECIFICATION Spec
PROPERTY ResultsFrozenOnceCancelled
PROPERTY Termination
CHECK_DEADLOCK FALSE
