\* A unicast or multicast sender of either protocol, given any subset of one
\* IPv4 and one IPv6 address, with a port range of two.
CONSTANTS
    Addresses <- MCAddresses
    BasePort = 16572
    PortRange = 2
    MulticastPort = 16571
SPECIFICATION Spec
INVARIANT QueriesReachPeers
CHECK_DEADLOCK FALSE
