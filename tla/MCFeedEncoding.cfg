\* Four platforms (which of float32/double64 are IEEE-754), four channel
\* formats, 2880 requests, and all 56 load_/store_ wrappers over values built
\* from three byte patterns.
CONSTANTS
    OurVersion = 110
    Convertible <- MCConvertible
    NativeOrder = "little"
    ProtoHeaders = {100, 110, 120}
    Bytes = {1, 128, 255}
SPECIFICATION Spec
INVARIANT NegotiationMatchesSpec
INVARIANT StoreLoadRoundTrip
INVARIANT OrdersMirror
INVARIANT NativeConversionsAgree
CHECK_DEADLOCK FALSE
