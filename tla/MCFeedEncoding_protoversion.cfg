\* A 1.10 client whose "protocol-version:" header names a minor version
\* between 1.00 and 1.10: the session agrees on 105, creates no portable
\* archive, and then writes the test patterns through the null outarch_.
CONSTANTS
    OurVersion = 110
    Convertible <- MCConvertible
    NativeOrder = "little"
    ProtoHeaders = {100, 105, 110}
    Bytes = {1, 128, 255}
SPECIFICATION Spec
INVARIANT NegotiatedSerialisable
CHECK_DEADLOCK FALSE
