--------------------------- MODULE MCFeedEncoding ---------------------------
(***************************************************************************)
(* One call per behaviour: either a session negotiating a streamfeed       *)
(* request (handle_read_feedparams up to the feed header), or a store_/    *)
(* load_ wrapper writing a value into a buffer.  The inputs are bounded    *)
(* sets of hosts, channels, requests, wrappers and values; the invariants  *)
(* compare each outcome with what the spec and the conversion's contract   *)
(* require.                                                                *)
(***************************************************************************)
EXTENDS Negotiation, EndianConversion

CONSTANTS ProtoHeaders,  \* values a client may send as "protocol-version:"
          Bytes          \* byte values the stored values are built from

(* can_convert_endian: both byte orders, for the integral widths.         *)
MCConvertible == {<<o, s>> : o \in {1234, 4321}, s \in {1, 2, 4, 8}}

VARIABLES case, res   \* res: <<>> before the call, <<outcome>> after it
vars == <<case, res>>

(* Platforms: which of float32/double64 are IEEE-754, little-endian, with  *)
(* an endian-conversion score of 1.                                        *)
Hosts == [ieee : SUBSET {"float32", "double64"},
          subnormal : {{"float32", "double64"}}, order : {1234}, perf : {1}]

Channels == {[format |-> "float32", bytes |-> 4], [format |-> "double64", bytes |-> 8],
             [format |-> "int16", bytes |-> 2], [format |-> "string", bytes |-> 32]}

Requests == [version : {100, 105, 110, 150, 200}, uid : {"none", "match", "other"},
             order : {1234, 4321}, perf : {0, 2}, ieee : BOOLEAN, subnormals : BOOLEAN,
             size : {<<>>, <<2>>, <<8>>}, proto : {<<>>} \cup {<<p>> : p \in ProtoHeaders}]

FeedCases == [kind : {"feed"}, host : Hosts, chan : Channels, req : Requests]

(* Values of the C++ type a caller passes to each wrapper (the <cstdint>   *)
(* type named in its signature) that fit in its bit width: the low bytes   *)
(* drawn from Bytes, the rest their sign or zero extension.                *)
CallerType(bits, signed) ==
    [width |-> IF bits = 16 THEN 2 ELSE IF bits <= 32 THEN 4 ELSE 8, signed |-> signed]

Fitting(signed, bits) ==
    {Widen(low, CallerType(bits, signed)) : low \in [1..(bits \div 8) -> Bytes]}

EndianCases ==
    UNION {[kind : {"endian"}, order : {o}, signed : {s}, bits : {b}, v : Fitting(s, b)] :
             o \in {"little", "big"}, s \in BOOLEAN, b \in {16, 24, 32, 40, 48, 56, 64}}

Init == case \in FeedCases \cup EndianCases /\ res = <<>>

(* The session handles the request and decides the feed's encoding.        *)
HandleFeedparams ==
    /\ case.kind = "feed" /\ res = <<>>
    /\ res' = <<NegotiateFeed(case.host, case.chan, case.req)>>
    /\ UNCHANGED case

(* store_<order>_<s|u><bits>(p, v): the outcome is the bytes written at p. *)
StoreValue ==
    /\ case.kind = "endian" /\ res = <<>>
    /\ res' = <<Store(case.order, case.signed, case.bits, case.v)>>
    /\ UNCHANGED case

Next == HandleFeedparams \/ StoreValue

Spec == Init /\ [][Next]_vars

-----------------------------------------------------------------------------
(* handle_read_feedparams answers every streamfeed request as spec 4.5     *)
(* says: status, data protocol version (min of both sides, downgraded to   *)
(* 100 for a value-size mismatch or missing IEEE floats), byte order and   *)
(* subnormal suppression.                                                  *)
NegotiationMatchesSpec ==
    case.kind = "feed" /\ res # <<>> =>
        res[1] = SpecNegotiation(case.host, case.chan, case.req)

(* Every accepted feed can write its header: whenever the test patterns go *)
(* through the portable archive outarch_ (version below 110), the archive  *)
(* was created (version exactly 100).                                       *)
NegotiatedSerialisable ==
    case.kind = "feed" /\ res # <<>> /\ res[1].status \in {"200", "legacy"} =>
        (FeedHeader(res[1]).patterns = "portable" => FeedHeader(res[1]).archive)

(* A value written by a store_ wrapper and read back by the load_ wrapper  *)
(* of the same order, signedness and width is the value stored.            *)
StoreLoadRoundTrip ==
    case.kind = "endian" /\ res # <<>> =>
        Load(case.order, case.signed, case.bits, res[1]) = case.v

(* The big-endian wrappers write and read the mirror image of the little-  *)
(* endian ones.                                                            *)
OrdersMirror ==
    case.kind = "endian" /\ res # <<>> =>
        LET other == IF case.order = "big" THEN "little" ELSE "big"
        IN  /\ Store(other, case.signed, case.bits, case.v) = Reverse(res[1])
            /\ Load(other, case.signed, case.bits, Reverse(res[1])) = case.v

(* For full-width values, loading from a buffer equals reading its bytes as *)
(* a native integer and converting with big_to_native / little_to_native    *)
(* (by value or in place), and native_to_big / native_to_little turn the     *)
(* loaded value back into the buffer's native reading.                      *)
MemoryValue(p) == IF NativeOrder = "little" THEN p ELSE Reverse(p)

NativeConversionsAgree ==
    case.kind = "endian" /\ res # <<>> /\ case.bits \in {16, 32, 64} =>
        LET raw == MemoryValue(res[1])
            loaded == Load(case.order, case.signed, case.bits, res[1])
        IN  IF case.order = "big"
            THEN /\ loaded = BigToNative(raw) /\ loaded = BigToNativeInplace(raw)
                 /\ NativeToBig(loaded) = raw /\ NativeToBigInplace(loaded) = raw
            ELSE /\ loaded = LittleToNative(raw) /\ loaded = LittleToNativeInplace(raw)
                 /\ NativeToLittle(loaded) = raw /\ NativeToLittleInplace(loaded) = raw
=============================================================================
