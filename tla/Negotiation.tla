---------------------------- MODULE Negotiation ----------------------------
(***************************************************************************)
(* The protocol negotiation of client_session::handle_read_feedparams     *)
(* (tcp_server.cpp) as a pure operator over a parsed request, the spec's   *)
(* negotiation rules as a reference operator, and what the feed header    *)
(* is then written with.                                                   *)
(*                                                                         *)
(* A request is a record: the version of "LSL:streamfeed/V" (100 for a    *)
(* bare "LSL:streamfeed"), whether its UID is absent, ours or another      *)
(* one, and the feed parameter lines the client sent.  An optional header  *)
(* is a sequence of length 0 (absent) or 1.                                *)
(***************************************************************************)
EXTENDS Integers, Sequences

CONSTANTS
    OurVersion,     \* api_config::use_protocol_version()
    Convertible     \* pairs <<order, size>> for which can_convert_endian holds

(* The host is the platform the outlet runs on: its formats with IEEE-754 *)
(* representation (format_ieee754), formats that carry subnormals          *)
(* (format_subnormal), LSL_BYTE_ORDER and measure_endian_performance().   *)
(* The channel is info->channel_format() and info->channel_bytes().       *)

(* C++ integer division truncates towards zero.                           *)
CDiv(a, b) == IF a >= 0 THEN a \div b ELSE -((-a) \div b)

(* The value of an optional header line, or the default when absent.      *)
Given(h, default) == IF h = <<>> THEN default ELSE h[1]

Lesser(a, b) == IF a <= b THEN a ELSE b

Reject(host, code) == [status |-> code, dpv |-> 0, order |-> host.order,
                       reverse |-> FALSE, suppress |-> FALSE]

(* A request below 1.10 reads only max_buffered and the chunk size; the   *)
(* session keeps data_protocol_version_ = 100 and no byte swap.           *)
Legacy(host) == [status |-> "legacy", dpv |-> 100, order |-> host.order,
                 reverse |-> FALSE, suppress |-> FALSE]

(* Mutant: the client's has-ieee754-floats header ignored.                *)
HostLacksIeee(host, chan, r) ==
    \/ "double64" \notin host.ieee
    \/ chan.format = "float32" /\ "float32" \notin host.ieee

(* Lines 556-558: downgrade to 1.00 when this host has no IEEE-754 double,  *)
(* or no IEEE-754 float for a float32 channel, or the client has none.     *)
LacksIeee(host, chan, r) ==
    \/ "double64" \notin host.ieee
    \/ chan.format = "float32" /\ "float32" \notin host.ieee
    \/ ~r.ieee

(* handle_read_feedparams up to the response: 505 for a newer major       *)
(* version, 404 for a foreign UID, then for 1.10 requests the agreed      *)
(* version with its two downgrades, the byte order and subnormal          *)
(* suppression.  (The expired-server return between the two checks is     *)
(* TcpServer's.)                                                           *)
NegotiateFeed(host, chan, r) ==
    IF CDiv(r.version, 100) > CDiv(OurVersion, 100) THEN Reject(host, "505")
    ELSE IF r.uid = "other" THEN Reject(host, "404")
    ELSE IF r.version < 110 THEN Legacy(host)
    ELSE
      LET size == Given(r.size, chan.bytes)
          agreed == Lesser(OurVersion, Given(r.proto, r.version))
          sized == IF chan.format # "string" /\ chan.bytes # size THEN 100 ELSE agreed
          dpv == IF LacksIeee(host, chan, r) THEN 100 ELSE sized
          swap == /\ dpv >= 110
                  /\ host.order # r.order
                  /\ <<r.order, size>> \in Convertible
                  /\ size > 1
                  /\ host.perf > r.perf
      IN [status |-> "200", dpv |-> dpv,
          order |-> IF swap THEN r.order ELSE host.order,
          reverse |-> swap,
          suppress |-> dpv >= 110 /\ chan.format \in host.subnormal /\ ~r.subnormals]

(* Lines 594-614: a session at version 100 creates the portable archive   *)
(* outarch_ and writes the shortinfo into it; any other version allocates *)
(* the scratch buffer instead.  The two test-pattern samples are written  *)
(* in the binary format from version 110 on, else through *outarch_.      *)
FeedHeader(res) ==
    [archive |-> res.dpv = 100,
     patterns |-> IF res.dpv >= 110 THEN "binary" ELSE "portable"]

(* Spec 4.5 "Negotiation rules", read for a 1.10 request.  Every sample    *)
(* carries a double timestamp, so the "channel's float type" includes     *)
(* double64 besides a float32 channel.                                     *)
FloatTypes(chan) == {"double64"} \cup ({chan.format} \cap {"float32"})

SpecNegotiation(host, chan, r) ==
    IF CDiv(r.version, 100) > CDiv(OurVersion, 100) THEN Reject(host, "505")
    ELSE IF r.uid = "other" THEN Reject(host, "404")
    ELSE IF r.version < 110 THEN Legacy(host)
    ELSE
      LET client == Given(r.proto, r.version)
          size == Given(r.size, chan.bytes)
          legacy == \/ chan.format # "string" /\ size # chan.bytes
                    \/ ~(FloatTypes(chan) \subseteq host.ieee)
                    \/ ~r.ieee
          v == IF legacy THEN 100 ELSE IF OurVersion <= client THEN OurVersion ELSE client
          swap == /\ v >= 110
                  /\ r.order # host.order
                  /\ <<r.order, size>> \in Convertible
                  /\ size > 1
                  /\ r.perf < host.perf
      IN [status |-> "200", dpv |-> v,
          order |-> IF swap THEN r.order ELSE host.order,
          reverse |-> swap,
          suppress |-> v >= 110 /\ chan.format \in host.subnormal /\ ~r.subnormals]
=============================================================================
