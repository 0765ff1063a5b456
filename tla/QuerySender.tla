---------------------------- MODULE QuerySender ----------------------------
(***************************************************************************)
(* The newer resolve packet senders (resolve_packet_sender.cpp): a unicast *)
(* sender that sends the query to every known peer on every port of the   *)
(* port range, and a multicast sender that sends it to every group on each *)
(* socket it could set up.  Both keep only the addresses "filtered by"     *)
(* their socket's protocol.  An address is a record [fam, host]; a packet  *)
(* handed to async_send_to is [addr, port]; a send to an endpoint of the   *)
(* other family fails, and the completion handler ignores the error.       *)
(***************************************************************************)
EXTENDS Integers, FiniteSets

CONSTANTS
    Addresses,      \* the addresses a sender may be given
    BasePort,       \* api_config::base_port()
    PortRange,      \* api_config::port_range()
    MulticastPort   \* the port multicast_query_sender is constructed with

VARIABLES
    sender,   \* <<>> before construction, then <<the sender's members>>;
              \* its field given keeps the addresses passed to the constructor
    sent      \* <<>> before send_packets, then <<packets handed to async_send_to>>

vars == <<sender, sent>>

Families == {"v4", "v6"}

(* filter_addrs_by_proto: std::remove_if drops the addresses for which     *)
(* addr.is_v4() == (proto == udp::v4()) holds, and erase removes them.     *)
FilterAddrsByProto(addrs, proto) == {a \in addrs : ~((a.fam = "v4") = (proto = "v4"))}

(* addresses_filtered_by_proto: the filter applied to a copy.              *)
AddressesFilteredByProto(addrs, proto) == FilterAddrsByProto(addrs, proto)

Init == sender = <<>> /\ sent = <<>>

(* unicast_query_sender's constructor: the filtered peers, the port range  *)
(* [base_port, base_port + port_range) and one socket of proto.            *)
ConstructUnicast(proto, addrs) ==
    /\ sender = <<>>
    /\ sender' = <<[kind |-> "unicast", proto |-> proto, given |-> addrs,
                  addrs |-> AddressesFilteredByProto(addrs, proto),
                  ports |-> BasePort..(BasePort + PortRange - 1), sockets |-> 1]>>
    /\ UNCHANGED sent

(* multicast_query_sender's constructor: one default interface; its socket *)
(* is kept only if setting the TTL and the outbound interface succeed.     *)
ConstructMulticast(proto, addrs, ttlOk, ifOk) ==
    /\ sender = <<>>
    /\ sender' = <<[kind |-> "multicast", proto |-> proto, given |-> addrs,
                  addrs |-> AddressesFilteredByProto(addrs, proto),
                  ports |-> {MulticastPort}, sockets |-> IF ttlOk /\ ifOk THEN 1 ELSE 0]>>
    /\ UNCHANGED sent

(* send_packets: unicast loops over ports and then peers, multicast over   *)
(* groups and then sockets; every packet goes to send_packet.              *)
SendPackets ==
    /\ sender # <<>> /\ sent = <<>>
    /\ sent' = <<IF sender[1].sockets = 0 THEN {}
                ELSE {[addr |-> a, port |-> p] : a \in sender[1].addrs, p \in sender[1].ports}>>
    /\ UNCHANGED sender

(* A packet reaches its endpoint only on a socket of the endpoint's family. *)
Delivered(pkt) == pkt.addr.fam = sender[1].proto

Next ==
    \/ \E proto \in Families, addrs \in SUBSET Addresses : ConstructUnicast(proto, addrs)
    \/ \E proto \in Families, addrs \in SUBSET Addresses, ttlOk, ifOk \in BOOLEAN :
          ConstructMulticast(proto, addrs, ttlOk, ifOk)
    \/ SendPackets

Spec == Init /\ [][Next]_vars

-----------------------------------------------------------------------------
(* After send_packets, every address the sender was given that has its     *)
(* socket's family received the query on every port the sender covers     *)
(* (a sender whose socket setup failed has nothing to send on).            *)
QueriesReachPeers ==
    sent # <<>> /\ sender[1].sockets > 0 =>
        \A a \in sender[1].given, p \in sender[1].ports :
            a.fam = sender[1].proto =>
                \E pkt \in sent[1] : pkt.addr = a /\ pkt.port = p /\ Delivered(pkt)
=============================================================================
