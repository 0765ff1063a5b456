--------------------------- MODULE MCQuerySender ---------------------------
(* Constants of QuerySender for TLC: one IPv4 and one IPv6 host, a range   *)
(* of two ports.                                                           *)
EXTENDS QuerySender

MCAddresses == {[fam |-> "v4", host |-> 1], [fam |-> "v6", host |-> 1]}
=============================================================================
