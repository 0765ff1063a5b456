-------------------------- MODULE MCResolveAttempt --------------------------
(* Small instances of ResolveAttempt for TLC.                              *)
EXTENDS ResolveAttempt

CONSTANTS u1, u2, ux, a1, a2, b1, uc, m4, bc

(* Two outlets; u1 is reachable through the unicast peer list at a1 and    *)
(* answers multicast from its second interface a2; u2 answers multicast    *)
(* from a1's host.                                                         *)
MCUids == {u1, u2}
MCV4   == {a1, a2}
MCV6   == {b1}

(* Datagrams with a foreign query id: one claiming to be u2 at a2, and the *)
(* reply of an outlet ux that does not match this query.                   *)
MCStray == {<<u2, a2>>, <<ux, a1>>}

MCMcastOne   == <<m4>>
MCMcastBcast == <<bc, m4>>

(* One multicast sender next to the unicast one.                           *)
MCReachOne == [s \in {uc, m4} |->
                 IF s = uc THEN {<<u1, a1>>} ELSE {<<u1, a2>>, <<u2, a1>>}]

(* One outlet behind each sender: enough for the termination check.        *)
MCReachSmall == [s \in {uc, m4} |->
                   IF s = uc THEN {<<u1, a1>>} ELSE {<<u2, a1>>}]

(* The default configuration: a broadcast sender (255.255.255.255 is one   *)
(* of the default multicast_addresses) followed by the IPv4 multicast      *)
(* sender; no known peers.                                                 *)
MCReachBcast == [s \in {bc, m4} |->
                   IF s = bc THEN {<<u1, a1>>} ELSE {<<u2, a2>>}]

(* Dual-stack receive socket: u1 answers from an IPv4 and an IPv6 address. *)
MCReachDual == [s \in {uc, m4} |->
                  IF s = uc THEN {<<u1, a1>>} ELSE {<<u1, b1>>}]
=============================================================================
