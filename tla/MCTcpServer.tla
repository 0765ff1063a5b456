---------------------------- MODULE MCTcpServer ----------------------------
(* Constants of TcpServer for TLC.                                         *)
EXTENDS TcpServer

MCAcceptors == {"v4"}
MCDual == {"v4", "v6"}
MCRequests == {"shortinfo", "feed110", "feed999"}
MCFeeds == {"feed110"}
=============================================================================
