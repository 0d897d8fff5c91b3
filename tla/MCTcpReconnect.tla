---------------------------- MODULE MCTcpReconnect ----------------------------
(* TcpReconnect for TLC. *)
EXTENDS TcpReconnect
=============================================================================
