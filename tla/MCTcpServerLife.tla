-------------------------- MODULE MCTcpServerLife --------------------------
(* TcpServerLife for TLC. *)
EXTENDS TcpServerLife
=============================================================================
