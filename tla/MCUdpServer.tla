---------------------------- MODULE MCUdpServer ----------------------------
(* UdpServer for TLC. *)
EXTENDS UdpServer, TLC

FairUdpSpec == UdpSpec /\ UdpFairness
=============================================================================
