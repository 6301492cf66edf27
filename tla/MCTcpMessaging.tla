--------------------------- MODULE MCTcpMessaging ---------------------------
(* TcpMessaging for TLC: an empty message, a short one, and one whose bytes are
   those of headers and trailers (STX = 2, ETX = 3). *)
EXTENDS TcpMessaging

MCMessages == {<<>>, <<2, 3, 3>>}
=============================================================================
