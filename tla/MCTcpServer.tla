---------------------------- MODULE MCTcpServer ----------------------------
(* TcpServer for TLC: symmetry of callers, descriptors and connections. *)
EXTENDS TcpServerProps, TLC

Symmetry == Permutations(Callers) \cup Permutations(Handles) \cup Permutations(Conns)
=============================================================================
