------------------------------ MODULE MCTimer ------------------------------
(* Timer for TLC: symmetry of the clients and of the cells. *)
EXTENDS TimerProps, TLC

Symmetry == Permutations(Clients) \cup Permutations(Cells) \cup Permutations(Handles)
=============================================================================
