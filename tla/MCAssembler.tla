---------------------------- MODULE MCAssembler ----------------------------
(* Assembler for TLC: fragments of distinct bytes, one of them empty. *)
EXTENDS Assembler

MCFragments == {<<>>, <<1>>, <<2, 3>>, <<4, 5, 6>>}
=============================================================================
