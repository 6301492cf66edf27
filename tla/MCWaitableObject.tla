-------------------------- MODULE MCWaitableObject --------------------------
(* WaitableObject for TLC. *)
EXTENDS WaitableObject, TLC

FairWaitSpec == WaitSpec /\ WaitFairness
=============================================================================
