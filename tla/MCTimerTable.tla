---------------------------- MODULE MCTimerTable ----------------------------
(* TimerTable for TLC.  Callers are interchangeable. *)
EXTENDS TimerTable, TLC

CallerSymmetry == Permutations(Callers)

\* A short auto-reset timer and a longer one-shot one
MCSettings == {<<1, TRUE>>, <<3, FALSE>>}
=============================================================================
