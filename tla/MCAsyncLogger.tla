---------------------------- MODULE MCAsyncLogger -----------------------------
(* Symmetry for the runs of AsyncLogger. *)
EXTENDS AsyncLogger, TLC

Symmetry == Permutations(Threads) \cup Permutations(Lines)
=============================================================================
