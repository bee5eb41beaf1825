-------------------------- MODULE MCCoroThreadPool ---------------------------
(* Symmetry for the runs of CoroThreadPool. *)
EXTENDS CoroThreadPool, TLC

Symmetry == Permutations(Workers) \cup Permutations(Clients) \cup Permutations(Jobs)
=============================================================================
