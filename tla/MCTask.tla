-------------------------------- MODULE MCTask --------------------------------
(* Symmetry for the run of Task. *)
EXTENDS Task, TLC

Symmetry == Permutations(Frames)
=============================================================================
