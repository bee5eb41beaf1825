----------------------------- MODULE MCTcpWorker ------------------------------
(* Symmetry for the runs of TcpWorker. *)
EXTENDS TcpWorker, TLC

Symmetry == Permutations(Conns) \cup Permutations(Fds)
=============================================================================
