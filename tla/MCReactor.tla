------------------------------ MODULE MCReactor ------------------------------
(* Reactor on small instances; connections, workers and fds are model values. *)
EXTENDS Reactor, TLC

Symmetric == Permutations(Workers) \cup Permutations(Conns)
=============================================================================
