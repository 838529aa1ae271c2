------------------------------ MODULE MCTreiber ------------------------------
(* Treiber on small instances. *)
EXTENDS Treiber
=============================================================================
