----------------------------- MODULE MCTaskSlots -----------------------------
(* TaskSlots on small instances. *)
EXTENDS TaskSlots
=============================================================================
