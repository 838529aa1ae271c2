---------------------------- MODULE MCConnection ----------------------------
(* Connection on a small instance. *)
EXTENDS Connection

\* One request fits the first read, one needs both, one is longer than both.
MCReqLens == {5, 8, 10}

\* Frames to the client that a partial write can split, but for the two-byte ping.
MCUnits == [k \in MsgKinds |-> IF k \in {"ping", "404"} THEN 1 ELSE 2]
=============================================================================
