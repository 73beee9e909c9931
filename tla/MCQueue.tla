------------------------------ MODULE MCQueue ------------------------------
(* A ring of three slots with two distinguishable packets and a zeroed one. *)
EXTENDS Queue
=============================================================================
