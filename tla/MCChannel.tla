----------------------------- MODULE MCChannel -----------------------------
(* The constants of the instances of Channel are in the configurations. *)
EXTENDS Channel
=============================================================================
