------------------------------- MODULE MCTick -------------------------------
(* The constants of the instance of Tick are in the configuration. *)
EXTENDS Tick

\* Kept is checked where it is proved.
ASSUME PatientInstance == Patient
=============================================================================
