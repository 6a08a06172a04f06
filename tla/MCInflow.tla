------------------------------ MODULE MCInflow ------------------------------
(* Instances of Inflow for TLC. *)
EXTENDS Inflow
=============================================================================
