---------------------------- MODULE MCManagerLoop ----------------------------
(* Instances of ManagerLoop for TLC. *)
EXTENDS ManagerLoop
=============================================================================
