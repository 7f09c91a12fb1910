---------------------------- MODULE MCVariableSpsc ----------------------------
(* Instances of the variable-size SPSC channel for TLC. *)
EXTENDS VariableSpsc
=============================================================================
