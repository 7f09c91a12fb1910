----------------------------- MODULE MCFixedSpsc -----------------------------
(* Instances of the fixed-size SPSC channel for TLC. *)
EXTENDS FixedSpsc
=============================================================================
