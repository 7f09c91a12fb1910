-------------------------- MODULE MCFixedMpscLocking --------------------------
(* Instances of the locking fixed-size MPSC channel for TLC. *)
EXTENDS FixedMpscLocking

CONSTANTS p1, p2

MCProducers == {p1, p2}
=============================================================================
