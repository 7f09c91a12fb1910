------------------------- MODULE MCVariableMpscLocking -------------------------
(* Instances of the locking variable-size MPSC channel for TLC. *)
EXTENDS VariableMpscLocking

CONSTANTS p1, p2

MCProducers == {p1, p2}
=============================================================================
