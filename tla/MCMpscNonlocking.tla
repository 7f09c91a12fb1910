--------------------------- MODULE MCMpscNonlocking ---------------------------
(* Instances of the nonlocking MPSC consumer for TLC. *)
EXTENDS MpscNonlocking
=============================================================================
