----------------------------- MODULE BoundedFifo -----------------------------
(***************************************************************************)
(* What a fixed-size channel promises its users: a first-in first-out queue *)
(* of at most Capacity tokens.  Tokens are numbered in the order in which   *)
(* the producer hands them to push, so the k-th token ever pushed is k and  *)
(* the queue shows reordering, loss, duplication and corruption alike.      *)
(***************************************************************************)
EXTENDS Integers, Sequences

CONSTANTS
  Capacity,   \* most tokens the queue holds
  MaxBatch    \* most tokens one push or pop moves

VARIABLES
  queue,      \* tokens the consumer can see, oldest first
  next        \* number of the next token to arrive

fifoVars == <<queue, next>>

FifoInit == queue = <<>> /\ next = 0

Arrive(n) ==
  /\ Len(queue) + n <= Capacity
  /\ queue' = queue \o [i \in 1 .. n |-> next + i - 1]
  /\ next' = next + n

Leave(n) ==
  /\ n <= Len(queue)
  /\ queue' = SubSeq(queue, n + 1, Len(queue))
  /\ UNCHANGED next

FifoNext == \E n \in 1 .. MaxBatch : Arrive(n) \/ Leave(n)

FifoSpec == FifoInit /\ [][FifoNext]_fifoVars
=============================================================================
