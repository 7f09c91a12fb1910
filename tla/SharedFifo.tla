------------------------------ MODULE SharedFifo ------------------------------
(***************************************************************************)
(* What a multiple-producer single-consumer channel promises: one queue of  *)
(* at most Capacity tokens that keeps the tokens of each producer in the    *)
(* order in which that producer pushed them, and a batch contiguous.  Token *)
(* <<p, k>> is the k-th one of producer p.                                  *)
(***************************************************************************)
EXTENDS Integers, Sequences

CONSTANTS
  Producers,
  Capacity,   \* most tokens the queue holds
  MaxBatch    \* most tokens one push or pop moves

VARIABLES
  queue,      \* tokens the consumer can see, oldest first
  next        \* next[p]: number of the next token of producer p to arrive

sharedVars == <<queue, next>>

SharedInit == queue = <<>> /\ next = [p \in Producers |-> 0]

Arrive(p, n) ==
  /\ Len(queue) + n <= Capacity
  /\ queue' = queue \o [i \in 1 .. n |-> <<p, next[p] + i - 1>>]
  /\ next' = [next EXCEPT ![p] = @ + n]

Leave(n) ==
  /\ n <= Len(queue)
  /\ queue' = SubSeq(queue, n + 1, Len(queue))
  /\ UNCHANGED next

SharedNext ==
  \E n \in 1 .. MaxBatch : Leave(n) \/ \E p \in Producers : Arrive(p, n)

SharedSpec == SharedInit /\ [][SharedNext]_sharedVars
=============================================================================
