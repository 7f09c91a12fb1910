------------------------------- MODULE MCTasking -------------------------------
(* The example programs with two workers: fibonacci(3) makes five tasks.      *)
EXTENDS Tasking

MCPrograms ==
  {[kind |-> "fibonacci", size |-> 3], [kind |-> "fibonacci", size |-> 1], [kind |-> "abc", size |-> 2],
   [kind |-> "work", size |-> 3]}
=============================================================================
