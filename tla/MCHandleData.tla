---------------------------- MODULE MCHandleData ----------------------------
(* HandleData for TLC: request threads are interchangeable.                *)
EXTENDS HandleData, TLC

Symm == Permutations(Threads)
=============================================================================
