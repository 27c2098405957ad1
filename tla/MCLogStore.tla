----------------------------- MODULE MCLogStore -----------------------------
(* A small instance of LogStore.  Calls are interchangeable.               *)
EXTENDS LogStore

MCSymmetry == Permutations(Works)
=============================================================================
