------------------------------- MODULE MCHeap -------------------------------
(* Heap for a few owners, frames of a few units.                           *)
EXTENDS Heap, TLC
Symmetric == Permutations(Owners)
=============================================================================
