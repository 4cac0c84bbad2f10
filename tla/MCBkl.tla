------------------------------- MODULE MCBkl -------------------------------
(* Bkl on three cores, with every nesting of contexts up to MaxNest.       *)
EXTENDS Bkl
=============================================================================
