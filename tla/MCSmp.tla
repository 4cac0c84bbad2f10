------------------------------- MODULE MCSmp -------------------------------
(* Smp with two or three application processors and a few jobs.            *)
EXTENDS Smp
=============================================================================
