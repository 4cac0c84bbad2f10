------------------------------- MODULE MCVm --------------------------------
(* Vm for a program with threads and one that only shares memory.          *)
EXTENDS Vm, TLC
CONSTANTS s1, s2
MCSpaces == {s1, s2}
MCMaxRefs == [s \in Spaces |-> IF s = s1 THEN 2 ELSE 1]
MCMaxLen == [s \in Spaces |-> IF s = s1 THEN 1 ELSE 0]
MCMapProts == {{"w"}}
MCProts == {{}, {"w"}}
MCKinds == [s \in Spaces |-> IF s = s1 THEN {"w"} ELSE {}]
Symmetric == Permutations(Cores)
=============================================================================
