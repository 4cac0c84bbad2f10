------------------------------- MODULE MCFat -------------------------------
(***************************************************************************)
(* Instances of Fat for TLC.                                               *)
(***************************************************************************)
EXTENDS Fat

MCShipped == [d \in Drives |-> "a"]

\* Drives changed for one another under open files; two files open on one
\* drive, each growing where the other would; and the long life of an exFAT
\* file, which from a row becomes a chain and is then cut, grown, moved and
\* removed.
Swap == [fds |-> 2, drives |-> Drives, plugs |-> 2, calls |-> 2]
Stay == [fds |-> 2, drives |-> Drives, plugs |-> 1, calls |-> 3]
Long == [fds |-> 1, drives |-> ExFat, plugs |-> 1, calls |-> 5]
MCSetups == {Swap, Stay, Long}
=============================================================================
