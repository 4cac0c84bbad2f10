------------------------------- MODULE MCPipe -------------------------------
(***************************************************************************)
(* An instance of Pipe for TLC.                                            *)
(***************************************************************************)
EXTENDS Pipe

\* Three shells that compete for two pipes, and one that runs three commands
\* of which some are missing.
Competing == [shells |-> {1, 2, 3}, stages |-> 2, pids |-> 4, bytes |-> 3, len |-> 3, missing |-> FALSE]
Failing == [shells |-> {1}, stages |-> 3, pids |-> 5, bytes |-> 2, len |-> 2, missing |-> TRUE]
Both == {Competing, Failing}
=============================================================================
