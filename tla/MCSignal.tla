------------------------------ MODULE MCSignal ------------------------------
(***************************************************************************)
(* An instance of Signal for TLC.                                          *)
(***************************************************************************)
EXTENDS Signal

\* A program with handlers under every kind of call it can block in, and one
\* that is stopped, continued and killed while it holds signals off.
Handling == [sigs |-> {SIGSEGV, SIGALRM}, frames |-> 3,
             calls |-> {"read", "write", "sleep", "line", "handler", "alarm", "kill", "fault"}]
Holding == [sigs |-> {SIGKILL, SIGCONT, SIGTSTP}, frames |-> 1,
            calls |-> {"read", "handler", "mask", "suspend"}]
Both == {Handling, Holding}
=============================================================================
