----------------------------- MODULE MCProcess -----------------------------
(***************************************************************************)
(* Instances of Process for TLC.                                           *)
(***************************************************************************)
EXTENDS Process

\* Programs that start, end, kill and wait for one another.
Families == {[procs |-> 3, pids |-> 4, sleep |-> 1,
              calls |-> {"spawn", "exit", "wait", "kill", "thread", "join"}]}

\* Programs that wait for keys, children and the clock and are stopped and
\* killed at it; more programs than cores that want nothing but to run; and
\* programs that the window manager starts beside them.
Waiters == [procs |-> 2, pids |-> 3, sleep |-> 1,
            calls |-> {"spawn", "wait", "kill", "stop", "cont", "sleep", "key"}]
Runners == [procs |-> 4, pids |-> 4, sleep |-> 1, calls |-> {"spawn", "yield"}]
Panes == [procs |-> 3, pids |-> 3, sleep |-> 1, calls |-> {"spawn", "yield", "pane"}]
Patient == {Waiters, Runners, Panes}
=============================================================================
