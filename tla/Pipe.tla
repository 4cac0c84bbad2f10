-------------------------------- MODULE Pipe --------------------------------
(***************************************************************************)
(* Pipes (kernel/kernel/process.c) and the shells that build pipelines of  *)
(* them (userland/sh.c, run_pipe).  A pipe is a slot of a table, known to  *)
(* the shell and to the processes at its ends by its index alone.  Every   *)
(* step is made under the kernel lock, up to where a process blocks.       *)
(*                                                                         *)
(* A byte is <<pid, n>>: the n-th that process pid wrote.  SIGPIPE and the *)
(* shell's kill are the same here: they end the process.                   *)
(***************************************************************************)
EXTENDS Integers, Sequences, FiniteSets

CONSTANTS
    None,
    MaxPipes,       \* MAX_PIPES
    Cap,            \* PIPE_BUF_SIZE
    Setups          \* the shells of this instance, see Setup

\* Shells and what they run: the commands of a pipeline, bounds on the processes
\* started, on what one process writes and on one write, and whether a command
\* may be missing.
Setup == [shells : SUBSET Nat, stages : Nat \ {0, 1}, pids : Nat, bytes : Nat, len : Nat,
          missing : BOOLEAN]

ASSUME PipeAssumption ==
    /\ MaxPipes \in Nat \ {0} /\ Cap \in Nat \ {0}
    /\ Setups \subseteq Setup
    /\ None \notin Int

Index == 0..(MaxPipes - 1)

VARIABLES
    setup,      \* the one of Setups this is; it does not change
    pipes,      \* the table
    proc,       \* proc[p]: a stage of some pipeline
    shell,      \* shell[s]: where run_pipe is
    nextPid

vars == <<pipes, proc, shell, nextPid>>

Shells == setup.shells
Stages == setup.stages
MaxPid == setup.pids
MaxBytes == setup.bytes
MaxLen == setup.len
SpawnFails == setup.missing
Pids == 1..MaxPid

NoByte == <<0, 0>>
Free == [inUse |-> FALSE, wopen |-> FALSE, ropen |-> FALSE, wpid |-> 0, rpid |-> 0,
         head |-> 0, tail |-> 0, count |-> 0, buf |-> [k \in 0..(Cap - 1) |-> NoByte]]

\* `from` is the process whose output this one was given to read.
Nobody == [st |-> "none", in |-> None, out |-> None, from |-> 0, killed |-> FALSE,
           call |-> "none", left |-> 0, eof |-> FALSE, sent |-> 0, got |-> <<>>]
Idle == [at |-> "idle", pfd |-> <<>>, pids |-> <<>>]

Live(t, p) == p \in Pids /\ t[p].st \in {"user", "blocked", "woken"}

----------------------------------------------------------------------------
(* process_wake_pipe, and a signal that ends a process.                    *)

Woken(t) == [p \in Pids |-> IF t[p].st = "blocked" THEN [t[p] EXCEPT !.st = "woken"] ELSE t[p]]

Killed(t, p) ==
    IF Live(t, p)
    THEN [t EXCEPT ![p].killed = TRUE, ![p].st = IF @ = "blocked" THEN "woken" ELSE @]
    ELSE t

----------------------------------------------------------------------------
(* The shell.                                                              *)

Made(s) == Len(shell[s].pfd)
Started(s) == Len(shell[s].pids)

\* The bound: every pipeline under way may still start all its stages.
Affordable ==
    nextPid + Stages * Cardinality({s \in Shells : shell[s].at \in {"pipes", "spawn"}})
        + Stages - 1 <= MaxPid

\* pipe_create, for the next pipe of the pipeline; the first free slot, as new.
PipeCreate(s) ==
    LET free == {i \in Index : ~pipes[i].inUse}
        i == CHOOSE x \in free : \A y \in free : x <= y
    IN  /\ shell[s].at \in {"idle", "pipes"}
        /\ shell[s].at = "idle" => Affordable
        /\ IF free = {}
           THEN /\ shell' = [shell EXCEPT ![s].at = "unmake"]
                /\ UNCHANGED pipes
           ELSE /\ pipes' = [pipes EXCEPT ![i] = [Free EXCEPT !.inUse = TRUE, !.wopen = TRUE,
                                                             !.ropen = TRUE]]
                /\ shell' = [shell EXCEPT ![s].pfd = Append(@, i),
                               ![s].at = IF Made(s) + 1 = Stages - 1 THEN "spawn" ELSE "pipes"]
        /\ UNCHANGED <<proc, nextPid>>

\* A name, an index and a place in the pipeline: spawn_from_user attaches the
\* child to the pipes that are still in use.
Child(s, n) ==
    LET at(k) == IF k \in DOMAIN shell[s].pfd /\ pipes[shell[s].pfd[k]].inUse
                 THEN shell[s].pfd[k] ELSE None
    IN  [Nobody EXCEPT !.st = "user", !.in = at(n - 1), !.out = at(n),
                       !.from = IF n > 1 THEN shell[s].pids[n - 1] ELSE 0]

Spawn(s) ==
    LET n == Started(s) + 1
        c == Child(s, n)
    IN  /\ shell[s].at = "spawn"
        /\ nextPid \in Pids
        /\ nextPid' = nextPid + 1
        /\ proc' = [proc EXCEPT ![nextPid] = c]
        /\ pipes' = [i \in Index |-> [pipes[i] EXCEPT !.rpid = IF i = c.in THEN nextPid ELSE @,
                                                      !.wpid = IF i = c.out THEN nextPid ELSE @]]
        /\ shell' = [shell EXCEPT ![s].pids = Append(@, nextPid),
                                  ![s].at = IF n = Stages THEN "wait" ELSE "spawn"]

\* A command that is not found.
SpawnFail(s) ==
    /\ SpawnFails
    /\ shell[s].at = "spawn"
    /\ shell' = [shell EXCEPT ![s].at = "close"]
    /\ UNCHANGED <<pipes, proc, nextPid>>

\* pipe_close wakes whoever is blocked on it.
CloseWakes(t) == Woken(t)

\* pipe_close of the shell's first pipe not closed yet: when a pipe could not
\* be made ("unmake"), and when a command could not be started ("close").
PipeClose(s) ==
    LET i == Head(shell[s].pfd)
    IN  /\ shell[s].at \in {"unmake", "close"} /\ shell[s].pfd # <<>>
        /\ IF pipes[i].inUse
           THEN /\ pipes' = [pipes EXCEPT ![i].wopen = FALSE, ![i].ropen = FALSE, ![i].inUse = FALSE]
                /\ proc' = CloseWakes(proc)
           ELSE UNCHANGED <<pipes, proc>>
        /\ shell' = [shell EXCEPT ![s].pfd = Tail(@)]
        /\ UNCHANGED nextPid

\* ... and after the last of them, the stages that were started are killed.
Closed(s) ==
    /\ shell[s].at \in {"unmake", "close"} /\ shell[s].pfd = <<>>
    /\ shell' = [shell EXCEPT ![s].at = IF @ = "unmake" THEN "idle" ELSE "kill"]
    /\ UNCHANGED <<pipes, proc, nextPid>>

\* kill(pid, SIGKILL) for each in turn, and then the wait for all of them.
Kill(s) ==
    LET left == {n \in DOMAIN shell[s].pids :
                   LET p == shell[s].pids[n] IN Live(proc, p) /\ ~proc[p].killed}
    IN  /\ shell[s].at = "kill"
        /\ IF left = {}
           THEN shell' = [shell EXCEPT ![s].at = "wait"] /\ UNCHANGED proc
           ELSE LET n == CHOOSE x \in left : \A y \in left : x <= y
                IN  proc' = Killed(proc, shell[s].pids[n]) /\ UNCHANGED shell
        /\ UNCHANGED <<pipes, nextPid>>

WaitAll(s) ==
    /\ shell[s].at = "wait"
    /\ \A n \in DOMAIN shell[s].pids : proc[shell[s].pids[n]].st = "dead"
    /\ shell' = [shell EXCEPT ![s] = Idle]
    /\ UNCHANGED <<pipes, proc, nextPid>>

----------------------------------------------------------------------------
(* The two ends.                                                           *)

Least(a, b) == IF a <= b THEN a ELSE b

\* The inner loop of pipe_write: k bytes of p, after the `from` it has written.
Put(q, p, from, k) ==
    [q EXCEPT !.buf = [x \in 0..(Cap - 1) |->
                         LET d == (x - q.head) % Cap
                         IN  IF d < k THEN <<p, from + d + 1>> ELSE @[x]],
              !.head = (@ + k) % Cap,
              !.count = @ + k]

\* pipe_write with n bytes to go, round its loop until it returns or blocks.
WriteOn(p, n) ==
    LET i == proc[p].out
        k == Least(n, Cap - pipes[i].count)
        after == IF k > 0 THEN Woken(proc) ELSE proc
        r == [proc[p] EXCEPT !.sent = @ + k, !.left = n - k,
                             !.st = IF k < n THEN "blocked" ELSE "user",
                             !.call = IF k < n THEN "write" ELSE "none"]
    IN  /\ IF pipes[i].ropen
           THEN /\ pipes' = [pipes EXCEPT ![i] = Put(@, p, proc[p].sent, k)]
                /\ proc' = [after EXCEPT ![p] = r]
           ELSE /\ proc' = [proc EXCEPT ![p].st = "user", ![p].call = "none", ![p].left = 0]
                /\ UNCHANGED pipes
        /\ UNCHANGED <<shell, nextPid>>

Write(p, n) ==
    /\ proc[p].st = "user" /\ proc[p].out # None /\ ~proc[p].killed
    /\ proc[p].sent + n <= MaxBytes
    /\ WriteOn(p, n)

WriteAgain(p) ==
    /\ proc[p].st = "woken" /\ proc[p].call = "write" /\ ~proc[p].killed
    /\ WriteOn(p, proc[p].left)

\* Mutant: a shut pipe is at its end, whatever is in it.
ShutOrEmpty(q) == q.count = 0 \/ ~q.wopen

\* Nothing to take: the end of input, or a wait.
Drained(q) == q.count = 0

\* pipe_read of up to n bytes: they are taken, or it is the end, or it blocks.
ReadOn(p, n) ==
    LET i == proc[p].in
        q == pipes[i]
        k == Least(n, q.count)
        taken == [x \in 1..k |-> q.buf[(q.tail + x - 1) % Cap]]
        back == [proc[p] EXCEPT !.st = "user", !.call = "none", !.left = 0]
    IN  /\ IF ~Drained(q)
           THEN /\ pipes' = [pipes EXCEPT ![i].tail = (@ + k) % Cap, ![i].count = @ - k]
                /\ proc' = [Woken(proc) EXCEPT ![p] = [back EXCEPT !.got = @ \o taken]]
           ELSE /\ proc' = [proc EXCEPT ![p] =
                              IF q.wopen THEN [@ EXCEPT !.st = "blocked", !.call = "read", !.left = n]
                              ELSE [back EXCEPT !.eof = TRUE]]
                /\ UNCHANGED pipes
        /\ UNCHANGED <<shell, nextPid>>

Read(p, n) ==
    /\ proc[p].st = "user" /\ proc[p].in # None /\ ~proc[p].killed
    /\ ReadOn(p, n)

ReadAgain(p) ==
    /\ proc[p].st = "woken" /\ proc[p].call = "read" /\ ~proc[p].killed
    /\ ReadOn(p, proc[p].left)

\* Mutant: a pipe with something left in it is kept.
KeepsUnread(q) == ~q.wopen /\ ~q.ropen /\ q.count = 0

\* pipe_maybe_free
MaybeFree(q) == ~q.wopen /\ ~q.ropen

\* stream_release of end i of process p, on the pipes and the processes.
ReleasePipe(t, p, i) ==
    IF i = None \/ ~t[i].inUse THEN t
    ELSE LET q == [t[i] EXCEPT !.wopen = @ /\ t[i].wpid # p, !.ropen = @ /\ t[i].rpid # p]
         IN  [t EXCEPT ![i] = [q EXCEPT !.inUse = ~MaybeFree(q)]]

\* Mutant: the writer is told, and nobody is woken.
QuietRelease(u, t, p, i) ==
    IF i # None /\ t[i].inUse /\ t[i].rpid = p /\ t[i].wopen /\ t[i].wpid # p
    THEN Killed(u, t[i].wpid) ELSE u

\* Who is told: a writer that has lost its reader, and everyone who is blocked.
ReleaseProc(u, t, p, i) ==
    IF i = None \/ ~t[i].inUse THEN u
    ELSE Woken(IF t[i].rpid = p /\ t[i].wopen /\ t[i].wpid # p THEN Killed(u, t[i].wpid) ELSE u)

\* process_notify_exit: the streams, in and then out, and then the end.
Exit(p) ==
    LET t1 == ReleasePipe(pipes, p, proc[p].in)
        u1 == ReleaseProc(proc, pipes, p, proc[p].in)
    IN  /\ proc[p].st = "user" \/ (proc[p].st = "woken" /\ proc[p].killed)
        /\ pipes' = ReleasePipe(t1, p, proc[p].out)
        /\ proc' = [ReleaseProc(u1, t1, p, proc[p].out) EXCEPT ![p] =
                      [@ EXCEPT !.st = "dead", !.call = "none", !.left = 0,
                                !.in = None, !.out = None]]
        /\ UNCHANGED <<shell, nextPid>>

----------------------------------------------------------------------------

Init ==
    /\ setup \in Setups
    /\ pipes = [i \in Index |-> Free]
    /\ proc = [p \in Pids |-> Nobody]
    /\ shell = [s \in Shells |-> Idle]
    /\ nextPid = 1

ShellStep(s) ==
    PipeCreate(s) \/ Spawn(s) \/ SpawnFail(s) \/ PipeClose(s) \/ Closed(s) \/ Kill(s) \/ WaitAll(s)

ProcStep(p) ==
    \/ \E n \in 1..MaxLen : Write(p, n) \/ Read(p, n)
    \/ WriteAgain(p) \/ ReadAgain(p) \/ Exit(p)

Next ==
    /\ UNCHANGED setup
    /\ (\E s \in Shells : ShellStep(s)) \/ (\E p \in Pids : ProcStep(p))

Spec == Init /\ [][Next]_<<setup, vars>>

----------------------------------------------------------------------------
(* Properties.                                                             *)

Bytes == (0..MaxPid) \X (0..MaxBytes)

\* The types; a pipe's count is the distance between its two ends round the
\* ring, and never more than it holds.
TypeOK ==
    /\ nextPid \in 1..(MaxPid + 1)
    /\ \A i \in Index :
         LET q == pipes[i]
         IN  /\ {q.inUse, q.wopen, q.ropen} \subseteq BOOLEAN
             /\ {q.wpid, q.rpid} \subseteq 0..MaxPid
             /\ {q.head, q.tail} \subseteq 0..(Cap - 1)
             /\ q.count \in 0..Cap /\ (q.head - q.tail) % Cap = q.count % Cap
             /\ q.buf \in [0..(Cap - 1) -> Bytes]
    /\ \A p \in Pids :
         LET r == proc[p]
         IN  /\ r.st \in {"none", "user", "blocked", "woken", "dead"}
             /\ {r.in, r.out} \subseteq Index \cup {None}
             /\ r.sent \in 0..MaxBytes /\ r.left \in 0..MaxLen
             /\ (r.st \in {"blocked", "woken"}) = (r.call \in {"read", "write"})

\* The neighbours in a pipeline all of whose stages have been started.
Neighbours == {wr \in Pids \X Pids :
                 \E s \in Shells : /\ Started(s) = Stages
                                   /\ \E n \in 2..Stages : wr = <<shell[s].pids[n - 1], shell[s].pids[n]>>}

\* What a stage reads is what the stage before it wrote, from the first byte
\* and in order, through every block and wake; and when it is told that this
\* is the end, it has had it all (pipe_write, pipe_read, stream_release).
EndToEnd ==
    \A wr \in Neighbours :
        LET w == proc[wr[1]]
            r == proc[wr[2]]
        IN  /\ r.got = [x \in 1..Len(r.got) |-> <<wr[1], x>>]
            /\ Len(r.got) <= w.sent
            /\ r.eof => w.st = "dead" /\ Len(r.got) = w.sent

\* The ring keeps its count and hands on what it was given, whole.
Carried == TypeOK /\ EndToEnd

\* Nobody is blocked on a pipe that will not move: a blocked reader's is empty
\* with its writer alive, a blocked writer's is full with its reader alive or
\* still to be started (process_wake_pipe, pipe_close).
NoStuck ==
    \A p \in Pids : proc[p].st = "blocked" =>
        IF proc[p].call = "read"
        THEN LET q == pipes[proc[p].in]
             IN  q.count = 0 /\ q.wopen /\ Live(proc, q.wpid)
        ELSE LET q == pipes[proc[p].out]
             IN  q.count = Cap /\ q.ropen /\ (q.rpid = 0 \/ Live(proc, q.rpid))

\* A pipe in use is one that a shell is still busy with: a pipeline that has
\* ended, or was given up, leaves none behind (pipe_maybe_free, pipe_close).
NoLeak ==
    \A i \in Index : pipes[i].inUse =>
        \E s \in Shells : \E k \in DOMAIN shell[s].pfd : shell[s].pfd[k] = i
=============================================================================
