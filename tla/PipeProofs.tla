----------------------------- MODULE PipeProofs -----------------------------
(***************************************************************************)
(* Proofs about module Pipe, for any number of pipes, shells, stages and   *)
(* processes and any size of the ring.                                     *)
(*                                                                         *)
(* Pipes are known by index alone, and a shell keeps the indices of pipes  *)
(* that may have been freed and given to another.  What makes that         *)
(* harmless is PInv: a pipe that is still to get an end cannot have been   *)
(* freed (WaitingOK), a pipe in use has one pipeline it belongs to         *)
(* (Owned), and its ends and its processes point at each other (EndsOK,    *)
(* Links, Seats).  Flows adds what is in the rings.                        *)
(*                                                                         *)
(* A shell that gives up a pipeline it has begun closes every index it     *)
(* has, also one that another shell has by now; so the theorems are about  *)
(* instances in which a shell that may fail is the only one (OneFails).    *)
(***************************************************************************)
EXTENDS Pipe, TLAPS, SequenceTheorems, WellFoundedInduction

\* A command is missing only where there is one shell.
OneFails == \A c \in Setups : c.missing => \A s, u \in c.shells : s = u

----------------------------------------------------------------------------
(* The inductive invariant.                                                *)

Stations == {"idle", "pipes", "spawn", "unmake", "close", "kill", "wait"}
ShellType == [at : Stations, pfd : Seq(Index), pids : Seq(Pids)]

PipeType ==
    [inUse : BOOLEAN, wopen : BOOLEAN, ropen : BOOLEAN, wpid : 0..MaxPid, rpid : 0..MaxPid,
     head : 0..(Cap - 1), tail : 0..(Cap - 1), count : 0..Cap, buf : [0..(Cap - 1) -> Bytes]]

ProcType ==
    [st : {"none", "user", "blocked", "woken", "dead"}, in : Index \cup {None}, out : Index \cup {None},
     from : 0..MaxPid, killed : BOOLEAN, call : {"none", "read", "write"}, left : 0..MaxLen,
     eof : BOOLEAN, sent : 0..MaxBytes, got : Seq(Bytes)]

\* The count is the distance between the ends of the ring.
Balanced(q) == (q.head - q.tail) % Cap = q.count % Cap

\* A process inside a call has the end it is about, and room for what is left.
InCall(r) ==
    /\ r.st \in {"blocked", "woken"} <=> r.call # "none"
    /\ r.call = "write" => r.sent + r.left <= MaxBytes /\ r.out # None
    /\ r.call = "read" => r.in # None

Types ==
    /\ setup \in Setups
    /\ nextPid \in 1..(MaxPid + 1)
    /\ pipes \in [Index -> PipeType] /\ \A i \in Index : Balanced(pipes[i])
    /\ proc \in [Pids -> ProcType]
    /\ \A p \in Pids : InCall(proc[p]) /\ (proc[p].st = "none" <=> p >= nextPid)
    /\ shell \in [Shells -> ShellType]

\* A pipeline that has all its stages, or is still on the way there.
Intact(s) ==
    \/ shell[s].at \in {"idle", "pipes", "spawn", "unmake"}
    \/ shell[s].at = "wait" /\ Started(s) = Stages

ShellsOK ==
    \A s \in Shells :
        /\ shell[s].at = "idle" => shell[s].pfd = <<>>
        /\ shell[s].at \in {"idle", "pipes", "unmake"} => shell[s].pids = <<>>
        /\ shell[s].at = "pipes" => Made(s) < Stages - 1
        /\ shell[s].at = "spawn" => Made(s) = Stages - 1 /\ Started(s) < Stages
        /\ Started(s) = Stages => Made(s) = Stages - 1
        /\ ~Intact(s) => SpawnFails /\ Started(s) < Stages
        /\ shell[s].at \in {"kill", "wait"} /\ ~Intact(s) => shell[s].pfd = <<>>

\* Every live process is one stage of one pipeline.
PidsOK ==
    /\ \A s \in Shells : \A m \in DOMAIN shell[s].pids : shell[s].pids[m] < nextPid
    /\ \A s, u \in Shells : \A m \in DOMAIN shell[s].pids, n \in DOMAIN shell[u].pids :
          shell[s].pids[m] = shell[u].pids[n] => s = u /\ m = n
    /\ \A p \in Pids : Live(proc, p) =>
          \E s \in Shells : \E n \in DOMAIN shell[s].pids : shell[s].pids[n] = p

\* A pipe that is still to get its reader is in use, and is nobody else's.
Waiting(s, k) ==
    shell[s].at \in {"pipes", "spawn", "unmake"} /\ k \in DOMAIN shell[s].pfd /\ k >= Started(s)
WaitingOK ==
    \A s \in Shells : \A k \in DOMAIN shell[s].pfd : Waiting(s, k) =>
        /\ pipes[shell[s].pfd[k]].inUse /\ pipes[shell[s].pfd[k]].rpid = 0
        /\ k > Started(s) => pipes[shell[s].pfd[k]].wpid = 0 /\ pipes[shell[s].pfd[k]].count = 0
        /\ k = Started(s) => pipes[shell[s].pfd[k]].wpid = shell[s].pids[k]
        /\ \A u \in Shells : \A m \in DOMAIN shell[u].pfd :
             Waiting(u, m) /\ shell[u].pfd[m] = shell[s].pfd[k] => u = s /\ m = k

\* A pipe in use is one of a pipeline's, between two of its stages.
PidAt(s, k) == IF k <= Started(s) THEN shell[s].pids[k] ELSE 0
OwnedBy(i, s, k) ==
    /\ k \in DOMAIN shell[s].pfd /\ shell[s].pfd[k] = i
    /\ Intact(s) => pipes[i].wpid = PidAt(s, k) /\ pipes[i].rpid = PidAt(s, k + 1)
Owned ==
    \A i \in Index : pipes[i].inUse => \E s \in Shells : \E k \in DOMAIN shell[s].pfd : OwnedBy(i, s, k)

\* An end is open as long as its process lives or is still to come.
EndsAt(i) ==
    /\ pipes[i].wopen <=> pipes[i].wpid = 0 \/ Live(proc, pipes[i].wpid)
    /\ pipes[i].ropen <=> pipes[i].rpid = 0 \/ Live(proc, pipes[i].rpid)
    /\ pipes[i].wopen \/ pipes[i].ropen
    /\ pipes[i].rpid # 0 => pipes[i].wpid # 0
    /\ pipes[i].wpid # 0 => pipes[i].wpid # pipes[i].rpid
    /\ Live(proc, pipes[i].wpid) => proc[pipes[i].wpid].out = i
    /\ Live(proc, pipes[i].rpid) => proc[pipes[i].rpid].in = i
    /\ pipes[i].wpid < nextPid /\ pipes[i].rpid < nextPid
EndsOK ==
    \A i \in Index : /\ ~pipes[i].inUse => ~pipes[i].wopen /\ ~pipes[i].ropen
                     /\ pipes[i].inUse => EndsAt(i)

\* A process's ends are its own, or were closed by a shell that gave up.
Links ==
    \A p \in Pids : Live(proc, p) =>
        /\ proc[p].in # None =>
             IF pipes[proc[p].in].inUse THEN pipes[proc[p].in].rpid = p ELSE \E s \in Shells : ~Intact(s)
        /\ proc[p].out # None =>
             IF pipes[proc[p].out].inUse THEN pipes[proc[p].out].wpid = p ELSE \E s \in Shells : ~Intact(s)

Seats ==
    \A s \in Shells : Intact(s) => \A n \in DOMAIN shell[s].pids :
        Live(proc, shell[s].pids[n]) =>
            /\ proc[shell[s].pids[n]].in = IF n > 1 THEN shell[s].pfd[n - 1] ELSE None
            /\ proc[shell[s].pids[n]].out = IF n < Stages THEN shell[s].pfd[n] ELSE None

Wiring == ShellsOK /\ PidsOK /\ WaitingOK /\ Owned /\ EndsOK /\ Links /\ Seats
PInv == Types /\ Wiring /\ NoStuck

----------------------------------------------------------------------------
(* Facts about a state.                                                    *)

\* The numbers a setup gives.
LEMMA SetupFacts ==
    ASSUME setup \in Setups
    PROVE  /\ MaxPid \in Nat /\ Stages \in Nat /\ Stages >= 2 /\ MaxBytes \in Nat /\ MaxLen \in Nat
           /\ SpawnFails \in BOOLEAN /\ Cap \in Nat /\ Cap >= 1 /\ MaxPipes \in Nat
           /\ Pids = 1..MaxPid /\ 0 \notin Pids /\ Pids \subseteq Nat /\ Index \subseteq Nat
           /\ None \notin Index /\ None \notin Int
  BY PipeAssumption DEF Setup, MaxPid, Stages, MaxBytes, MaxLen, SpawnFails, Pids, Index

\* The lists of a shell.
LEMMA ShellFacts ==
    ASSUME Types, NEW s \in Shells
    PROVE  /\ shell[s].pfd \in Seq(Index) /\ shell[s].pids \in Seq(Pids) /\ shell[s].at \in Stations
           /\ shell[s] \in ShellType
           /\ Made(s) \in Nat /\ Started(s) \in Nat
           /\ DOMAIN shell[s].pfd = 1..Made(s) /\ DOMAIN shell[s].pids = 1..Started(s)
           /\ \A k \in DOMAIN shell[s].pfd : shell[s].pfd[k] \in Index
           /\ \A k \in DOMAIN shell[s].pids : shell[s].pids[k] \in Pids
  <1>1. shell[s] \in ShellType
    BY DEF Types
  <1>2. shell[s].pfd \in Seq(Index) /\ shell[s].pids \in Seq(Pids) /\ shell[s].at \in Stations
    BY <1>1 DEF ShellType
  <1> QED
    BY <1>1, <1>2 DEF Made, Started

\* Where a pipeline was given up there is no other shell.
LEMMA OnlyShell ==
    ASSUME OneFails, Types, ShellsOK, NEW s \in Shells, ~Intact(s)
    PROVE  \A u \in Shells : u = s
  BY SetupFacts DEF OneFails, Types, ShellsOK, SpawnFails, Shells

\* A step that leaves the ends, the shells and who lives as they are.
LEMMA WiringKept ==
    ASSUME Types, Wiring, UNCHANGED <<setup, shell, nextPid>>,
           \A i \in Index : /\ pipes'[i].inUse = pipes[i].inUse
                            /\ pipes'[i].wopen = pipes[i].wopen /\ pipes'[i].ropen = pipes[i].ropen
                            /\ pipes'[i].wpid = pipes[i].wpid /\ pipes'[i].rpid = pipes[i].rpid
                            /\ pipes[i].inUse /\ pipes[i].wpid = 0 => pipes'[i].count = pipes[i].count,
           \A p \in Pids : /\ Live(proc', p) <=> Live(proc, p)
                           /\ proc'[p].in = proc[p].in /\ proc'[p].out = proc[p].out
    PROVE  Wiring'
  <1>1. /\ Shells' = Shells /\ Stages' = Stages /\ SpawnFails' = SpawnFails /\ Pids' = Pids /\ MaxPid' = MaxPid
        /\ \A s : /\ Intact(s)' <=> Intact(s)
                  /\ Made(s)' = Made(s) /\ Started(s)' = Started(s)
                  /\ \A k : (Waiting(s, k)' <=> Waiting(s, k)) /\ PidAt(s, k)' = PidAt(s, k)
    BY DEF Shells, Stages, SpawnFails, Pids, MaxPid, Intact, Made, Started, Waiting, PidAt
  <1>2. \A x : Live(proc, x)' <=> Live(proc, x)
    BY <1>1 DEF Live
  <1>3. ShellsOK' /\ PidsOK'
    BY <1>1, <1>2 DEF Wiring, ShellsOK, PidsOK
  <1>4. WaitingOK'
    BY <1>1, ShellFacts DEF Wiring, WaitingOK, Waiting
  <1>5. \A i \in Index : \A s, k : OwnedBy(i, s, k)' <=> OwnedBy(i, s, k)
    BY <1>1 DEF OwnedBy
  <1>6. Owned'
    BY <1>1, <1>5 DEF Wiring, Owned
  <1>7. ASSUME NEW i \in Index, EndsAt(i)
        PROVE  EndsAt(i)'
    <2>1. /\ Live(proc, pipes[i].wpid)' <=> Live(proc, pipes[i].wpid)
          /\ Live(proc, pipes[i].rpid)' <=> Live(proc, pipes[i].rpid)
      BY <1>2
    <2>2. /\ Live(proc, pipes[i].wpid) => proc'[pipes[i].wpid].out = proc[pipes[i].wpid].out
          /\ Live(proc, pipes[i].rpid) => proc'[pipes[i].rpid].in = proc[pipes[i].rpid].in
      BY DEF Live
    <2> QED
      BY <1>7, <2>1, <2>2 DEF EndsAt
  <1>8. EndsOK'
    BY <1>7 DEF Wiring, EndsOK
  <1>9. Links'
    <2>1. \A p \in Pids : proc[p].in \in Index \cup {None} /\ proc[p].out \in Index \cup {None}
      BY DEF Types, ProcType
    <2> QED
      BY <1>1, <1>2, <2>1 DEF Wiring, Links
  <1>10. Seats'
    BY <1>1, <1>2, ShellFacts DEF Wiring, Seats
  <1> QED
    BY <1>3, <1>4, <1>6, <1>8, <1>9, <1>10 DEF Wiring

\* The types do not change.
LEMMA TypesFixed ==
    ASSUME UNCHANGED setup
    PROVE  /\ PipeType' = PipeType /\ ProcType' = ProcType /\ ShellType' = ShellType
           /\ Shells' = Shells /\ Pids' = Pids /\ Stages' = Stages /\ MaxPid' = MaxPid
           /\ MaxBytes' = MaxBytes /\ MaxLen' = MaxLen /\ SpawnFails' = SpawnFails
           /\ \A r : InCall(r)' <=> InCall(r)
  BY DEF PipeType, ProcType, ShellType, Shells, Pids, Stages, MaxPid, MaxBytes, MaxLen, SpawnFails,
         Bytes, InCall

\* What a wake-up or a kill leaves of a process: everything but its sleep.
Nudged(r, q) ==
    /\ q.in = r.in /\ q.out = r.out /\ q.from = r.from /\ q.call = r.call /\ q.left = r.left
    /\ q.eof = r.eof /\ q.sent = r.sent /\ q.got = r.got
    /\ q.st = r.st \/ (r.st = "blocked" /\ q.st = "woken")

\* process_wake_pipe
LEMMA WokenFacts ==
    ASSUME NEW t \in [Pids -> ProcType]
    PROVE  /\ Woken(t) \in [Pids -> ProcType]
           /\ \A p \in Pids : Nudged(t[p], Woken(t)[p]) /\ Woken(t)[p].st # "blocked"
  <1> SUFFICES ASSUME NEW p \in Pids
               PROVE  /\ Woken(t)[p] \in ProcType /\ Nudged(t[p], Woken(t)[p])
                      /\ Woken(t)[p].st # "blocked"
    BY DEF Woken
  <1>1. t[p] \in ProcType
    OBVIOUS
  <1>2. Woken(t)[p] = IF t[p].st = "blocked" THEN [t[p] EXCEPT !.st = "woken"] ELSE t[p]
    BY DEF Woken
  <1> QED
    BY <1>1, <1>2, ZenonT(60) DEF ProcType, Nudged

\* A signal that ends a process.
LEMMA KilledFacts ==
    ASSUME NEW t \in [Pids -> ProcType], NEW x
    PROVE  /\ Killed(t, x) \in [Pids -> ProcType]
           /\ \A p \in Pids : Nudged(t[p], Killed(t, x)[p])
  <1>1. CASE Live(t, x)
    <2> DEFINE st == IF t[x].st = "blocked" THEN "woken" ELSE t[x].st
               q == [t[x] EXCEPT !.killed = TRUE, !.st = st]
    <2>1. x \in Pids /\ t[x] \in ProcType
      BY <1>1 DEF Live
    <2>2. Killed(t, x) = [t EXCEPT ![x] = q]
      BY <1>1 DEF Killed
    <2>3. q \in ProcType /\ Nudged(t[x], q)
      BY <2>1 DEF ProcType, Nudged
    <2> HIDE DEF q
    <2>4. \A p \in Pids : Nudged(t[p], t[p])
      BY DEF Nudged
    <2> QED
      BY <2>1, <2>2, <2>3, <2>4
  <1>2. CASE ~Live(t, x)
    BY <1>2 DEF Killed, Nudged
  <1> QED
    BY <1>1, <1>2

\* It leaves a process alive, and in its call.
LEMMA NudgedFacts ==
    ASSUME NEW t, NEW u, NEW p \in Pids, Nudged(t[p], u[p])
    PROVE  /\ Live(u, p) <=> Live(t, p)
           /\ InCall(t[p]) => InCall(u[p])
           /\ u[p].st = "none" <=> t[p].st = "none"
           /\ u[p].st = "dead" <=> t[p].st = "dead"
           /\ u[p].st = "blocked" => t[p].st = "blocked"
  BY DEF Nudged, Live, InCall

\* Nobody sleeps on a pipe that is not in use.
LEMMA BlockedInUse ==
    ASSUME PInv, NEW p \in Pids, proc[p].st = "blocked"
    PROVE  /\ proc[p].call = "read" => proc[p].in \in Index /\ pipes[proc[p].in].inUse
           /\ proc[p].call # "read" => proc[p].out \in Index /\ pipes[proc[p].out].inUse
           /\ proc[p].call \in {"read", "write"}
  <1>1. proc[p] \in ProcType /\ InCall(proc[p])
    BY DEF PInv, Types
  <1>2. /\ proc[p].call \in {"read", "write"}
        /\ proc[p].call = "read" => proc[p].in \in Index
        /\ proc[p].call # "read" => proc[p].out \in Index
    BY <1>1 DEF InCall, ProcType
  <1>3. /\ proc[p].call = "read" => pipes[proc[p].in].wopen
        /\ proc[p].call # "read" => pipes[proc[p].out].ropen
    BY DEF PInv, NoStuck
  <1> QED
    BY <1>2, <1>3 DEF PInv, Wiring, EndsOK

\* A kill, or a close that changes nothing else, of processes: nobody who
\* slept well sleeps worse.
LEMMA NudgeStep ==
    ASSUME PInv, UNCHANGED <<setup, nextPid, pipes, shell>>, proc' \in [Pids -> ProcType],
           \A p \in Pids : Nudged(proc[p], proc'[p])
    PROVE  PInv'
  <1>1. \A p \in Pids : /\ Live(proc', p) <=> Live(proc, p)
                        /\ InCall(proc'[p])
                        /\ proc'[p].st = "none" <=> proc[p].st = "none"
                        /\ proc'[p].st = "blocked" => proc[p].st = "blocked"
                        /\ proc'[p].in = proc[p].in /\ proc'[p].out = proc[p].out
                        /\ proc'[p].call = proc[p].call
    BY NudgedFacts DEF PInv, Types, Nudged
  <1>2. Types'
    BY <1>1, TypesFixed DEF PInv, Types
  <1>3. Wiring'
    BY <1>1, WiringKept DEF PInv
  <1>4. \A x : Live(proc, x)' <=> Live(proc, x)
    BY <1>1, TypesFixed DEF Live
  <1>5. NoStuck'
    BY <1>1, <1>4, TypesFixed DEF PInv, NoStuck
  <1> QED
    BY <1>2, <1>3, <1>5 DEF PInv

\* A step of one process on its pipe that leaves the ends of all pipes alone:
\* if anything was moved, everyone else was woken.
LEMMA DataStep ==
    ASSUME PInv, UNCHANGED <<setup, nextPid, shell>>, NEW p \in Pids, Live(proc, p),
           NEW r \in ProcType, InCall(r), r.st \in {"user", "blocked"},
           r.in = proc[p].in, r.out = proc[p].out,
           pipes' \in [Index -> PipeType], \A i \in Index : Balanced(pipes'[i]),
           NEW t \in {proc, Woken(proc)}, proc' = [t EXCEPT ![p] = r],
           (\E x \in Pids : t[x].st = "blocked") => \A i \in Index : pipes'[i].count = pipes[i].count,
           \A i \in Index : /\ pipes'[i].inUse = pipes[i].inUse
                            /\ pipes'[i].wopen = pipes[i].wopen /\ pipes'[i].ropen = pipes[i].ropen
                            /\ pipes'[i].wpid = pipes[i].wpid /\ pipes'[i].rpid = pipes[i].rpid
                            /\ pipes[i].inUse /\ pipes[i].wpid = 0 => pipes'[i].count = pipes[i].count,
           r.st = "blocked" /\ r.call = "read" =>
               /\ pipes'[r.in].count = 0 /\ pipes[r.in].wopen
               /\ Live(proc, pipes[r.in].wpid),
           r.st = "blocked" /\ r.call # "read" =>
               /\ pipes'[r.out].count = Cap /\ pipes[r.out].ropen
               /\ pipes[r.out].rpid = 0 \/ Live(proc, pipes[r.out].rpid)
    PROVE  PInv'
  <1>1. proc \in [Pids -> ProcType] /\ t \in [Pids -> ProcType]
    BY WokenFacts DEF PInv, Types
  <1>2. \A x \in Pids : /\ Live(t, x) <=> Live(proc, x)
                        /\ InCall(t[x])
                        /\ t[x].st = "none" <=> proc[x].st = "none"
                        /\ t[x].st = "blocked" => proc[x].st = "blocked" /\ t = proc
                        /\ t[x].in = proc[x].in /\ t[x].out = proc[x].out /\ t[x].call = proc[x].call
    <2>1. CASE t = proc
      BY <2>1 DEF PInv, Types
    <2>2. CASE t = Woken(proc)
      <3>1. \A x \in Pids : Nudged(proc[x], t[x]) /\ t[x].st # "blocked"
        BY <1>1, <2>2, WokenFacts
      <3> QED
        BY <3>1, NudgedFacts DEF PInv, Types, Nudged
    <2> QED
      BY <2>1, <2>2
  <1>3. /\ proc' \in [Pids -> ProcType]
        /\ proc'[p] = r /\ \A x \in Pids : x # p => proc'[x] = t[x]
    BY <1>1
  <1>4. \A x \in Pids : /\ Live(proc', x) <=> Live(proc, x)
                        /\ InCall(proc'[x])
                        /\ proc'[x].st = "none" <=> proc[x].st = "none"
                        /\ proc'[x].in = proc[x].in /\ proc'[x].out = proc[x].out
    BY <1>2, <1>3 DEF Live
  <1>5. Types'
    BY <1>3, <1>4, TypesFixed DEF PInv, Types
  <1>6. Wiring'
    BY <1>4, WiringKept DEF PInv
  <1>7. \A x : Live(proc, x)' <=> Live(proc, x)
    BY <1>4, TypesFixed DEF Live
  <1>8. NoStuck'
    <2> SUFFICES ASSUME NEW x \in Pids, proc'[x].st = "blocked"
                 PROVE  IF proc'[x].call = "read"
                        THEN LET q == pipes'[proc'[x].in]
                             IN  q.count = 0 /\ q.wopen /\ Live(proc, q.wpid)
                        ELSE LET q == pipes'[proc'[x].out]
                             IN  q.count = Cap /\ q.ropen /\ (q.rpid = 0 \/ Live(proc, q.rpid))
      BY <1>7, TypesFixed DEF NoStuck
    <2>1. CASE x = p
      <3>1. r.call = "read" => r.in \in Index
        BY DEF InCall, ProcType
      <3>2. r.call # "read" => r.out \in Index
        BY <1>3, <2>1 DEF InCall, ProcType
      <3> QED
        BY <1>3, <2>1, <3>1, <3>2
    <2>2. CASE x # p
      <3>1. proc[x].st = "blocked" /\ t = proc /\ proc'[x] = proc[x]
        BY <1>2, <1>3, <2>2
      <3>2. \A i \in Index : pipes'[i].count = pipes[i].count
        BY <3>1
      <3>3. /\ proc[x].call = "read" => proc[x].in \in Index
            /\ proc[x].call # "read" => proc[x].out \in Index
        BY <3>1, BlockedInUse
      <3> QED
        BY <3>1, <3>2, <3>3 DEF PInv, NoStuck
    <2> QED
      BY <2>1, <2>2
  <1> QED
    BY <1>5, <1>6, <1>8 DEF PInv

----------------------------------------------------------------------------
(* Arithmetic of the ring.                                                 *)

\* Remainders of what is less than one round away.
LEMMA ModFacts ==
    /\ \A x \in 0..(Cap - 1) : x % Cap = x
    /\ \A x \in Cap..(2 * Cap - 1) : x % Cap = x - Cap
    /\ \A x \in (-Cap)..(-1) : x % Cap = x + Cap
  <1>1. Cap \in Nat \ {0}
    BY PipeAssumption
  <1>2. ASSUME NEW C \in Nat \ {0}, NEW x \in 0..(C - 1)
        PROVE  x % C = x
    OBVIOUS
  <1>3. ASSUME NEW C \in Nat \ {0}, NEW x \in C..(2 * C - 1)
        PROVE  x % C = x - C
    OBVIOUS
  <1>4. ASSUME NEW C \in Nat \ {0}, NEW x \in (-C)..(-1)
        PROVE  x % C = x + C
    OBVIOUS
  <1> QED
    BY <1>1, <1>2, <1>3, <1>4

\* Where the head is, by the tail and the count.
LEMMA HeadAt ==
    ASSUME NEW h \in 0..(Cap - 1), NEW t \in 0..(Cap - 1), NEW c \in 0..Cap, (h - t) % Cap = c % Cap
    PROVE  /\ t + c < Cap => h = t + c
           /\ ~(t + c < Cap) => h = t + c - Cap
  <1>1. Cap \in Nat \ {0}
    BY PipeAssumption
  <1>2. CASE h >= t
    <2>1. (h - t) % Cap = h - t
      BY <1>1, <1>2, ModFacts
    <2>2. CASE c < Cap
      <3>1. c % Cap = c
        BY <1>1, <2>2, ModFacts
      <3> QED
        BY <1>1, <1>2, <2>1, <2>2, <3>1
    <2>3. CASE c = Cap
      <3>1. c % Cap = 0
        BY <1>1, <2>3, ModFacts
      <3> QED
        BY <1>1, <1>2, <2>1, <2>3, <3>1
    <2> QED
      BY <1>1, <2>2, <2>3
  <1>3. CASE h < t
    <2>1. (h - t) % Cap = h - t + Cap
      BY <1>1, <1>3, ModFacts
    <2>2. CASE c < Cap
      <3>1. c % Cap = c
        BY <1>1, <2>2, ModFacts
      <3> QED
        BY <1>1, <1>3, <2>1, <2>2, <3>1
    <2>3. CASE c = Cap
      <3>1. c % Cap = 0
        BY <1>1, <2>3, ModFacts
      <3> QED
        BY <1>1, <1>3, <2>1, <2>3, <3>1
    <2> QED
      BY <1>1, <2>2, <2>3
  <1> QED
    BY <1>1, <1>2, <1>3

\* ... and where it is says how many there are.
LEMMA CountAt ==
    ASSUME NEW h \in 0..(Cap - 1), NEW t \in 0..(Cap - 1), NEW c \in 0..Cap,
           t + c < Cap => h = t + c,
           ~(t + c < Cap) => h = t + c - Cap
    PROVE  (h - t) % Cap = c % Cap
  <1>1. Cap \in Nat \ {0}
    BY PipeAssumption
  <1>2. CASE t + c < Cap
    <2>1. h - t = c
      BY <1>1, <1>2
    <2> QED
      BY <2>1
  <1>3. CASE ~(t + c < Cap) /\ c < Cap
    <2>1. h - t = c - Cap /\ h - t \in (-Cap)..(-1) /\ c \in 0..(Cap - 1)
      BY <1>1, <1>3
    <2>2. (h - t) % Cap = h - t + Cap /\ c % Cap = c
      BY <2>1, ModFacts
    <2> QED
      BY <1>1, <2>1, <2>2
  <1>4. CASE c = Cap
    <2>1. h - t = 0 /\ 0 \in 0..(Cap - 1) /\ Cap \in Cap..(2 * Cap - 1)
      BY <1>1, <1>4
    <2>2. 0 % Cap = 0 /\ Cap % Cap = Cap - Cap
      BY <2>1, ModFacts
    <2> QED
      BY <1>1, <1>4, <2>1, <2>2
  <1> QED
    BY <1>1, <1>2, <1>3, <1>4

\* A sum of two places.
LEMMA PlaceSum ==
    ASSUME NEW x \in 0..(Cap - 1), NEW k \in 0..Cap
    PROVE  /\ (x + k) % Cap \in 0..(Cap - 1)
           /\ (x + k) % Cap = IF x + k < Cap THEN x + k ELSE x + k - Cap
  <1>1. Cap \in Nat \ {0}
    BY PipeAssumption
  <1>2. CASE x + k < Cap
    <2>1. x + k \in 0..(Cap - 1)
      BY <1>1, <1>2
    <2> QED
      BY <1>2, <2>1, ModFacts
  <1>3. CASE ~(x + k < Cap)
    <2>1. x + k \in Cap..(2 * Cap - 1)
      <3>1. x \in Int /\ k \in Int /\ Cap \in Int /\ x <= Cap - 1 /\ k <= Cap /\ x + k >= Cap
        BY <1>1, <1>3
      <3> QED
        BY <3>1
    <2>2. \A y \in Cap..(2 * Cap - 1) : y % Cap = y - Cap
      BY ModFacts
    <2>3. (x + k) % Cap = (x + k) - Cap
      BY <2>1, <2>2
    <2> QED
      BY <1>1, <1>3, <2>1, <2>3
  <1> QED
    BY <1>2, <1>3

\* k more are put in; k are taken out.
LEMMA PutBalanced ==
    ASSUME NEW h \in 0..(Cap - 1), NEW t \in 0..(Cap - 1), NEW c \in 0..Cap, (h - t) % Cap = c % Cap,
           NEW k \in 0..(Cap - c)
    PROVE  (((h + k) % Cap) - t) % Cap = (c + k) % Cap
  <1> DEFINE g == (h + k) % Cap
  <1>1. Cap \in Nat \ {0} /\ k \in 0..Cap /\ c + k \in 0..Cap
    BY PipeAssumption
  <1>2. g \in 0..(Cap - 1) /\ g = IF h + k < Cap THEN h + k ELSE h + k - Cap
    BY <1>1, PlaceSum
  <1>3. /\ t + c < Cap => h = t + c
        /\ ~(t + c < Cap) => h = t + c - Cap
    BY HeadAt
  <1> HIDE DEF g
  <1>4. /\ t + (c + k) < Cap => g = t + (c + k)
        /\ ~(t + (c + k) < Cap) => g = t + (c + k) - Cap
    BY <1>1, <1>2, <1>3
  <1>5. (g - t) % Cap = (c + k) % Cap
    BY <1>1, <1>2, <1>4, CountAt
  <1> QED
    BY <1>5 DEF g

LEMMA TakeBalanced ==
    ASSUME NEW h \in 0..(Cap - 1), NEW t \in 0..(Cap - 1), NEW c \in 0..Cap, (h - t) % Cap = c % Cap,
           NEW k \in 0..c
    PROVE  (h - ((t + k) % Cap)) % Cap = (c - k) % Cap
  <1> DEFINE g == (t + k) % Cap
  <1>1. Cap \in Nat \ {0} /\ k \in 0..Cap /\ c - k \in 0..Cap
    BY PipeAssumption
  <1>2. g \in 0..(Cap - 1) /\ g = IF t + k < Cap THEN t + k ELSE t + k - Cap
    BY <1>1, PlaceSum
  <1>3. /\ t + c < Cap => h = t + c
        /\ ~(t + c < Cap) => h = t + c - Cap
    BY HeadAt
  <1> HIDE DEF g
  <1>4. /\ g + (c - k) < Cap => h = g + (c - k)
        /\ ~(g + (c - k) < Cap) => h = g + (c - k) - Cap
    BY <1>1, <1>2, <1>3
  <1>5. (h - g) % Cap = (c - k) % Cap
    BY <1>1, <1>2, <1>4, CountAt
  <1> QED
    BY <1>5 DEF g

----------------------------------------------------------------------------
(* The two ends.                                                           *)

\* The process at an open end, and who is at the other one.
LEMMA AtTheEnd ==
    ASSUME PInv, NEW p \in Pids, Live(proc, p)
    PROVE  /\ proc[p] \in ProcType /\ InCall(proc[p])
           /\ proc[p].out # None =>
                /\ proc[p].out \in Index
                /\ pipes[proc[p].out].ropen =>
                     /\ pipes[proc[p].out].inUse /\ pipes[proc[p].out].wpid = p
                     /\ pipes[proc[p].out].rpid = 0 \/ Live(proc, pipes[proc[p].out].rpid)
           /\ proc[p].in # None =>
                /\ proc[p].in \in Index
                /\ pipes[proc[p].in].wopen =>
                     /\ pipes[proc[p].in].inUse /\ pipes[proc[p].in].rpid = p
                     /\ Live(proc, pipes[proc[p].in].wpid)
  <1>1. proc[p] \in ProcType /\ InCall(proc[p])
    BY DEF PInv, Types
  <1>2. proc[p].in \in Index \cup {None} /\ proc[p].out \in Index \cup {None}
    BY <1>1 DEF ProcType
  <1>3. p # 0
    BY SetupFacts DEF PInv, Types
  <1>4. ASSUME proc[p].out # None, pipes[proc[p].out].ropen
        PROVE  /\ pipes[proc[p].out].inUse /\ pipes[proc[p].out].wpid = p
               /\ pipes[proc[p].out].rpid = 0 \/ Live(proc, pipes[proc[p].out].rpid)
    BY <1>2, <1>4 DEF PInv, Wiring, EndsOK, EndsAt, Links
  <1>5. ASSUME proc[p].in # None, pipes[proc[p].in].wopen
        PROVE  /\ pipes[proc[p].in].inUse /\ pipes[proc[p].in].rpid = p
               /\ Live(proc, pipes[proc[p].in].wpid)
    BY <1>2, <1>3, <1>5 DEF PInv, Wiring, EndsOK, EndsAt, Links
  <1> QED
    BY <1>1, <1>2, <1>4, <1>5

\* The least of two numbers.
LEMMA LeastFacts ==
    ASSUME NEW a \in Nat, NEW b \in Nat
    PROVE  Least(a, b) \in Nat /\ Least(a, b) <= a /\ Least(a, b) <= b /\ Least(a, b) \in {a, b}
  BY DEF Least

\* What pipe_write's inner loop makes of a pipe.
LEMMA PutFacts ==
    ASSUME setup \in Setups, NEW q \in PipeType, Balanced(q), NEW p \in Pids, NEW from \in Nat,
           NEW k \in 0..(Cap - q.count), from + k <= MaxBytes
    PROVE  /\ Put(q, p, from, k) \in PipeType /\ Balanced(Put(q, p, from, k))
           /\ Put(q, p, from, k).inUse = q.inUse
           /\ Put(q, p, from, k).wopen = q.wopen /\ Put(q, p, from, k).ropen = q.ropen
           /\ Put(q, p, from, k).wpid = q.wpid /\ Put(q, p, from, k).rpid = q.rpid
           /\ Put(q, p, from, k).count = q.count + k /\ Put(q, p, from, k).tail = q.tail
           /\ Put(q, p, from, k).head = (q.head + k) % Cap
           /\ \A x \in 0..(Cap - 1) :
                Put(q, p, from, k).buf[x] = IF (x - q.head) % Cap < k
                                            THEN <<p, from + ((x - q.head) % Cap) + 1>> ELSE q.buf[x]
  <1> DEFINE b == [x \in 0..(Cap - 1) |->
                     LET d == (x - q.head) % Cap
                     IN  IF d < k THEN <<p, from + d + 1>> ELSE q.buf[x]]
             h == (q.head + k) % Cap
             c == q.count + k
  <1>1. /\ q.head \in 0..(Cap - 1) /\ q.tail \in 0..(Cap - 1) /\ q.count \in 0..Cap
        /\ q.buf \in [0..(Cap - 1) -> Bytes] /\ (q.head - q.tail) % Cap = q.count % Cap
    BY DEF PipeType, Balanced
  <1>2. k \in 0..Cap /\ k \in Nat /\ c \in 0..Cap
    <2>1. Cap \in Nat
      BY SetupFacts
    <2> QED
      BY <1>1, <2>1
  <1>3. h \in 0..(Cap - 1)
    BY <1>1, <1>2, PlaceSum
  <1>4. (h - q.tail) % Cap = c % Cap
    BY <1>1, PutBalanced
  <1>5. b \in [0..(Cap - 1) -> Bytes]
    <2> SUFFICES ASSUME NEW x \in 0..(Cap - 1)
                 PROVE  (IF (x - q.head) % Cap < k THEN <<p, from + ((x - q.head) % Cap) + 1>>
                         ELSE q.buf[x]) \in Bytes
      OBVIOUS
    <2> DEFINE d == (x - q.head) % Cap
    <2>1. x - q.head \in Int /\ Cap \in Nat \ {0}
      BY <1>1, PipeAssumption
    <2>2. d \in Nat
      BY <2>1
    <2> HIDE DEF d
    <2>3. d < k => <<p, from + d + 1>> \in Bytes
      <3>1. p \in 0..MaxPid /\ MaxBytes \in Nat
        BY SetupFacts
      <3>2. d < k => from + d + 1 \in 0..MaxBytes
        BY <1>2, <2>2, <3>1
      <3> QED
        BY <3>1, <3>2 DEF Bytes
    <2> QED
      BY <1>1, <2>3 DEF d
  <1>6. Put(q, p, from, k) = [q EXCEPT !.buf = b, !.head = h, !.count = c]
    BY DEF Put
  <1>7. \A x \in 0..(Cap - 1) : b[x] = IF (x - q.head) % Cap < k
                                       THEN <<p, from + ((x - q.head) % Cap) + 1>> ELSE q.buf[x]
    OBVIOUS
  <1>8. c = q.count + k /\ h = (q.head + k) % Cap
    OBVIOUS
  <1> HIDE DEF b, h, c
  <1>9. /\ Put(q, p, from, k) \in PipeType
        /\ Put(q, p, from, k).inUse = q.inUse
        /\ Put(q, p, from, k).wopen = q.wopen /\ Put(q, p, from, k).ropen = q.ropen
        /\ Put(q, p, from, k).wpid = q.wpid /\ Put(q, p, from, k).rpid = q.rpid
        /\ Put(q, p, from, k).count = c /\ Put(q, p, from, k).tail = q.tail
        /\ Put(q, p, from, k).head = h /\ Put(q, p, from, k).buf = b
    BY <1>2, <1>3, <1>5, <1>6 DEF PipeType
  <1>10. Balanced(Put(q, p, from, k))
    BY <1>4, <1>9 DEF Balanced
  <1> QED
    BY <1>7, <1>8, <1>9, <1>10

\* pipe_write
LEMMA WriteStep ==
    ASSUME PInv, UNCHANGED setup, NEW p \in Pids, Live(proc, p), proc[p].out # None,
           NEW n \in 0..MaxLen, proc[p].sent + n <= MaxBytes, WriteOn(p, n)
    PROVE  PInv'
  <1> DEFINE i == proc[p].out
             k == Least(n, Cap - pipes[i].count)
             after == IF k > 0 THEN Woken(proc) ELSE proc
             r == [proc[p] EXCEPT !.sent = @ + k, !.left = n - k,
                                  !.st = IF k < n THEN "blocked" ELSE "user",
                                  !.call = IF k < n THEN "write" ELSE "none"]
             g == [proc[p] EXCEPT !.st = "user", !.call = "none", !.left = 0]
  <1>1. /\ proc[p] \in ProcType /\ i \in Index /\ pipes \in [Index -> PipeType]
        /\ proc \in [Pids -> ProcType]
        /\ UNCHANGED <<shell, nextPid>> /\ setup \in Setups
        /\ \A x \in Index : Balanced(pipes[x])
    BY AtTheEnd DEF PInv, Types, WriteOn
  <1>2. /\ pipes[i].count \in 0..Cap /\ proc[p].sent \in Nat /\ Cap \in Nat /\ MaxLen \in Nat /\ n \in Nat
        /\ MaxBytes \in Nat
    BY <1>1, SetupFacts DEF PipeType, ProcType
  <1>3. /\ k \in Nat /\ k <= n /\ k \in 0..(Cap - pipes[i].count)
        /\ k < n => k = Cap - pipes[i].count
    <2>1. Cap - pipes[i].count \in Nat
      BY <1>2
    <2>2. k \in Nat /\ k <= n /\ k <= Cap - pipes[i].count /\ k \in {n, Cap - pipes[i].count}
      BY <1>2, <2>1, LeastFacts
    <2> QED
      BY <1>2, <2>1, <2>2
  <1>4. CASE pipes[i].ropen
    <2> DEFINE q == Put(pipes[i], p, proc[p].sent, k)
    <2>1. pipes' = [pipes EXCEPT ![i] = q] /\ proc' = [after EXCEPT ![p] = r]
      BY <1>4 DEF WriteOn
    <2>2. /\ pipes[i].inUse /\ pipes[i].wpid = p
          /\ pipes[i].rpid = 0 \/ Live(proc, pipes[i].rpid)
      BY <1>4, AtTheEnd
    <2>3. proc[p].sent + k <= MaxBytes
      BY <1>2, <1>3
    <2>4. /\ q \in PipeType /\ Balanced(q) /\ q.inUse = pipes[i].inUse
          /\ q.wopen = pipes[i].wopen /\ q.ropen = pipes[i].ropen
          /\ q.wpid = pipes[i].wpid /\ q.rpid = pipes[i].rpid
          /\ q.count = pipes[i].count + k
      BY <1>1, <1>2, <1>3, <2>3, PutFacts
    <2>5. /\ r \in ProcType /\ r.in = proc[p].in /\ r.out = proc[p].out
          /\ r.st = (IF k < n THEN "blocked" ELSE "user")
          /\ r.call = (IF k < n THEN "write" ELSE "none")
          /\ r.sent = proc[p].sent + k /\ r.left = n - k
      <3>1. proc[p].sent + k \in 0..MaxBytes /\ n - k \in 0..MaxLen
        BY <1>2, <1>3, <2>3
      <3> HIDE DEF k, i
      <3> QED
        BY <1>1, <3>1 DEF ProcType
    <2>6. after \in {proc, Woken(proc)}
      OBVIOUS
    <2>7. (\E x \in Pids : after[x].st = "blocked") => k = 0
      <3>1. k > 0 => \A x \in Pids : after[x].st # "blocked"
        BY <1>1, WokenFacts
      <3> QED
        BY <1>3, <3>1
    <2> HIDE DEF k, after, r, q
    <2>9. InCall(r)
      <3>1. r.sent + r.left <= MaxBytes /\ r.out # None
        BY <1>2, <1>3, <2>5
      <3> QED
        BY <2>5, <3>1 DEF InCall
    <2>10. /\ pipes' \in [Index -> PipeType] /\ pipes'[i] = q
           /\ \A x \in Index : x # i => pipes'[x] = pipes[x]
      BY <1>1, <2>1, <2>4
    <2>11. /\ \A x \in Index : Balanced(pipes'[x])
           /\ \A x \in Index : /\ pipes'[x].inUse = pipes[x].inUse
                               /\ pipes'[x].wopen = pipes[x].wopen /\ pipes'[x].ropen = pipes[x].ropen
                               /\ pipes'[x].wpid = pipes[x].wpid /\ pipes'[x].rpid = pipes[x].rpid
                               /\ pipes[x].inUse /\ pipes[x].wpid = 0 => pipes'[x].count = pipes[x].count
      BY <1>1, <2>2, <2>4, <2>10, SetupFacts
    <2>12. r.st = "blocked" /\ r.call # "read" =>
             /\ pipes'[r.out].count = Cap /\ pipes[r.out].ropen
             /\ pipes[r.out].rpid = 0 \/ Live(proc, pipes[r.out].rpid)
      BY <1>2, <1>3, <1>4, <2>2, <2>4, <2>5, <2>10
    <2>13. ~(r.st = "blocked" /\ r.call = "read") /\ r.st \in {"user", "blocked"}
      BY <2>5
    <2>14. (\E x \in Pids : after[x].st = "blocked") => \A x \in Index : pipes'[x].count = pipes[x].count
      <3>1. k = 0 => q.count = pipes[i].count
        BY <1>2, <2>4
      <3> QED
        BY <2>7, <2>10, <3>1
    <2> HIDE DEF i
    <2> QED
      BY <1>1, <2>1, <2>5, <2>6, <2>9, <2>10, <2>11, <2>12, <2>13, <2>14, DataStep, ZenonT(60)
  <1>5. CASE ~pipes[i].ropen
    <2>1. pipes' = pipes /\ proc' = [proc EXCEPT ![p] = g]
      BY <1>1, <1>5 DEF WriteOn
    <2>2. /\ g \in ProcType /\ g.in = proc[p].in /\ g.out = proc[p].out /\ g.st = "user" /\ g.call = "none"
      <3>1. 0 \in 0..MaxLen
        BY <1>2
      <3> QED
        BY <1>1, <3>1 DEF ProcType
    <2> HIDE DEF g, i
    <2>3. InCall(g)
      BY <2>2 DEF InCall
    <2>4. proc \in {proc, Woken(proc)}
      OBVIOUS
    <2> QED
      BY <1>1, <2>1, <2>2, <2>3, <2>4, DataStep
  <1> QED
    BY <1>4, <1>5


\* What pipe_read takes out of a pipe.
Took(q, k) == [x \in 1..k |-> q.buf[(q.tail + x - 1) % Cap]]

LEMMA TookFacts ==
    ASSUME NEW q \in PipeType, NEW k \in 0..q.count
    PROVE  Took(q, k) \in Seq(Bytes) /\ Len(Took(q, k)) = k
  <1>1. /\ Cap \in Nat \ {0} /\ q.tail \in 0..(Cap - 1) /\ q.count \in 0..Cap
        /\ q.buf \in [0..(Cap - 1) -> Bytes]
    BY PipeAssumption DEF PipeType
  <1>2. k \in Nat /\ k <= Cap
    BY <1>1
  <1>3. ASSUME NEW x \in 1..k
        PROVE  q.buf[(q.tail + x - 1) % Cap] \in Bytes
    <2>1. x - 1 \in 0..Cap /\ q.tail + (x - 1) = q.tail + x - 1
      BY <1>1, <1>2
    <2>2. (q.tail + (x - 1)) % Cap \in 0..(Cap - 1)
      BY <1>1, <2>1, PlaceSum
    <2> QED
      BY <1>1, <2>1, <2>2
  <1>4. Took(q, k) \in [1..k -> Bytes]
    BY <1>3 DEF Took
  <1> QED
    BY <1>2, <1>4

\* pipe_read
LEMMA ReadStep ==
    ASSUME PInv, UNCHANGED setup, NEW p \in Pids, Live(proc, p), proc[p].in # None,
           NEW n \in 0..MaxLen, ReadOn(p, n)
    PROVE  PInv'
  <1> DEFINE i == proc[p].in
             k == Least(n, pipes[i].count)
             taken == Took(pipes[i], k)
             back == [proc[p] EXCEPT !.st = "user", !.call = "none", !.left = 0]
             r == [back EXCEPT !.got = @ \o taken]
             asleep == [proc[p] EXCEPT !.st = "blocked", !.call = "read", !.left = n]
             ended == [back EXCEPT !.eof = TRUE]
  <1>1. /\ proc[p] \in ProcType /\ i \in Index /\ pipes \in [Index -> PipeType]
        /\ proc \in [Pids -> ProcType]
        /\ UNCHANGED <<shell, nextPid>> /\ setup \in Setups
        /\ \A x \in Index : Balanced(pipes[x])
    BY AtTheEnd DEF PInv, Types, ReadOn
  <1>2. /\ pipes[i].count \in 0..Cap /\ Cap \in Nat /\ MaxLen \in Nat /\ n \in Nat
        /\ 0 \in 0..MaxLen /\ pipes[i].count \in Nat
    BY <1>1, SetupFacts DEF PipeType
  <1>3. k \in Nat /\ k <= n /\ k <= pipes[i].count /\ k \in 0..pipes[i].count
    <2>1. k \in Nat /\ k <= n /\ k <= pipes[i].count
      BY <1>2, LeastFacts
    <2> QED
      BY <1>2, <2>1
  <1>4. back \in ProcType /\ back.in = proc[p].in /\ back.out = proc[p].out /\ back.st = "user"
        /\ back.call = "none" /\ back.got = proc[p].got
    BY <1>1, <1>2 DEF ProcType
  <1>5. CASE ~Drained(pipes[i])
    <2> DEFINE q == [pipes[i] EXCEPT !.tail = (@ + k) % Cap, !.count = @ - k]
    <2>1. pipes' = [pipes EXCEPT ![i] = q] /\ proc' = [Woken(proc) EXCEPT ![p] = r]
      BY <1>1, <1>5 DEF ReadOn, Took
    <2>2. taken \in Seq(Bytes)
      BY <1>1, <1>3, TookFacts
    <2>3. /\ r \in ProcType /\ r.in = proc[p].in /\ r.out = proc[p].out /\ r.st = "user" /\ r.call = "none"
      <3> HIDE DEF taken, back, i, k
      <3>1. back.got \o taken \in Seq(Bytes)
        BY <1>4, <2>2 DEF ProcType
      <3> QED
        BY <1>4, <3>1 DEF ProcType
    <2>4. /\ q \in PipeType /\ Balanced(q) /\ q.inUse = pipes[i].inUse
          /\ q.wopen = pipes[i].wopen /\ q.ropen = pipes[i].ropen
          /\ q.wpid = pipes[i].wpid /\ q.rpid = pipes[i].rpid
      <3>1. /\ pipes[i] \in PipeType /\ Balanced(pipes[i])
            /\ pipes[i].head \in 0..(Cap - 1) /\ pipes[i].tail \in 0..(Cap - 1)
            /\ pipes[i].count \in 0..Cap
        BY <1>1 DEF PipeType
      <3> DEFINE tl == (pipes[i].tail + k) % Cap
                 ct == pipes[i].count - k
      <3>2. k \in 0..Cap /\ ct \in 0..Cap
        BY <1>2, <1>3
      <3>3. tl \in 0..(Cap - 1)
        BY <3>1, <3>2, PlaceSum
      <3>4. (pipes[i].head - tl) % Cap = ct % Cap
        BY <1>3, <3>1, TakeBalanced DEF Balanced
      <3>5. q = [pipes[i] EXCEPT !.tail = tl, !.count = ct]
        OBVIOUS
      <3> HIDE DEF tl, ct, q, i, k
      <3>6. /\ q \in PipeType /\ q.inUse = pipes[i].inUse
            /\ q.wopen = pipes[i].wopen /\ q.ropen = pipes[i].ropen
            /\ q.wpid = pipes[i].wpid /\ q.rpid = pipes[i].rpid
            /\ q.head = pipes[i].head /\ q.tail = tl /\ q.count = ct
        BY <3>1, <3>2, <3>3, <3>5 DEF PipeType
      <3>7. Balanced(q)
        BY <3>4, <3>6 DEF Balanced
      <3> QED
        BY <3>6, <3>7
    <2>5. pipes[i].wpid # 0 \/ ~pipes[i].inUse
      <3>1. pipes[i].inUse => pipes[i].rpid = p /\ p # 0
        BY <1>1, SetupFacts DEF PInv, Wiring, Links
      <3> QED
        BY <1>1, <3>1 DEF PInv, Wiring, EndsOK, EndsAt
    <2> HIDE DEF q, r
    <2>6. InCall(r)
      BY <2>3 DEF InCall
    <2>7. /\ pipes' \in [Index -> PipeType] /\ pipes'[i] = q
          /\ \A x \in Index : x # i => pipes'[x] = pipes[x]
      BY <1>1, <2>1, <2>4
    <2>8. /\ \A x \in Index : Balanced(pipes'[x])
          /\ \A x \in Index : /\ pipes'[x].inUse = pipes[x].inUse
                              /\ pipes'[x].wopen = pipes[x].wopen /\ pipes'[x].ropen = pipes[x].ropen
                              /\ pipes'[x].wpid = pipes[x].wpid /\ pipes'[x].rpid = pipes[x].rpid
                              /\ pipes[x].inUse /\ pipes[x].wpid = 0 => pipes'[x].count = pipes[x].count
      BY <1>1, <2>4, <2>5, <2>7
    <2>9. Woken(proc) \in {proc, Woken(proc)} /\ ~(\E x \in Pids : Woken(proc)[x].st = "blocked")
      BY <1>1, WokenFacts
    <2> HIDE DEF i, k, taken, back
    <2> QED
      BY <1>1, <2>1, <2>3, <2>6, <2>7, <2>8, <2>9, DataStep
  <1>6. CASE Drained(pipes[i]) /\ pipes[i].wopen
    <2>1. pipes' = pipes /\ proc' = [proc EXCEPT ![p] = asleep]
      BY <1>1, <1>6 DEF ReadOn
    <2>2. /\ asleep \in ProcType /\ asleep.in = proc[p].in /\ asleep.out = proc[p].out
          /\ asleep.st = "blocked" /\ asleep.call = "read"
      BY <1>1, <1>2 DEF ProcType
    <2>3. Live(proc, pipes[i].wpid) /\ pipes[i].count = 0
      BY <1>6, AtTheEnd DEF Drained
    <2>4. asleep.in = i
      BY <2>2
    <2> HIDE DEF asleep
    <2>5. InCall(asleep)
      BY <2>2 DEF InCall
    <2>6. proc \in {proc, Woken(proc)}
      OBVIOUS
    <2> HIDE DEF i
    <2> QED
      BY <1>1, <1>6, <2>1, <2>2, <2>3, <2>4, <2>5, <2>6, DataStep
  <1>7. CASE Drained(pipes[i]) /\ ~pipes[i].wopen
    <2>1. pipes' = pipes /\ proc' = [proc EXCEPT ![p] = ended]
      BY <1>1, <1>7 DEF ReadOn
    <2>2. /\ ended \in ProcType /\ ended.in = proc[p].in /\ ended.out = proc[p].out
          /\ ended.st = "user" /\ ended.call = "none"
      <3> HIDE DEF back
      <3> QED
        BY <1>4 DEF ProcType
    <2> HIDE DEF ended
    <2>3. InCall(ended)
      BY <2>2 DEF InCall
    <2>4. proc \in {proc, Woken(proc)}
      OBVIOUS
    <2> HIDE DEF i
    <2> QED
      BY <1>1, <2>1, <2>2, <2>3, <2>4, DataStep
  <1> QED
    BY <1>5, <1>6, <1>7

\* kill, one of them.
LEMMA KillStep ==
    ASSUME PInv, UNCHANGED <<setup, nextPid, pipes, shell>>, NEW x, proc' = Killed(proc, x)
    PROVE  PInv'
  <1>1. proc \in [Pids -> ProcType]
    BY DEF PInv, Types
  <1> QED
    BY <1>1, KilledFacts, NudgeStep


----------------------------------------------------------------------------
(* The shell.                                                              *)

\* A step of one shell leaves the others where they are.
LEMMA OtherShells ==
    ASSUME Types, UNCHANGED setup, NEW s \in Shells, NEW r \in ShellType, shell' = [shell EXCEPT ![s] = r]
    PROVE  /\ shell' \in [Shells -> ShellType] /\ shell'[s] = r
           /\ Made(s)' = Len(r.pfd) /\ Started(s)' = Len(r.pids)
           /\ r.pfd \in Seq(Index) /\ r.pids \in Seq(Pids)
           /\ DOMAIN r.pfd = 1..Len(r.pfd) /\ DOMAIN r.pids = 1..Len(r.pids)
           /\ \A u \in Shells : u # s =>
                /\ shell'[u] = shell[u] /\ Made(u)' = Made(u) /\ Started(u)' = Started(u)
                /\ Intact(u)' <=> Intact(u)
                /\ \A k : /\ Waiting(u, k)' <=> Waiting(u, k)
                          /\ PidAt(u, k)' = PidAt(u, k)
  <1>1. shell \in [Shells -> ShellType]
    BY DEF Types
  <1>2. shell' \in [Shells -> ShellType] /\ shell'[s] = r /\ \A u \in Shells : u # s => shell'[u] = shell[u]
    BY <1>1
  <1>3. r.pfd \in Seq(Index) /\ r.pids \in Seq(Pids)
    BY DEF ShellType
  <1>4. Stages' = Stages
    BY TypesFixed
  <1>5. ASSUME NEW u \in Shells, u # s
        PROVE  /\ shell'[u] = shell[u] /\ Made(u)' = Made(u) /\ Started(u)' = Started(u)
               /\ Intact(u)' <=> Intact(u)
               /\ \A k : /\ Waiting(u, k)' <=> Waiting(u, k)
                         /\ PidAt(u, k)' = PidAt(u, k)
    BY <1>2, <1>4, <1>5 DEF Made, Started, Intact, Waiting, PidAt
  <1> QED
    BY <1>2, <1>3, <1>5 DEF Made, Started

\* ... and if it does nothing but move on, the pipes and the processes too.
LEMMA ShellOnly ==
    ASSUME PInv, UNCHANGED <<setup, pipes, proc, nextPid>>, NEW s \in Shells, NEW r \in ShellType,
           shell' = [shell EXCEPT ![s] = r]
    PROVE  Types' /\ EndsOK' /\ NoStuck'
  <1>1. shell' \in [Shells -> ShellType]
    BY OtherShells DEF PInv
  <1>2. \A x : Live(proc, x)' <=> Live(proc, x)
    BY TypesFixed DEF Live
  <1>3. Types'
    BY <1>1, TypesFixed DEF PInv, Types, Balanced
  <1>4. \A i \in Index : EndsAt(i)' <=> EndsAt(i)
    <2> TAKE i \in Index
    <2>1. /\ Live(proc, pipes[i].wpid)' <=> Live(proc, pipes[i].wpid)
          /\ Live(proc, pipes[i].rpid)' <=> Live(proc, pipes[i].rpid)
      BY <1>2
    <2> QED
      BY <2>1 DEF EndsAt
  <1>5. EndsOK'
    BY <1>4 DEF PInv, Wiring, EndsOK
  <1>6. NoStuck'
    BY <1>2, TypesFixed DEF PInv, NoStuck
  <1> QED
    BY <1>3, <1>5, <1>6

\* A command is not found.
LEMMA SpawnFailStep ==
    ASSUME PInv, UNCHANGED setup, NEW s \in Shells, SpawnFail(s)
    PROVE  PInv'
  <1> DEFINE r == [shell[s] EXCEPT !.at = "close"]
  <1>1. /\ r \in ShellType /\ shell' = [shell EXCEPT ![s] = r]
        /\ r.at = "close" /\ r.pfd = shell[s].pfd /\ r.pids = shell[s].pids
    BY ShellFacts DEF PInv, SpawnFail, ShellType, Stations
  <1> HIDE DEF r
  <1>2. Types' /\ EndsOK' /\ NoStuck'
    BY <1>1, ShellOnly DEF SpawnFail
  <1>3. /\ shell'[s] = r /\ Made(s)' = Made(s) /\ Started(s)' = Started(s)
        /\ ~Intact(s)' /\ \A k : ~Waiting(s, k)'
        /\ \A u \in Shells : /\ shell'[u].pfd = shell[u].pfd /\ shell'[u].pids = shell[u].pids
                             /\ Made(u)' = Made(u) /\ Started(u)' = Started(u)
                             /\ \A k : PidAt(u, k)' = PidAt(u, k)
                             /\ u # s => /\ shell'[u] = shell[u]
                                         /\ Intact(u)' <=> Intact(u)
                                         /\ \A k : Waiting(u, k)' <=> Waiting(u, k)
    <2>1. Made(s)' = Made(s) /\ Started(s)' = Started(s) /\ shell'[s] = r
      BY <1>1, OtherShells DEF PInv, Made, Started
    <2>2. ~Intact(s)' /\ \A k : ~Waiting(s, k)' /\ PidAt(s, k)' = PidAt(s, k)
      BY <1>1, <2>1 DEF Intact, Waiting, PidAt
    <2> QED
      BY <1>1, <2>1, <2>2, OtherShells DEF PInv
  <1>4. ShellsOK'
    BY <1>1, <1>3, TypesFixed DEF PInv, Wiring, ShellsOK, SpawnFail
  <1>5. \A x : Live(proc, x)' <=> Live(proc, x)
    BY TypesFixed DEF Live, SpawnFail
  <1>6. PidsOK'
    BY <1>3, <1>5, TypesFixed DEF PInv, Wiring, PidsOK, SpawnFail
  <1>7. WaitingOK'
    BY <1>3, TypesFixed DEF PInv, Wiring, WaitingOK, SpawnFail
  <1>8. Owned'
    <2>1. ASSUME NEW i \in Index, NEW u \in Shells, NEW k, OwnedBy(i, u, k)
          PROVE  OwnedBy(i, u, k)'
      BY <1>3, <2>1 DEF OwnedBy, SpawnFail
    <2> QED
      BY <1>3, <2>1, TypesFixed DEF PInv, Wiring, Owned, SpawnFail
  <1>9. Links'
    BY <1>3, <1>5, TypesFixed DEF PInv, Wiring, Links, SpawnFail
  <1>10. Seats'
    BY <1>3, <1>5, TypesFixed DEF PInv, Wiring, Seats, SpawnFail
  <1> QED
    BY <1>2, <1>4, <1>6, <1>7, <1>8, <1>9, <1>10 DEF PInv, Wiring

\* A shell that moves on with its lists, as intact as it was and waiting for
\* the same pipes.
LEMMA MoveOn ==
    ASSUME PInv, UNCHANGED <<setup, pipes, proc, nextPid>>, NEW s \in Shells, NEW a \in Stations,
           shell' = [shell EXCEPT ![s].at = a],
           Intact(s)' <=> Intact(s),
           a \in {"pipes", "spawn", "unmake"} /\ shell[s].pfd # <<>> => shell[s].at \in {"pipes", "spawn", "unmake"},
           shell[s].at \in {"pipes", "spawn", "unmake"} /\ shell[s].pfd # <<>> => a \in {"pipes", "spawn", "unmake"},
           a = "idle" => shell[s].pfd = <<>> /\ shell[s].pids = <<>>,
           a = "unmake" => shell[s].pids = <<>>,
           a \in {"kill", "wait"} /\ ~Intact(s) => shell[s].pfd = <<>>,
           a \notin {"pipes", "spawn"}
    PROVE  PInv'
  <1> DEFINE r == [shell[s] EXCEPT !.at = a]
  <1>1. /\ r \in ShellType /\ shell' = [shell EXCEPT ![s] = r]
        /\ r.at = a /\ r.pfd = shell[s].pfd /\ r.pids = shell[s].pids
    BY ShellFacts DEF PInv, ShellType
  <1> HIDE DEF r
  <1>2. Types' /\ EndsOK' /\ NoStuck'
    BY <1>1, ShellOnly
  <1>3. \A u \in Shells : /\ shell'[u].pfd = shell[u].pfd /\ shell'[u].pids = shell[u].pids
                          /\ Made(u)' = Made(u) /\ Started(u)' = Started(u)
                          /\ \A k : PidAt(u, k)' = PidAt(u, k)
                          /\ u # s => shell'[u] = shell[u]
                          /\ Intact(u)' <=> Intact(u)
                          /\ \A k : Waiting(u, k)' <=> Waiting(u, k)
    <2>1. Made(s)' = Made(s) /\ Started(s)' = Started(s) /\ shell'[s] = r
      BY <1>1, OtherShells DEF PInv, Made, Started
    <2>2. shell[s].pfd = <<>> => \A k : k \notin DOMAIN shell[s].pfd
      <3>1. shell[s].pfd = <<>> => Made(s) = 0
        BY DEF Made
      <3> QED
        BY <3>1, ShellFacts DEF PInv
    <2>3. \A k : /\ Waiting(s, k)' <=> Waiting(s, k)
                 /\ PidAt(s, k)' = PidAt(s, k)
      BY <1>1, <2>1, <2>2 DEF Waiting, PidAt
    <2>4. \A u \in Shells : u # s =>
            /\ shell'[u] = shell[u] /\ Made(u)' = Made(u) /\ Started(u)' = Started(u)
            /\ Intact(u)' <=> Intact(u)
            /\ \A k : /\ Waiting(u, k)' <=> Waiting(u, k)
                      /\ PidAt(u, k)' = PidAt(u, k)
      BY <1>1, OtherShells DEF PInv
    <2> SUFFICES ASSUME NEW u \in Shells
                 PROVE  /\ shell'[u].pfd = shell[u].pfd /\ shell'[u].pids = shell[u].pids
                        /\ Made(u)' = Made(u) /\ Started(u)' = Started(u)
                        /\ \A k : PidAt(u, k)' = PidAt(u, k)
                        /\ u # s => shell'[u] = shell[u]
                        /\ Intact(u)' <=> Intact(u)
                        /\ \A k : Waiting(u, k)' <=> Waiting(u, k)
      OBVIOUS
    <2>5. CASE u = s
      BY <1>1, <2>1, <2>3, <2>5
    <2>6. CASE u # s
      BY <2>4, <2>6
    <2> QED
      BY <2>5, <2>6
  <1>4. shell'[s].at = a
    BY <1>1, OtherShells DEF PInv
  <1>5. ShellsOK'
    BY <1>3, <1>4, TypesFixed DEF PInv, Wiring, ShellsOK
  <1>6. \A x : Live(proc, x)' <=> Live(proc, x)
    BY TypesFixed DEF Live
  <1>7. PidsOK'
    BY <1>3, <1>6, TypesFixed DEF PInv, Wiring, PidsOK
  <1>8. WaitingOK'
    BY <1>3, TypesFixed DEF PInv, Wiring, WaitingOK
  <1>9. Owned'
    <2>1. \A i \in Index, u \in Shells : \A k : OwnedBy(i, u, k)' <=> OwnedBy(i, u, k)
      BY <1>3 DEF OwnedBy
    <2> QED
      BY <1>3, <2>1, TypesFixed DEF PInv, Wiring, Owned
  <1>10. Links'
    BY <1>3, <1>6, TypesFixed DEF PInv, Wiring, Links
  <1>11. Seats'
    BY <1>3, <1>6, TypesFixed DEF PInv, Wiring, Seats
  <1> QED
    BY <1>2, <1>5, <1>7, <1>8, <1>9, <1>10, <1>11 DEF PInv, Wiring


\* After the last pipe_close; the kills are done; a pipe could not be made.
LEMMA ClosedStep ==
    ASSUME PInv, UNCHANGED setup, NEW s \in Shells, Closed(s)
    PROVE  PInv'
  <1> DEFINE a == IF shell[s].at = "unmake" THEN "idle" ELSE "kill"
  <1>1. /\ shell' = [shell EXCEPT ![s].at = a] /\ a \in Stations /\ shell[s].pfd = <<>>
        /\ UNCHANGED <<setup, pipes, proc, nextPid>>
        /\ a = "idle" => shell[s].at = "unmake"
        /\ a = "kill" => shell[s].at = "close"
        /\ a \in {"idle", "kill"}
    BY DEF Closed, Stations
  <1>2. shell[s] \in ShellType /\ shell \in [Shells -> ShellType]
    BY ShellFacts DEF PInv, Types
  <1>3. shell'[s].at = a
    BY <1>1, <1>2 DEF ShellType
  <1> HIDE DEF a
  <1>4. Intact(s)' <=> Intact(s)
    BY <1>1, <1>3 DEF Intact
  <1>5. a = "idle" => shell[s].pids = <<>>
    BY <1>1 DEF PInv, Wiring, ShellsOK
  <1> QED
    BY <1>1, <1>4, <1>5, MoveOn

LEMMA KillsDone ==
    ASSUME PInv, UNCHANGED <<setup, pipes, proc, nextPid>>, NEW s \in Shells, shell[s].at = "kill",
           shell' = [shell EXCEPT ![s].at = "wait"]
    PROVE  PInv'
  <1>1. shell[s] \in ShellType /\ shell \in [Shells -> ShellType]
    BY ShellFacts DEF PInv, Types
  <1>2. shell'[s].at = "wait" /\ shell'[s].pids = shell[s].pids
    BY <1>1 DEF ShellType
  <1>3. ~Intact(s)
    BY DEF Intact
  <1>4. Started(s) < Stages /\ shell[s].pfd = <<>>
    BY <1>3 DEF PInv, Wiring, ShellsOK
  <1>5. Started(s)' = Started(s) /\ Stages' = Stages /\ Started(s) # Stages
    BY <1>2, <1>4, ShellFacts, TypesFixed, SetupFacts DEF PInv, Types, Started
  <1>6. ~Intact(s)'
    BY <1>2, <1>5 DEF Intact
  <1>7. "wait" \in Stations
    BY DEF Stations
  <1> QED
    BY <1>3, <1>4, <1>6, <1>7, MoveOn

LEMMA NoneFree ==
    ASSUME PInv, UNCHANGED <<setup, pipes, proc, nextPid>>, NEW s \in Shells,
           shell[s].at \in {"idle", "pipes"}, shell' = [shell EXCEPT ![s].at = "unmake"]
    PROVE  PInv'
  <1>1. shell[s] \in ShellType /\ shell \in [Shells -> ShellType]
    BY ShellFacts DEF PInv, Types
  <1>2. shell'[s].at = "unmake"
    BY <1>1 DEF ShellType
  <1>3. Intact(s)' /\ Intact(s)
    BY <1>2 DEF Intact
  <1>4. shell[s].pids = <<>> /\ (shell[s].at = "idle" => shell[s].pfd = <<>>)
    BY DEF PInv, Wiring, ShellsOK
  <1>5. "unmake" \in Stations
    BY DEF Stations
  <1> QED
    BY <1>3, <1>4, <1>5, MoveOn

\* All the stages have been waited for: what was theirs has gone with them.
LEMMA WaitAllStep ==
    ASSUME OneFails, PInv, UNCHANGED setup, NEW s \in Shells, WaitAll(s)
    PROVE  PInv'
  <1>1. /\ shell' = [shell EXCEPT ![s] = Idle] /\ UNCHANGED <<setup, pipes, proc, nextPid>>
        /\ shell[s].at = "wait"
        /\ \A n \in DOMAIN shell[s].pids : ~Live(proc, shell[s].pids[n])
    BY DEF WaitAll, Live
  <1>2. Idle \in ShellType /\ Idle.pfd = <<>> /\ Idle.pids = <<>> /\ Idle.at = "idle"
    BY DEF Idle, ShellType, Stations
  <1>3. Types' /\ EndsOK' /\ NoStuck'
    BY <1>1, <1>2, ShellOnly
  <1>4. /\ shell'[s] = Idle /\ Made(s)' = 0 /\ Started(s)' = 0 /\ Intact(s)'
        /\ DOMAIN Idle.pfd = {} /\ DOMAIN Idle.pids = {}
        /\ \A k : ~Waiting(s, k)'
    <2>1. shell'[s] = Idle /\ Made(s)' = 0 /\ Started(s)' = 0 /\ DOMAIN Idle.pfd = {} /\ DOMAIN Idle.pids = {}
      <3>1. shell'[s] = Idle /\ Made(s)' = Len(Idle.pfd) /\ Started(s)' = Len(Idle.pids)
        BY <1>1, <1>2, OtherShells DEF PInv
      <3> QED
        BY <1>2, <3>1
    <2> QED
      BY <1>2, <2>1 DEF Intact, Waiting
  <1>5. \A u \in Shells : u # s =>
          /\ shell'[u] = shell[u] /\ Made(u)' = Made(u) /\ Started(u)' = Started(u)
          /\ Intact(u)' <=> Intact(u)
          /\ \A k : /\ Waiting(u, k)' <=> Waiting(u, k)
                    /\ PidAt(u, k)' = PidAt(u, k)
    BY <1>1, <1>2, OtherShells DEF PInv
  <1>6. \A x : Live(proc, x)' <=> Live(proc, x)
    BY <1>1, TypesFixed DEF Live
  <1>7. ShellsOK'
    <2>1. Stages >= 2 /\ Stages \in Nat
      BY SetupFacts DEF PInv, Types
    <2> QED
      BY <1>2, <1>4, <1>5, <2>1, TypesFixed DEF PInv, Wiring, ShellsOK
  <1>8. PidsOK'
    BY <1>1, <1>2, <1>4, <1>5, <1>6, TypesFixed DEF PInv, Wiring, PidsOK
  <1>9. WaitingOK'
    BY <1>1, <1>4, <1>5, TypesFixed DEF PInv, Wiring, WaitingOK
  <1>10. Owned'
    <2> SUFFICES ASSUME NEW i \in Index, pipes[i].inUse
                 PROVE  \E u \in Shells : \E k \in DOMAIN shell'[u].pfd : OwnedBy(i, u, k)'
      BY <1>1, TypesFixed DEF Owned
    <2>1. PICK u \in Shells : \E k \in DOMAIN shell[u].pfd : OwnedBy(i, u, k)
      BY DEF PInv, Wiring, Owned
    <2>2. PICK k \in DOMAIN shell[u].pfd : OwnedBy(i, u, k)
      BY <2>1
    <2>3. u # s
      <3> SUFFICES ASSUME u = s PROVE FALSE
        OBVIOUS
      <3>1. CASE Intact(s)
        <4>1. Started(s) = Stages /\ Made(s) = Stages - 1 /\ Stages \in Nat
          BY <1>1, <3>1, SetupFacts DEF Intact, PInv, Types, Wiring, ShellsOK
        <4>2. k \in 1..(Stages - 1)
          BY <2>2, <4>1, ShellFacts DEF PInv
        <4>3. k \in DOMAIN shell[s].pids /\ k + 1 \in DOMAIN shell[s].pids /\ k <= Started(s) /\ k + 1 <= Started(s)
          BY <4>1, <4>2, ShellFacts DEF PInv
        <4>4. pipes[i].wpid = shell[s].pids[k] /\ pipes[i].rpid = shell[s].pids[k + 1]
          BY <2>2, <3>1, <4>3 DEF OwnedBy, PidAt
        <4>5. ~Live(proc, pipes[i].wpid) /\ ~Live(proc, pipes[i].rpid)
          BY <1>1, <4>3, <4>4
        <4>6. pipes[i].wpid # 0 /\ pipes[i].rpid # 0
          BY <4>3, <4>4, ShellFacts, SetupFacts, ZenonT(60) DEF PInv, Types
        <4> QED
          BY <4>5, <4>6 DEF PInv, Wiring, EndsOK, EndsAt
      <3>2. CASE ~Intact(s)
        <4>1. shell[s].pfd = <<>>
          BY <1>1, <3>2 DEF PInv, Wiring, ShellsOK
        <4> QED
          BY <2>2, <4>1, ShellFacts DEF PInv, Made
      <3> QED
        BY <3>1, <3>2
    <2>4. OwnedBy(i, u, k)'
      BY <1>1, <1>5, <2>2, <2>3 DEF OwnedBy
    <2> QED
      BY <1>5, <2>3, <2>4
  <1>11. ASSUME NEW u \in Shells, ~Intact(u), NEW p \in Pids, Live(proc, p)
         PROVE  \E v \in Shells : ~Intact(v)'
    <2>1. u # s
      <3>1. u = s => \A v \in Shells : v = s
        BY <1>11, OnlyShell DEF PInv, Wiring
      <3> QED
        BY <1>1, <1>11, <3>1 DEF PInv, Wiring, PidsOK
    <2> QED
      BY <1>5, <1>11, <2>1
  <1>12. Links'
    BY <1>1, <1>6, <1>11, TypesFixed DEF PInv, Wiring, Links
  <1>13. Seats'
    BY <1>1, <1>4, <1>5, <1>6, TypesFixed DEF PInv, Wiring, Seats
  <1> QED
    BY <1>3, <1>7, <1>8, <1>9, <1>10, <1>12, <1>13 DEF PInv, Wiring


\* There is a first of some numbers.
LEMMA FirstOf ==
    ASSUME NEW S \in SUBSET Nat, S # {}
    PROVE  (CHOOSE x \in S : \A y \in S : x <= y) \in S
  <1>1. PICK x \in S : \A y \in S : <<y, x>> \notin OpToRel(<, Nat)
    BY NatLessThanWellFounded, WFMin
  <1>2. \A y \in S : <<y, x>> \in OpToRel(<, Nat) <=> y < x
    BY DEF OpToRel
  <1>3. \A y \in S : ~(y < x)
    BY <1>1, <1>2
  <1>4. \A y \in S : x <= y
    BY <1>3
  <1> QED
    BY <1>4

\* pipe_create where slot i is the one that is found.
CreatedIn(s, i) ==
    /\ shell[s].at \in {"idle", "pipes"} /\ ~pipes[i].inUse
    /\ pipes' = [pipes EXCEPT ![i] = [Free EXCEPT !.inUse = TRUE, !.wopen = TRUE, !.ropen = TRUE]]
    /\ shell' = [shell EXCEPT ![s].pfd = Append(@, i),
                              ![s].at = IF Made(s) + 1 = Stages - 1 THEN "spawn" ELSE "pipes"]
LEMMA CreateStep ==
    ASSUME OneFails, PInv, UNCHANGED <<setup, proc, nextPid>>, NEW s \in Shells, NEW i \in Index,
           CreatedIn(s, i)
    PROVE  PInv'
  <1> DEFINE q == [Free EXCEPT !.inUse = TRUE, !.wopen = TRUE, !.ropen = TRUE]
             a == IF Made(s) + 1 = Stages - 1 THEN "spawn" ELSE "pipes"
             r == [shell[s] EXCEPT !.pfd = Append(@, i), !.at = a]
  <1>0. PICK m : m = Made(s) + 1
    OBVIOUS
  <1>1. /\ shell[s] \in ShellType /\ shell[s].pfd \in Seq(Index) /\ shell \in [Shells -> ShellType]
        /\ Made(s) \in Nat /\ DOMAIN shell[s].pfd = 1..Made(s) /\ DOMAIN shell[s].pids = 1..Started(s)
        /\ Stages \in Nat /\ Stages >= 2 /\ setup \in Setups
    BY ShellFacts, SetupFacts DEF PInv, Types
  <1>2. /\ shell[s].pids = <<>> /\ Started(s) = 0
        /\ shell[s].at = "idle" => shell[s].pfd = <<>> /\ Made(s) = 0
        /\ shell[s].at = "pipes" => Made(s) < Stages - 1
    BY DEF PInv, Wiring, ShellsOK, Started, Made, CreatedIn
  <1>3. /\ q \in PipeType /\ Balanced(q) /\ q.inUse /\ q.wopen /\ q.ropen
        /\ q.wpid = 0 /\ q.rpid = 0 /\ q.count = 0
    <2>1. /\ 0 \in 0..MaxPid /\ 0 \in 0..(Cap - 1) /\ 0 \in 0..Cap
          /\ [k \in 0..(Cap - 1) |-> NoByte] \in [0..(Cap - 1) -> Bytes]
      <3>1. MaxPid \in Nat /\ MaxBytes \in Nat /\ Cap \in Nat /\ Cap >= 1
        BY <1>1, SetupFacts
      <3>2. NoByte \in Bytes
        BY <3>1 DEF NoByte, Bytes
      <3> QED
        BY <3>1, <3>2
    <2>2. Free \in PipeType /\ Free.head = 0 /\ Free.tail = 0 /\ Free.count = 0 /\ Free.wpid = 0 /\ Free.rpid = 0
      BY <2>1 DEF Free, PipeType
    <2>3. /\ q \in PipeType /\ q.inUse /\ q.wopen /\ q.ropen
          /\ q.wpid = 0 /\ q.rpid = 0 /\ q.count = 0 /\ q.head = 0 /\ q.tail = 0
      BY <2>2 DEF PipeType
    <2> HIDE DEF q
    <2>4. Balanced(q)
      BY <2>3 DEF Balanced
    <2> QED
      BY <2>3, <2>4
  <1>4. /\ r \in ShellType /\ shell' = [shell EXCEPT ![s] = r]
        /\ r.at = a /\ r.pfd = Append(shell[s].pfd, i) /\ r.pids = shell[s].pids
        /\ a \in {"spawn", "pipes"}
    <2>1. Append(shell[s].pfd, i) \in Seq(Index) /\ a \in Stations
      BY <1>1 DEF Stations
    <2> QED
      BY <1>1, <2>1 DEF ShellType, CreatedIn
  <1>5. /\ shell' \in [Shells -> ShellType]
        /\ shell'[s] = r /\ Made(s)' = m /\ Started(s)' = 0 /\ Intact(s)'
        /\ DOMAIN r.pfd = 1..m /\ r.pfd[m] = i /\ \A k \in 1..Made(s) : r.pfd[k] = shell[s].pfd[k]
    <2> HIDE DEF r, a
    <2>1. shell' \in [Shells -> ShellType] /\ shell'[s] = r /\ Made(s)' = Len(r.pfd) /\ Started(s)' = Len(r.pids)
      BY <1>4, OtherShells DEF PInv
    <2> QED
      BY <1>0, <1>1, <1>2, <1>4, <2>1 DEF Intact
  <1>6. \A u \in Shells : u # s =>
          /\ shell'[u] = shell[u] /\ Made(u)' = Made(u) /\ Started(u)' = Started(u)
          /\ Intact(u)' <=> Intact(u)
          /\ \A k : /\ Waiting(u, k)' <=> Waiting(u, k)
                    /\ PidAt(u, k)' = PidAt(u, k)
    <2> HIDE DEF r
    <2> QED
      BY <1>4, OtherShells DEF PInv
  <1>7. Intact(s) /\ \A u \in Shells : Intact(u)' <=> Intact(u)
    BY <1>5, <1>6 DEF Intact, CreatedIn
  <1>8. pipes' \in [Index -> PipeType] /\ pipes'[i] = q /\ \A j \in Index : j # i => pipes'[j] = pipes[j]
    <2> HIDE DEF q
    <2>1. pipes' = [pipes EXCEPT ![i] = q] /\ pipes \in [Index -> PipeType]
      BY DEF q, PInv, Types, CreatedIn
    <2> QED
      BY <1>3, <2>1
  <1> HIDE DEF q, r
  <1>9. \A x : Live(proc, x)' <=> Live(proc, x)
    BY TypesFixed DEF Live
  <1>10. Types'
    BY <1>3, <1>5, <1>8, TypesFixed DEF PInv, Types
  <1>11. ShellsOK'
    <2>1. ASSUME NEW u \in Shells, u # s
          PROVE  /\ shell'[u].at = "idle" => shell'[u].pfd = <<>>
                 /\ shell'[u].at \in {"idle", "pipes", "unmake"} => shell'[u].pids = <<>>
                 /\ shell'[u].at = "pipes" => Made(u)' < Stages - 1
                 /\ shell'[u].at = "spawn" => Made(u)' = Stages - 1 /\ Started(u)' < Stages
                 /\ Started(u)' = Stages => Made(u)' = Stages - 1
                 /\ ~Intact(u)' => SpawnFails /\ Started(u)' < Stages
                 /\ shell'[u].at \in {"kill", "wait"} /\ ~Intact(u)' => shell'[u].pfd = <<>>
      BY <1>6, <2>1 DEF PInv, Wiring, ShellsOK
    <2>2. /\ shell'[s].at \in {"spawn", "pipes"} /\ shell'[s].pids = <<>>
          /\ shell'[s].at = "pipes" => Made(s)' < Stages - 1
          /\ shell'[s].at = "spawn" => Made(s)' = Stages - 1 /\ Started(s)' < Stages
          /\ Started(s)' # Stages
      BY <1>0, <1>1, <1>2, <1>4, <1>5 DEF CreatedIn
    <2> QED
      BY <1>5, <2>1, <2>2, TypesFixed DEF ShellsOK
  <1>12. PidsOK'
    <2>1. \A u \in Shells : shell'[u].pids = shell[u].pids
      BY <1>4, <1>5, <1>6
    <2> QED
      BY <1>9, <2>1, TypesFixed DEF PInv, Wiring, PidsOK
  <1>13. /\ \A k : Waiting(s, k)' <=> k \in 1..m
         /\ \A k \in 1..Made(s) : Waiting(s, k)
    <2>1. \A k \in 1..m : k >= 0
      BY <1>0, <1>1
    <2> QED
      BY <1>0, <1>1, <1>2, <1>4, <1>5, <2>1 DEF Waiting, CreatedIn
  <1>14. \A u \in Shells : \A k \in DOMAIN shell[u].pfd : Waiting(u, k) => shell[u].pfd[k] # i
    BY DEF PInv, Wiring, WaitingOK, CreatedIn
  <1>15. WaitingOK'
    <2> SUFFICES ASSUME NEW u \in Shells, NEW k \in DOMAIN shell'[u].pfd, Waiting(u, k)'
                 PROVE  /\ pipes'[shell'[u].pfd[k]].inUse /\ pipes'[shell'[u].pfd[k]].rpid = 0
                        /\ k > Started(u)' => /\ pipes'[shell'[u].pfd[k]].wpid = 0
                                              /\ pipes'[shell'[u].pfd[k]].count = 0
                        /\ k = Started(u)' => pipes'[shell'[u].pfd[k]].wpid = shell'[u].pids[k]
                        /\ \A v \in Shells : \A n \in DOMAIN shell'[v].pfd :
                             Waiting(v, n)' /\ shell'[v].pfd[n] = shell'[u].pfd[k] => v = u /\ n = k
      BY TypesFixed DEF WaitingOK
    <2>1. ASSUME NEW v \in Shells, NEW n \in DOMAIN shell'[v].pfd, Waiting(v, n)'
          PROVE  \/ v = s /\ n = m /\ shell'[v].pfd[n] = i
                 \/ /\ n \in DOMAIN shell[v].pfd /\ Waiting(v, n) /\ shell'[v].pfd[n] = shell[v].pfd[n]
                    /\ shell[v].pfd[n] # i /\ ~(v = s /\ n = m)
                    /\ shell[v].pfd[n] \in Index
      <3>1. CASE v = s
        <4>1. n = m \/ n \in 1..Made(s)
          BY <1>0, <1>1, <1>5, <2>1, <3>1
        <4>2. n \in 1..Made(s) => n # m
          BY <1>0, <1>1
        <4> QED
          BY <1>1, <1>5, <1>13, <1>14, <3>1, <4>1, <4>2, ShellFacts DEF PInv
      <3>2. CASE v # s
        BY <1>6, <1>14, <2>1, <3>2, ShellFacts DEF PInv
      <3> QED
        BY <3>1, <3>2
    <2>2. CASE u = s /\ k = m /\ shell'[u].pfd[k] = i
      <3>1. ~(k = Started(u)')
        BY <1>0, <1>1, <1>5, <2>2
      <3> QED
        BY <1>3, <1>8, <2>1, <2>2, <3>1
    <2>3. CASE /\ k \in DOMAIN shell[u].pfd /\ Waiting(u, k) /\ shell'[u].pfd[k] = shell[u].pfd[k]
               /\ shell[u].pfd[k] # i /\ ~(u = s /\ k = m)
               /\ shell[u].pfd[k] \in Index
      <3>1. pipes'[shell'[u].pfd[k]] = pipes[shell[u].pfd[k]]
        BY <1>8, <2>3
      <3>2. shell'[u].pids = shell[u].pids /\ Started(u)' = Started(u)
        BY <1>2, <1>4, <1>5, <1>6
      <3>3. \A v \in Shells : \A n \in DOMAIN shell'[v].pfd :
              Waiting(v, n)' /\ shell'[v].pfd[n] = shell'[u].pfd[k] => v = u /\ n = k
        BY <2>1, <2>3 DEF PInv, Wiring, WaitingOK
      <3> QED
        BY <2>3, <3>1, <3>2, <3>3 DEF PInv, Wiring, WaitingOK
    <2> QED
      BY <2>1, <2>2, <2>3
  <1>16. Owned'
    <2> SUFFICES ASSUME NEW j \in Index, pipes'[j].inUse
                 PROVE  \E u \in Shells : \E k \in DOMAIN shell'[u].pfd : OwnedBy(j, u, k)'
      BY TypesFixed DEF Owned
    <2>1. CASE j = i
      <3>1. m \in DOMAIN shell'[s].pfd /\ shell'[s].pfd[m] = i /\ ~(m <= Started(s)') /\ ~(m + 1 <= Started(s)')
        BY <1>0, <1>1, <1>5
      <3>2. PidAt(s, m)' = 0 /\ PidAt(s, m + 1)' = 0
        BY <3>1 DEF PidAt
      <3>3. OwnedBy(j, s, m)'
        BY <1>3, <1>8, <2>1, <3>1, <3>2 DEF OwnedBy
      <3> QED
        BY <3>1, <3>3
    <2>2. CASE j # i
      <3>1. PICK u \in Shells : \E k \in DOMAIN shell[u].pfd : OwnedBy(j, u, k)
        BY <1>8, <2>2 DEF PInv, Wiring, Owned
      <3>2. PICK k \in DOMAIN shell[u].pfd : OwnedBy(j, u, k)
        BY <3>1
      <3>3. k \in DOMAIN shell'[u].pfd /\ shell'[u].pfd[k] = shell[u].pfd[k]
        <4>1. CASE u = s
          <5>1. k \in 1..Made(s) /\ k \in 1..m
            BY <1>0, <1>1, <4>1
          <5> QED
            BY <1>5, <4>1, <5>1
        <4>2. CASE u # s
          BY <1>6, <4>2
        <4> QED
          BY <4>1, <4>2
      <3>4. PidAt(u, k)' = PidAt(u, k) /\ PidAt(u, k + 1)' = PidAt(u, k + 1)
        BY <1>2, <1>4, <1>5, <1>6 DEF PidAt
      <3>5. OwnedBy(j, u, k)'
        BY <1>7, <1>8, <2>2, <3>2, <3>3, <3>4 DEF OwnedBy
      <3> QED
        BY <3>3, <3>5
    <2> QED
      BY <2>1, <2>2
  <1>17. EndsOK'
    <2> SUFFICES ASSUME NEW j \in Index
                 PROVE  /\ ~pipes'[j].inUse => ~pipes'[j].wopen /\ ~pipes'[j].ropen
                        /\ pipes'[j].inUse => EndsAt(j)'
      BY DEF EndsOK
    <2>1. CASE j = i
      <3>1. 0 < nextPid /\ 0 \notin Pids
        BY SetupFacts DEF PInv, Types
      <3>2. ~Live(proc, 0)'
        BY <3>1, TypesFixed DEF Live
      <3> QED
        BY <1>3, <1>8, <2>1, <3>1, <3>2 DEF EndsAt
    <2>2. CASE j # i
      <3>1. pipes'[j] = pipes[j]
        BY <1>8, <2>2
      <3>2. /\ Live(proc', pipes[j].wpid) <=> Live(proc, pipes[j].wpid)
            /\ Live(proc', pipes[j].rpid) <=> Live(proc, pipes[j].rpid)
        BY DEF Live
      <3>3. /\ Live(proc, pipes[j].wpid)' <=> Live(proc, pipes[j].wpid)
            /\ Live(proc, pipes[j].rpid)' <=> Live(proc, pipes[j].rpid)
        BY <3>1, TypesFixed DEF Live
      <3> QED
        BY <3>1, <3>3 DEF PInv, Wiring, EndsOK, EndsAt
    <2> QED
      BY <2>1, <2>2
  <1>18. \A p \in Pids : Live(proc, p) => proc[p].in # i /\ proc[p].out # i
    <2>1. \A u \in Shells : Intact(u)
      BY <1>7, OnlyShell DEF PInv, Wiring
    <2>2. None # i
      BY <1>1, SetupFacts
    <2> QED
      BY <2>1, <2>2 DEF PInv, Wiring, Links, CreatedIn
  <1>19. Links'
    <2>1. \A p \in Pids : proc[p].in \in Index \cup {None} /\ proc[p].out \in Index \cup {None}
      BY DEF PInv, Types, ProcType
    <2> QED
      BY <1>7, <1>8, <1>9, <1>18, <2>1, TypesFixed DEF PInv, Wiring, Links
  <1>20. Seats'
    <2>1. DOMAIN shell'[s].pids = {}
      BY <1>1, <1>2, <1>4, <1>5
    <2> QED
      BY <1>6, <1>9, <2>1, TypesFixed DEF PInv, Wiring, Seats
  <1>21. NoStuck'
    <2>1. ASSUME NEW p \in Pids, proc[p].st = "blocked"
          PROVE  /\ proc[p].call = "read" => proc[p].in \in Index /\ pipes'[proc[p].in] = pipes[proc[p].in]
                 /\ proc[p].call # "read" => proc[p].out \in Index /\ pipes'[proc[p].out] = pipes[proc[p].out]
      BY <1>8, <2>1, BlockedInUse DEF CreatedIn
    <2>2. \A x : Live(proc', x) <=> Live(proc, x)
      OBVIOUS
    <2> QED
      BY <1>9, <2>1, TypesFixed DEF PInv, NoStuck
  <1> QED
    BY <1>10, <1>11, <1>12, <1>15, <1>16, <1>17, <1>19, <1>20, <1>21 DEF PInv, Wiring


\* A step in which processes are at most woken or told to end: who lives, and
\* what a pipe that is left alone says of its ends.
LEMMA NudgedLive ==
    ASSUME UNCHANGED <<setup, nextPid>>, \A p \in Pids : Nudged(proc[p], proc'[p])
    PROVE  /\ \A x : Live(proc', x) <=> Live(proc, x)
           /\ \A x : Live(proc, x)' <=> Live(proc, x)
           /\ \A j \in Index : pipes'[j] = pipes[j] /\ EndsAt(j) => EndsAt(j)'
  <1>1. \A x : Live(proc', x) <=> Live(proc, x)
    BY NudgedFacts DEF Live
  <1>2. \A x : Live(proc, x)' <=> Live(proc, x)
    BY <1>1, TypesFixed DEF Live
  <1>3. ASSUME NEW j \in Index, pipes'[j] = pipes[j], EndsAt(j)
        PROVE  EndsAt(j)'
    <2>1. /\ Live(proc, pipes[j].wpid)' <=> Live(proc, pipes[j].wpid)
          /\ Live(proc, pipes[j].rpid)' <=> Live(proc, pipes[j].rpid)
      BY <1>1, <1>3, TypesFixed DEF Live
    <2>2. /\ Live(proc, pipes[j].wpid) => proc'[pipes[j].wpid].out = proc[pipes[j].wpid].out
          /\ Live(proc, pipes[j].rpid) => proc'[pipes[j].rpid].in = proc[pipes[j].rpid].in
      BY DEF Live, Nudged
    <2> QED
      BY <1>3, <2>1, <2>2 DEF EndsAt
  <1> QED
    BY <1>1, <1>2, <1>3

\* pipe_close.
LEMMA CloseStep ==
    ASSUME OneFails, PInv, UNCHANGED setup, NEW s \in Shells, PipeClose(s)
    PROVE  PInv'
  <1>0. PICK i : i = Head(shell[s].pfd)
    OBVIOUS
  <1>00. PICK m : m = Made(s)
    OBVIOUS
  <1> DEFINE r == [shell[s] EXCEPT !.pfd = Tail(@)]
             q == [pipes[i] EXCEPT !.wopen = FALSE, !.ropen = FALSE, !.inUse = FALSE]
  <1>1. /\ shell[s] \in ShellType /\ shell[s].pfd \in Seq(Index) /\ shell \in [Shells -> ShellType]
        /\ m \in Nat \ {0} /\ DOMAIN shell[s].pfd = 1..m /\ DOMAIN shell[s].pids = 1..Started(s)
        /\ Stages \in Nat /\ Stages >= 2 /\ setup \in Setups
        /\ i \in Index /\ i = shell[s].pfd[1] /\ 1 \in DOMAIN shell[s].pfd
        /\ pipes \in [Index -> PipeType] /\ proc \in [Pids -> ProcType]
    <2>1. /\ shell[s] \in ShellType /\ shell[s].pfd \in Seq(Index) /\ shell \in [Shells -> ShellType]
          /\ Made(s) \in Nat /\ DOMAIN shell[s].pfd = 1..Made(s) /\ DOMAIN shell[s].pids = 1..Started(s)
          /\ Stages \in Nat /\ Stages >= 2 /\ setup \in Setups
          /\ pipes \in [Index -> PipeType] /\ proc \in [Pids -> ProcType]
      BY ShellFacts, SetupFacts DEF PInv, Types
    <2>2. shell[s].pfd # <<>>
      BY DEF PipeClose
    <2>3. Made(s) # 0
      BY <2>1, <2>2 DEF Made
    <2> QED
      BY <1>0, <1>00, <2>1, <2>2, <2>3 DEF Made
  <1>2. /\ shell[s].at \in {"unmake", "close"}
        /\ shell[s].at = "unmake" => shell[s].pids = <<>> /\ Started(s) = 0
        /\ shell[s].at = "close" => ~Intact(s)
        /\ UNCHANGED nextPid
    BY DEF PInv, Wiring, ShellsOK, Started, Intact, PipeClose
  <1>3. /\ r \in ShellType /\ shell' = [shell EXCEPT ![s] = r]
        /\ r.at = shell[s].at /\ r.pfd = Tail(shell[s].pfd) /\ r.pids = shell[s].pids
    <2>1. Tail(shell[s].pfd) \in Seq(Index)
      BY <1>1
    <2> QED
      BY <1>1, <2>1 DEF ShellType, PipeClose
  <1> HIDE DEF r
  <1>4. /\ shell' \in [Shells -> ShellType]
        /\ shell'[s] = r /\ Made(s)' = m - 1 /\ Started(s)' = Started(s)
        /\ DOMAIN r.pfd = 1..(m - 1) /\ \A k \in 1..(m - 1) : r.pfd[k] = shell[s].pfd[k + 1]
    <2>1. shell' \in [Shells -> ShellType] /\ shell'[s] = r /\ Made(s)' = Len(r.pfd) /\ Started(s)' = Len(r.pids)
      BY <1>3, OtherShells DEF PInv
    <2>2. Len(Tail(shell[s].pfd)) = m - 1
      BY <1>00, <1>1 DEF Made
    <2>3. \A k \in 1..(m - 1) : Tail(shell[s].pfd)[k] = shell[s].pfd[k + 1]
      BY <1>00, <1>1 DEF Made
    <2> QED
      BY <1>1, <1>3, <2>1, <2>2, <2>3 DEF Started
  <1>5. \A u \in Shells : u # s =>
          /\ shell'[u] = shell[u] /\ Made(u)' = Made(u) /\ Started(u)' = Started(u)
          /\ Intact(u)' <=> Intact(u)
          /\ \A k : /\ Waiting(u, k)' <=> Waiting(u, k)
                    /\ PidAt(u, k)' = PidAt(u, k)
    BY <1>3, OtherShells DEF PInv
  <1>6. \A u \in Shells : /\ Intact(u)' <=> Intact(u)
                          /\ shell'[u].pids = shell[u].pids /\ Started(u)' = Started(u)
                          /\ shell'[u].at = shell[u].at
    BY <1>2, <1>3, <1>4, <1>5 DEF Intact
  <1>7. /\ pipes' \in [Index -> PipeType] /\ \A j \in Index : j # i => pipes'[j] = pipes[j]
        /\ ~pipes'[i].inUse /\ ~pipes'[i].wopen /\ ~pipes'[i].ropen /\ Balanced(pipes'[i])
    <2>1. pipes[i] \in PipeType /\ Balanced(pipes[i])
      BY <1>1 DEF PInv, Types
    <2>2. CASE pipes[i].inUse
      <3>1. pipes' = [pipes EXCEPT ![i] = q]
        BY <1>0, <1>1, <2>2 DEF PipeClose
      <3>2. /\ q \in PipeType /\ ~q.inUse /\ ~q.wopen /\ ~q.ropen
            /\ q.head = pipes[i].head /\ q.tail = pipes[i].tail /\ q.count = pipes[i].count
        BY <2>1 DEF PipeType
      <3> HIDE DEF q
      <3>3. Balanced(q)
        BY <2>1, <3>2 DEF Balanced
      <3> QED
        BY <1>1, <3>1, <3>2, <3>3
    <2>3. CASE ~pipes[i].inUse
      BY <1>0, <1>1, <2>1, <2>3 DEF PipeClose, PInv, Wiring, EndsOK
    <2> QED
      BY <2>2, <2>3
  <1>8. /\ proc' \in [Pids -> ProcType] /\ \A p \in Pids : Nudged(proc[p], proc'[p])
        /\ (pipes' = pipes /\ proc' = proc) \/ \A p \in Pids : proc'[p].st # "blocked"
    <2>1. \A p \in Pids : Nudged(proc[p], proc[p])
      BY DEF Nudged
    <2>2. (pipes' = pipes /\ proc' = proc) \/ proc' = Woken(proc)
      BY DEF PipeClose, CloseWakes
    <2> QED
      BY <1>1, <2>1, <2>2, WokenFacts
  <1>9. /\ \A x : Live(proc', x) <=> Live(proc, x)
        /\ \A x : Live(proc, x)' <=> Live(proc, x)
        /\ \A j \in Index : pipes'[j] = pipes[j] /\ EndsAt(j) => EndsAt(j)'
    BY <1>2, <1>8, NudgedLive
  <1>10. Types'
    <2>1. \A j \in Index : Balanced(pipes'[j])
      BY <1>7 DEF PInv, Types
    <2>2. \A p \in Pids : InCall(proc'[p]) /\ (proc'[p].st = "none" <=> p >= nextPid)
      BY <1>8, NudgedFacts DEF PInv, Types
    <2> QED
      BY <1>2, <1>4, <1>7, <1>8, <2>1, <2>2, TypesFixed DEF PInv, Types
  <1>11. ShellsOK'
    <2>1. ASSUME NEW u \in Shells, u # s
          PROVE  /\ shell'[u].at = "idle" => shell'[u].pfd = <<>>
                 /\ shell'[u].at \in {"idle", "pipes", "unmake"} => shell'[u].pids = <<>>
                 /\ shell'[u].at = "pipes" => Made(u)' < Stages - 1
                 /\ shell'[u].at = "spawn" => Made(u)' = Stages - 1 /\ Started(u)' < Stages
                 /\ Started(u)' = Stages => Made(u)' = Stages - 1
                 /\ ~Intact(u)' => SpawnFails /\ Started(u)' < Stages
                 /\ shell'[u].at \in {"kill", "wait"} /\ ~Intact(u)' => shell'[u].pfd = <<>>
      BY <1>5, <2>1 DEF PInv, Wiring, ShellsOK
    <2>2. Started(s) < Stages /\ Started(s) \in Nat
      BY <1>1, <1>2, ShellFacts DEF PInv, Wiring, ShellsOK
    <2>3. /\ shell'[s].at \in {"unmake", "close"}
          /\ shell'[s].at = "unmake" => shell'[s].pids = <<>>
          /\ Started(s)' < Stages /\ Started(s)' # Stages
          /\ ~Intact(s)' => SpawnFails
      BY <1>1, <1>2, <1>6, <2>2 DEF PInv, Wiring, ShellsOK
    <2> QED
      BY <2>1, <2>3, TypesFixed DEF ShellsOK
  <1>12. PidsOK'
    BY <1>2, <1>6, <1>9, TypesFixed DEF PInv, Wiring, PidsOK
  <1>13. ASSUME NEW v \in Shells, NEW n \in DOMAIN shell'[v].pfd, Waiting(v, n)'
         PROVE  \E x \in DOMAIN shell[v].pfd :
                   /\ Waiting(v, x) /\ shell'[v].pfd[n] = shell[v].pfd[x] /\ shell[v].pfd[x] \in Index
                   /\ shell[v].pfd[x] # i
                   /\ x = IF v = s THEN n + 1 ELSE n
                   /\ (n > Started(v) => x > Started(v)) /\ (n # Started(v) \/ v # s)
    <2>1. CASE v = s
      <3>1. shell[s].at = "unmake"
        BY <1>2, <1>6, <1>13, <2>1 DEF Waiting
      <3>2. n \in 1..(m - 1) /\ n + 1 \in 1..m /\ n + 1 # 1
        BY <1>1, <1>4, <2>1
      <3>3. Waiting(s, n + 1) /\ Waiting(s, 1)
        BY <1>1, <1>2, <3>1, <3>2 DEF Waiting
      <3>4. shell[s].pfd[n + 1] # i
        BY <1>1, <3>2, <3>3 DEF PInv, Wiring, WaitingOK
      <3>5. n # Started(s) /\ n + 1 > Started(s)
        BY <1>1, <1>2, <3>1, <3>2
      <3> QED
        BY <1>1, <1>4, <2>1, <3>2, <3>3, <3>4, <3>5, ShellFacts DEF PInv
    <2>2. CASE v # s
      <3>1. Waiting(v, n) /\ n \in DOMAIN shell[v].pfd /\ shell'[v].pfd[n] = shell[v].pfd[n]
        BY <1>5, <1>13, <2>2
      <3>2. shell[s].at # "close"
        BY <1>2, <2>2, OnlyShell DEF PInv, Wiring
      <3>3. Waiting(s, 1)
        BY <1>1, <1>2, <3>2 DEF Waiting
      <3>4. shell[v].pfd[n] # i
        BY <1>1, <2>2, <3>1, <3>3 DEF PInv, Wiring, WaitingOK
      <3> QED
        BY <2>2, <3>1, <3>4, ShellFacts DEF PInv
    <2> QED
      BY <2>1, <2>2
  <1>14. WaitingOK'
    <2> SUFFICES ASSUME NEW u \in Shells, NEW k \in DOMAIN shell'[u].pfd, Waiting(u, k)'
                 PROVE  /\ pipes'[shell'[u].pfd[k]].inUse /\ pipes'[shell'[u].pfd[k]].rpid = 0
                        /\ k > Started(u)' => /\ pipes'[shell'[u].pfd[k]].wpid = 0
                                              /\ pipes'[shell'[u].pfd[k]].count = 0
                        /\ k = Started(u)' => pipes'[shell'[u].pfd[k]].wpid = shell'[u].pids[k]
                        /\ \A v \in Shells : \A n \in DOMAIN shell'[v].pfd :
                             Waiting(v, n)' /\ shell'[v].pfd[n] = shell'[u].pfd[k] => v = u /\ n = k
      BY TypesFixed DEF WaitingOK
    <2>1. PICK x \in DOMAIN shell[u].pfd :
                   /\ Waiting(u, x) /\ shell'[u].pfd[k] = shell[u].pfd[x] /\ shell[u].pfd[x] \in Index
                   /\ shell[u].pfd[x] # i
                   /\ x = IF u = s THEN k + 1 ELSE k
                   /\ (k > Started(u) => x > Started(u)) /\ (k # Started(u) \/ u # s)
      BY <1>13
    <2>2. pipes'[shell'[u].pfd[k]] = pipes[shell[u].pfd[x]]
      BY <1>7, <2>1
    <2>3. pipes'[shell'[u].pfd[k]].inUse /\ pipes'[shell'[u].pfd[k]].rpid = 0
      BY <2>1, <2>2 DEF PInv, Wiring, WaitingOK
    <2>4. k > Started(u)' => /\ pipes'[shell'[u].pfd[k]].wpid = 0
                             /\ pipes'[shell'[u].pfd[k]].count = 0
      BY <1>6, <2>1, <2>2 DEF PInv, Wiring, WaitingOK
    <2>5. k = Started(u)' => pipes'[shell'[u].pfd[k]].wpid = shell'[u].pids[k]
      BY <1>6, <2>1, <2>2 DEF PInv, Wiring, WaitingOK
    <2>6. ASSUME NEW v \in Shells, NEW n \in DOMAIN shell'[v].pfd, Waiting(v, n)',
                 shell'[v].pfd[n] = shell'[u].pfd[k]
          PROVE  v = u /\ n = k
      <3>1. PICK y \in DOMAIN shell[v].pfd :
                   /\ Waiting(v, y) /\ shell'[v].pfd[n] = shell[v].pfd[y]
                   /\ y = IF v = s THEN n + 1 ELSE n
        BY <1>13, <2>6
      <3>2. v = u /\ y = x
        BY <2>1, <2>6, <3>1 DEF PInv, Wiring, WaitingOK
      <3>3. CASE u = s
        <4>1. k \in 1..(m - 1) /\ n \in 1..(m - 1)
          BY <1>4, <3>2, <3>3
        <4> QED
          BY <1>1, <2>1, <3>1, <3>2, <3>3, <4>1
      <3>4. CASE u # s
        BY <2>1, <3>1, <3>2, <3>4
      <3> QED
        BY <3>3, <3>4
    <2> QED
      BY <2>3, <2>4, <2>5, <2>6
  <1>15. Owned'
    <2> SUFFICES ASSUME NEW j \in Index, pipes'[j].inUse
                 PROVE  \E u \in Shells : \E k \in DOMAIN shell'[u].pfd : OwnedBy(j, u, k)'
      BY TypesFixed DEF Owned
    <2>1. j # i /\ pipes'[j] = pipes[j]
      BY <1>7
    <2>2. PICK u \in Shells : \E k \in DOMAIN shell[u].pfd : OwnedBy(j, u, k)
      BY <2>1 DEF PInv, Wiring, Owned
    <2>3. PICK k \in DOMAIN shell[u].pfd : OwnedBy(j, u, k)
      BY <2>2
    <2>4. CASE u # s
      <3>1. OwnedBy(j, u, k)'
        BY <1>5, <2>1, <2>3, <2>4 DEF OwnedBy
      <3> QED
        BY <1>5, <2>4, <3>1
    <2>5. CASE u = s
      <3>1. k # 1
        BY <1>1, <2>1, <2>3, <2>5 DEF OwnedBy
      <3>2. k - 1 \in 1..(m - 1) /\ (k - 1) + 1 = k /\ k \in Nat
        BY <1>1, <2>5, <3>1
      <3>3. k - 1 \in DOMAIN shell'[s].pfd /\ shell'[s].pfd[k - 1] = j
        BY <1>4, <2>3, <2>5, <3>2 DEF OwnedBy
      <3>4. Intact(s)' => pipes'[j].wpid = PidAt(s, k - 1)' /\ pipes'[j].rpid = PidAt(s, k)'
        <4> SUFFICES ASSUME Intact(s)'
                     PROVE  pipes'[j].wpid = PidAt(s, k - 1)' /\ pipes'[j].rpid = PidAt(s, k)'
          OBVIOUS
        <4>1. Started(s) = 0 /\ Intact(s) /\ Started(s)' = 0
          BY <1>2, <1>4, <1>6
        <4>2. /\ ~(k <= Started(s)) /\ ~(k + 1 <= Started(s))
              /\ ~(k - 1 <= Started(s)') /\ ~(k <= Started(s)')
          BY <1>1, <3>2, <4>1
        <4> QED
          BY <2>1, <2>3, <2>5, <4>1, <4>2 DEF OwnedBy, PidAt
      <3>5. OwnedBy(j, s, k - 1)'
        BY <3>2, <3>3, <3>4 DEF OwnedBy
      <3> QED
        BY <3>3, <3>5
    <2> QED
      BY <2>4, <2>5
  <1>16. EndsOK'
    <2>1. ASSUME NEW j \in Index, j # i
          PROVE  /\ ~pipes'[j].inUse => ~pipes'[j].wopen /\ ~pipes'[j].ropen
                 /\ pipes'[j].inUse => EndsAt(j)'
      BY <1>7, <1>9, <2>1 DEF PInv, Wiring, EndsOK
    <2> QED
      BY <1>7, <2>1 DEF EndsOK
  <1>17. Links'
    <2>1. \A p \in Pids : /\ proc[p].in \in Index \cup {None} /\ proc[p].out \in Index \cup {None}
                          /\ proc'[p].in = proc[p].in /\ proc'[p].out = proc[p].out
      BY <1>8 DEF PInv, Types, ProcType, Nudged
    <2>2. CASE shell[s].at = "close"
      <3>1. \E u \in Shells : ~Intact(u)'
        BY <1>2, <1>6, <2>2
      <3> QED
        BY <1>7, <1>9, <2>1, <3>1, TypesFixed DEF PInv, Wiring, Links
    <2>3. CASE shell[s].at = "unmake"
      <3>1. Waiting(s, 1) /\ 1 > Started(s)
        BY <1>1, <1>2, <2>3 DEF Waiting
      <3>2. pipes[i].inUse /\ pipes[i].rpid = 0 /\ pipes[i].wpid = 0
        BY <1>1, <3>1 DEF PInv, Wiring, WaitingOK
      <3>3. 0 \notin Pids /\ None # i
        BY <1>1, SetupFacts
      <3>4. \A p \in Pids : Live(proc, p) => proc[p].in # i /\ proc[p].out # i
        BY <3>2, <3>3 DEF PInv, Wiring, Links
      <3> QED
        BY <1>6, <1>7, <1>9, <2>1, <3>4, TypesFixed DEF PInv, Wiring, Links
    <2> QED
      BY <1>2, <2>2, <2>3
  <1>18. Seats'
    <2> SUFFICES ASSUME NEW u \in Shells, Intact(u)', NEW n \in DOMAIN shell'[u].pids,
                        Live(proc, shell[u].pids[n])
                 PROVE  /\ proc'[shell[u].pids[n]].in = IF n > 1 THEN shell'[u].pfd[n - 1] ELSE None
                        /\ proc'[shell[u].pids[n]].out = IF n < Stages THEN shell'[u].pfd[n] ELSE None
      BY <1>6, <1>9, TypesFixed DEF Seats
    <2>1. u # s
      BY <1>1, <1>2, <1>6
    <2>2. Nudged(proc[shell[u].pids[n]], proc'[shell[u].pids[n]])
      BY <1>8 DEF Live
    <2> QED
      BY <1>5, <2>1, <2>2 DEF PInv, Wiring, Seats, Nudged
  <1>19. NoStuck'
    BY <1>8, <1>9, TypesFixed DEF PInv, NoStuck
  <1> QED
    BY <1>10, <1>11, <1>12, <1>14, <1>15, <1>16, <1>17, <1>18, <1>19 DEF PInv, Wiring


\* The next stage of a pipeline is started.
LEMMA SpawnStep ==
    ASSUME OneFails, PInv, UNCHANGED setup, NEW s \in Shells, Spawn(s)
    PROVE  PInv'
  <1>0. PICK n : n = Started(s) + 1
    OBVIOUS
  <1>00. PICK c : c = Child(s, n)
    OBVIOUS
  <1>000. PICK p : p = nextPid
    OBVIOUS
  <1> DEFINE a == IF n = Stages THEN "wait" ELSE "spawn"
             r == [shell[s] EXCEPT !.pids = Append(@, p), !.at = a]
  <1>1. /\ shell[s] \in ShellType /\ shell[s].pids \in Seq(Pids) /\ shell \in [Shells -> ShellType]
        /\ Started(s) \in Nat /\ DOMAIN shell[s].pfd = 1..Made(s) /\ DOMAIN shell[s].pids = 1..Started(s)
        /\ Stages \in Nat /\ Stages >= 2 /\ setup \in Setups /\ MaxPid \in Nat
        /\ pipes \in [Index -> PipeType] /\ proc \in [Pids -> ProcType]
        /\ 0 \notin Pids /\ None \notin Index /\ Pids = 1..MaxPid
    BY ShellFacts, SetupFacts DEF PInv, Types
  <1>2. /\ shell[s].at = "spawn" /\ Made(s) = Stages - 1 /\ Started(s) < Stages
        /\ p \in Pids /\ p = nextPid /\ nextPid' = p + 1
        /\ proc' = [proc EXCEPT ![p] = c]
        /\ n \in 1..Stages /\ n = Started(s) + 1
    <2>1. shell[s].at = "spawn" /\ nextPid \in Pids /\ nextPid' = nextPid + 1 /\ proc' = [proc EXCEPT ![nextPid] = c]
      BY <1>0, <1>00 DEF Spawn
    <2>2. Made(s) = Stages - 1 /\ Started(s) < Stages
      BY <2>1 DEF PInv, Wiring, ShellsOK
    <2> QED
      BY <1>0, <1>000, <1>1, <2>1, <2>2
  <1>3. /\ r \in ShellType /\ shell' = [shell EXCEPT ![s] = r]
        /\ r.at = a /\ r.pids = Append(shell[s].pids, p) /\ r.pfd = shell[s].pfd
    <2>1. Append(shell[s].pids, p) \in Seq(Pids) /\ a \in Stations
      BY <1>1, <1>2 DEF Stations
    <2> QED
      BY <1>0, <1>000, <1>1, <2>1 DEF ShellType, Spawn
  <1> HIDE DEF r
  <1>4. /\ shell' \in [Shells -> ShellType]
        /\ shell'[s] = r /\ Made(s)' = Made(s) /\ Started(s)' = n
        /\ DOMAIN r.pids = 1..n /\ r.pids[n] = p /\ \A k \in 1..Started(s) : r.pids[k] = shell[s].pids[k]
    <2>1. shell' \in [Shells -> ShellType] /\ shell'[s] = r /\ Made(s)' = Len(r.pfd) /\ Started(s)' = Len(r.pids)
      BY <1>3, OtherShells DEF PInv
    <2>2. Made(s)' = Made(s)
      BY <1>3, <2>1 DEF Made
    <2>3. /\ Len(r.pids) = n /\ DOMAIN r.pids = 1..n /\ r.pids[n] = p
          /\ \A k \in 1..Started(s) : r.pids[k] = shell[s].pids[k]
      BY <1>1, <1>2, <1>3 DEF Started
    <2> QED
      BY <2>1, <2>2, <2>3
  <1>5. \A u \in Shells : u # s =>
          /\ shell'[u] = shell[u] /\ Made(u)' = Made(u) /\ Started(u)' = Started(u)
          /\ Intact(u)' <=> Intact(u)
          /\ \A k : /\ Waiting(u, k)' <=> Waiting(u, k)
                    /\ PidAt(u, k)' = PidAt(u, k)
    BY <1>3, OtherShells DEF PInv
  <1>6. /\ Intact(s) /\ Intact(s)' /\ \A u \in Shells : Intact(u)' <=> Intact(u)
        /\ \A u \in Shells : shell'[u].pfd = shell[u].pfd
    <2>1. Intact(s) /\ Intact(s)'
      BY <1>2, <1>3, <1>4, TypesFixed DEF Intact
    <2> QED
      BY <1>3, <1>4, <1>5, <2>1
  \* The pipes it gets are still there, and are two.
  <1>7. ASSUME NEW k \in DOMAIN shell[s].pfd, k >= Started(s)
        PROVE  /\ Waiting(s, k) /\ shell[s].pfd[k] \in Index /\ pipes[shell[s].pfd[k]].inUse
               /\ pipes[shell[s].pfd[k]].rpid = 0
               /\ k > Started(s) => pipes[shell[s].pfd[k]].wpid = 0 /\ pipes[shell[s].pfd[k]].count = 0
               /\ k = Started(s) => pipes[shell[s].pfd[k]].wpid = shell[s].pids[k]
               /\ \A u \in Shells : \A x \in DOMAIN shell[u].pfd :
                    Waiting(u, x) /\ shell[u].pfd[x] = shell[s].pfd[k] => u = s /\ x = k
    <2>1. Waiting(s, k)
      BY <1>2, <1>7 DEF Waiting
    <2> QED
      BY <1>7, <2>1, ShellFacts DEF PInv, Wiring, WaitingOK
  <1>8. /\ c.in = (IF n > 1 THEN shell[s].pfd[n - 1] ELSE None)
        /\ c.out = (IF n < Stages THEN shell[s].pfd[n] ELSE None)
        /\ c.st = "user" /\ c.call = "none" /\ c \in ProcType
        /\ n > 1 => n - 1 \in DOMAIN shell[s].pfd /\ n - 1 = Started(s)
        /\ n < Stages => n \in DOMAIN shell[s].pfd /\ n > Started(s)
    <2> DEFINE at(k) == IF k \in DOMAIN shell[s].pfd /\ pipes[shell[s].pfd[k]].inUse
                        THEN shell[s].pfd[k] ELSE None
               f == IF n > 1 THEN shell[s].pids[n - 1] ELSE 0
               in == at(n - 1)
               out == at(n)
    <2>1. c = [Nobody EXCEPT !.st = "user", !.in = in, !.out = out, !.from = f]
      BY <1>00 DEF Child
    <2>2. /\ n > 1 => n - 1 \in DOMAIN shell[s].pfd /\ n - 1 = Started(s)
          /\ ~(n > 1) => n - 1 \notin DOMAIN shell[s].pfd
          /\ n < Stages => n \in DOMAIN shell[s].pfd /\ n > Started(s)
          /\ ~(n < Stages) => n \notin DOMAIN shell[s].pfd
      BY <1>1, <1>2
    <2>3. in = (IF n > 1 THEN shell[s].pfd[n - 1] ELSE None) /\ in \in Index \cup {None}
      BY <1>1, <1>7, <2>2
    <2>4. out = (IF n < Stages THEN shell[s].pfd[n] ELSE None) /\ out \in Index \cup {None}
      <3>1. n < Stages => n >= Started(s)
        BY <1>1, <1>2
      <3> QED
        BY <1>7, <2>2, <3>1
    <2>5. f \in 0..MaxPid
      <3>1. n > 1 => n - 1 \in DOMAIN shell[s].pids
        BY <1>1, <1>2
      <3>2. n > 1 => shell[s].pids[n - 1] \in Pids
        BY <3>1, ShellFacts DEF PInv
      <3> QED
        BY <1>1, <3>2
    <2> HIDE DEF in, out, f
    <2>6. c \in ProcType /\ c.in = in /\ c.out = out /\ c.st = "user" /\ c.call = "none"
      <3>1. 0 \in 0..MaxLen /\ 0 \in 0..MaxBytes /\ <<>> \in Seq(Bytes) /\ 0 \in 0..MaxPid
        BY <1>1, SetupFacts
      <3>2. Nobody \in ProcType /\ Nobody.call = "none"
        BY <3>1 DEF Nobody, ProcType
      <3> QED
        BY <2>1, <2>3, <2>4, <2>5, <3>2 DEF ProcType
    <2> QED
      BY <2>2, <2>3, <2>4, <2>6
  <1>9. /\ c.in # None =>
             /\ n > 1 /\ c.in \in Index /\ pipes[c.in].inUse /\ pipes[c.in].rpid = 0 /\ c.in # c.out
             /\ c.in = shell[s].pfd[n - 1] /\ pipes[c.in].wpid = shell[s].pids[n - 1]
             /\ \A u \in Shells : \A x \in DOMAIN shell[u].pfd :
                    Waiting(u, x) /\ shell[u].pfd[x] = c.in => u = s /\ x = n - 1
        /\ c.out # None =>
             /\ n < Stages /\ c.out \in Index /\ pipes[c.out].inUse /\ pipes[c.out].rpid = 0
             /\ c.out = shell[s].pfd[n] /\ pipes[c.out].wpid = 0
             /\ \A u \in Shells : \A x \in DOMAIN shell[u].pfd :
                    Waiting(u, x) /\ shell[u].pfd[x] = c.out => u = s /\ x = n
    <2>1. ASSUME c.in # None
          PROVE  /\ n > 1 /\ c.in \in Index /\ pipes[c.in].inUse /\ pipes[c.in].rpid = 0
                 /\ c.in = shell[s].pfd[n - 1] /\ pipes[c.in].wpid = shell[s].pids[n - 1]
                 /\ \A u \in Shells : \A x \in DOMAIN shell[u].pfd :
                        Waiting(u, x) /\ shell[u].pfd[x] = c.in => u = s /\ x = n - 1
      <3>1. n > 1 /\ c.in = shell[s].pfd[n - 1] /\ n - 1 \in DOMAIN shell[s].pfd /\ n - 1 = Started(s)
            /\ n - 1 >= Started(s)
        BY <1>1, <1>2, <1>8, <2>1
      <3> QED
        BY <1>7, <3>1
    <2>2. ASSUME c.out # None
          PROVE  /\ n < Stages /\ c.out \in Index /\ pipes[c.out].inUse /\ pipes[c.out].rpid = 0
                 /\ c.out = shell[s].pfd[n] /\ pipes[c.out].wpid = 0
                 /\ Waiting(s, n) /\ n \in DOMAIN shell[s].pfd
                 /\ \A u \in Shells : \A x \in DOMAIN shell[u].pfd :
                        Waiting(u, x) /\ shell[u].pfd[x] = c.out => u = s /\ x = n
      <3>1. n < Stages /\ c.out = shell[s].pfd[n] /\ n \in DOMAIN shell[s].pfd /\ n > Started(s) /\ n >= Started(s)
        BY <1>1, <1>2, <1>8, <2>2
      <3> QED
        BY <1>7, <3>1
    <2>3. c.in # None => c.in # c.out
      <3> SUFFICES ASSUME c.in # None, c.in = c.out PROVE FALSE
        OBVIOUS
      <3>1. n = n - 1
        BY <2>1, <2>2
      <3> QED
        BY <1>1, <1>2, <3>1
    <2> QED
      BY <2>1, <2>2, <2>3
  <1>10. /\ pipes' \in [Index -> PipeType]
         /\ \A i \in Index : /\ pipes'[i].inUse = pipes[i].inUse /\ pipes'[i].wopen = pipes[i].wopen
                             /\ pipes'[i].ropen = pipes[i].ropen /\ pipes'[i].count = pipes[i].count
                             /\ pipes'[i].head = pipes[i].head /\ pipes'[i].tail = pipes[i].tail
                             /\ pipes'[i].rpid = (IF i = c.in THEN p ELSE pipes[i].rpid)
                             /\ pipes'[i].wpid = (IF i = c.out THEN p ELSE pipes[i].wpid)
                             /\ Balanced(pipes'[i])
    <2>1. pipes' = [i \in Index |-> [pipes[i] EXCEPT !.rpid = IF i = c.in THEN p ELSE @,
                                                     !.wpid = IF i = c.out THEN p ELSE @]]
      BY <1>0, <1>00, <1>000 DEF Spawn
    <2> SUFFICES ASSUME NEW i \in Index
                 PROVE  /\ pipes'[i] \in PipeType
                        /\ pipes'[i].inUse = pipes[i].inUse /\ pipes'[i].wopen = pipes[i].wopen
                        /\ pipes'[i].ropen = pipes[i].ropen /\ pipes'[i].count = pipes[i].count
                        /\ pipes'[i].head = pipes[i].head /\ pipes'[i].tail = pipes[i].tail
                        /\ pipes'[i].rpid = (IF i = c.in THEN p ELSE pipes[i].rpid)
                        /\ pipes'[i].wpid = (IF i = c.out THEN p ELSE pipes[i].wpid)
                        /\ Balanced(pipes'[i])
      BY <2>1
    <2>2. pipes[i] \in PipeType /\ Balanced(pipes[i])
      BY <1>1 DEF PInv, Types
    <2> DEFINE rp == IF i = c.in THEN p ELSE pipes[i].rpid
               wp == IF i = c.out THEN p ELSE pipes[i].wpid
    <2>3. rp \in 0..MaxPid /\ wp \in 0..MaxPid
      BY <1>1, <1>2, <2>2 DEF PipeType
    <2>4. pipes'[i] = [pipes[i] EXCEPT !.rpid = rp, !.wpid = wp]
      BY <2>1
    <2>5. rp = (IF i = c.in THEN p ELSE pipes[i].rpid) /\ wp = (IF i = c.out THEN p ELSE pipes[i].wpid)
      OBVIOUS
    <2> HIDE DEF rp, wp
    <2>6. /\ pipes'[i] \in PipeType
          /\ pipes'[i].inUse = pipes[i].inUse /\ pipes'[i].wopen = pipes[i].wopen
          /\ pipes'[i].ropen = pipes[i].ropen /\ pipes'[i].count = pipes[i].count
          /\ pipes'[i].head = pipes[i].head /\ pipes'[i].tail = pipes[i].tail
          /\ pipes'[i].rpid = rp /\ pipes'[i].wpid = wp
      BY <2>2, <2>3, <2>4 DEF PipeType
    <2>7. Balanced(pipes'[i])
      BY <2>2, <2>6 DEF Balanced
    <2> QED
      BY <2>5, <2>6, <2>7
  <1>11. /\ proc' \in [Pids -> ProcType] /\ proc'[p] = c /\ \A x \in Pids : x # p => proc'[x] = proc[x]
    BY <1>1, <1>2, <1>8
  <1>12. /\ ~Live(proc, p) /\ \A x : Live(proc', x) <=> Live(proc, x) \/ x = p
         /\ \A x : Live(proc, x)' <=> Live(proc, x) \/ x = p
    <2>1. proc[p].st = "none"
      BY <1>1, <1>2 DEF PInv, Types
    <2>2. ~Live(proc, p)
      BY <2>1 DEF Live
    <2>3. \A x : Live(proc', x) <=> Live(proc, x) \/ x = p
      BY <1>2, <1>8, <1>11 DEF Live
    <2> QED
      BY <2>2, <2>3, TypesFixed DEF Live
  <1>13. Types'
    <2>1. nextPid' \in 1..(MaxPid + 1)
      BY <1>1, <1>2
    <2>2. \A x \in Pids : InCall(proc'[x])
      BY <1>8, <1>11 DEF PInv, Types, InCall
    <2>3. ASSUME NEW x \in Pids
          PROVE  proc'[x].st = "none" <=> x >= nextPid'
      <3>1. proc[x].st = "none" <=> x >= p
        BY <1>2 DEF PInv, Types
      <3>2. x = p => proc'[x].st # "none"
        BY <1>8, <1>11
      <3> QED
        BY <1>1, <1>2, <1>11, <3>1, <3>2
    <2> QED
      BY <1>4, <1>10, <1>11, <2>1, <2>2, <2>3, TypesFixed DEF PInv, Types
  <1>14. ShellsOK'
    <2>1. ASSUME NEW u \in Shells, u # s
          PROVE  /\ shell'[u].at = "idle" => shell'[u].pfd = <<>>
                 /\ shell'[u].at \in {"idle", "pipes", "unmake"} => shell'[u].pids = <<>>
                 /\ shell'[u].at = "pipes" => Made(u)' < Stages - 1
                 /\ shell'[u].at = "spawn" => Made(u)' = Stages - 1 /\ Started(u)' < Stages
                 /\ Started(u)' = Stages => Made(u)' = Stages - 1
                 /\ ~Intact(u)' => SpawnFails /\ Started(u)' < Stages
                 /\ shell'[u].at \in {"kill", "wait"} /\ ~Intact(u)' => shell'[u].pfd = <<>>
      BY <1>5, <2>1 DEF PInv, Wiring, ShellsOK
    <2>2. /\ shell'[s].at \in {"spawn", "wait"} /\ Made(s)' = Stages - 1
          /\ shell'[s].at = "spawn" => Started(s)' < Stages
      BY <1>1, <1>2, <1>3, <1>4
    <2> QED
      BY <1>6, <2>1, <2>2, TypesFixed DEF ShellsOK
  \* It is in no list yet, and is the last of its own.
  <1>15. ASSUME NEW u \in Shells, NEW m \in DOMAIN shell'[u].pids
         PROVE  \/ u = s /\ m = n /\ shell'[u].pids[m] = p
                \/ /\ m \in DOMAIN shell[u].pids /\ shell'[u].pids[m] = shell[u].pids[m]
                   /\ shell[u].pids[m] \in Pids /\ shell[u].pids[m] < p /\ shell[u].pids[m] # p
                   /\ ~(u = s /\ m = n)
    <2>1. ASSUME m \in DOMAIN shell[u].pids
          PROVE  shell[u].pids[m] \in Pids /\ shell[u].pids[m] < p /\ shell[u].pids[m] # p
      <3>1. shell[u].pids[m] \in Pids
        BY <2>1, ShellFacts DEF PInv
      <3>2. shell[u].pids[m] < p
        BY <1>2, <2>1 DEF PInv, Wiring, PidsOK
      <3> QED
        BY <1>1, <1>2, <3>1, <3>2
    <2>2. CASE u = s
      <3>1. m = n \/ m \in 1..Started(s)
        BY <1>1, <1>2, <1>4, <1>15, <2>2
      <3>2. m \in 1..Started(s) => m # n
        BY <1>1, <1>2
      <3> QED
        BY <1>1, <1>4, <2>1, <2>2, <3>1, <3>2
    <2>3. CASE u # s
      BY <1>5, <1>15, <2>1, <2>3
    <2> QED
      BY <2>2, <2>3
  <1>16. PidsOK'
    <2>1. \A u \in Shells : \A m \in DOMAIN shell'[u].pids : shell'[u].pids[m] < nextPid'
      <3> TAKE u \in Shells
      <3> TAKE m \in DOMAIN shell'[u].pids
      <3>1. shell'[u].pids[m] \in Pids /\ (shell'[u].pids[m] = p \/ shell'[u].pids[m] < p)
        BY <1>2, <1>15
      <3> QED
        BY <1>1, <1>2, <3>1
    <2>2. \A u, v \in Shells : \A m \in DOMAIN shell'[u].pids, k \in DOMAIN shell'[v].pids :
            shell'[u].pids[m] = shell'[v].pids[k] => u = v /\ m = k
      BY <1>15 DEF PInv, Wiring, PidsOK
    <2>3. ASSUME NEW x \in Pids, Live(proc', x)
          PROVE  \E u \in Shells : \E k \in DOMAIN shell'[u].pids : shell'[u].pids[k] = x
      <3>1. CASE x = p
        <4>1. n \in DOMAIN shell'[s].pids /\ shell'[s].pids[n] = p
          BY <1>1, <1>2, <1>4
        <4> QED
          BY <3>1, <4>1
      <3>2. CASE x # p
        <4>1. PICK u \in Shells : \E k \in DOMAIN shell[u].pids : shell[u].pids[k] = x
          BY <1>12, <2>3, <3>2 DEF PInv, Wiring, PidsOK
        <4>2. PICK k \in DOMAIN shell[u].pids : shell[u].pids[k] = x
          BY <4>1
        <4>3. k \in DOMAIN shell'[u].pids /\ shell'[u].pids[k] = x
          <5>1. CASE u = s
            <6>1. k \in 1..Started(s) /\ k \in 1..n
              BY <1>1, <1>2, <5>1
            <6> QED
              BY <1>4, <4>2, <5>1, <6>1
          <5>2. CASE u # s
            BY <1>5, <4>2, <5>2
          <5> QED
            BY <5>1, <5>2
        <4> QED
          BY <4>3
      <3> QED
        BY <3>1, <3>2
    <2> QED
      BY <1>12, <2>1, <2>2, <2>3, TypesFixed DEF PidsOK
  <1>17. WaitingOK'
    <2> SUFFICES ASSUME NEW u \in Shells, NEW k \in DOMAIN shell'[u].pfd, Waiting(u, k)'
                 PROVE  /\ pipes'[shell'[u].pfd[k]].inUse /\ pipes'[shell'[u].pfd[k]].rpid = 0
                        /\ k > Started(u)' => /\ pipes'[shell'[u].pfd[k]].wpid = 0
                                              /\ pipes'[shell'[u].pfd[k]].count = 0
                        /\ k = Started(u)' => pipes'[shell'[u].pfd[k]].wpid = shell'[u].pids[k]
                        /\ \A v \in Shells : \A x \in DOMAIN shell'[v].pfd :
                             Waiting(v, x)' /\ shell'[v].pfd[x] = shell'[u].pfd[k] => v = u /\ x = k
      BY TypesFixed DEF WaitingOK
    <2>1. ASSUME NEW v \in Shells, NEW x \in DOMAIN shell'[v].pfd, Waiting(v, x)'
          PROVE  /\ x \in DOMAIN shell[v].pfd /\ Waiting(v, x) /\ shell'[v].pfd[x] = shell[v].pfd[x]
                 /\ shell[v].pfd[x] \in Index
                 /\ v = s => x >= n /\ x > Started(s) /\ x \in Nat
      <3>1. CASE v = s
        <4>1. x \in DOMAIN shell[s].pfd /\ shell'[s].pfd[x] = shell[s].pfd[x] /\ x >= n
          BY <1>4, <1>6, <2>1, <3>1 DEF Waiting
        <4>2. x > Started(s) /\ x >= Started(s) /\ x \in Nat
          BY <1>1, <1>2, <4>1
        <4> QED
          BY <1>7, <3>1, <4>1, <4>2
      <3>2. CASE v # s
        BY <1>5, <2>1, <3>2, ShellFacts DEF PInv
      <3> QED
        BY <3>1, <3>2
    <2>2. \A v \in Shells : \A x \in DOMAIN shell'[v].pfd :
             Waiting(v, x)' /\ shell'[v].pfd[x] = shell'[u].pfd[k] => v = u /\ x = k
      BY <2>1 DEF PInv, Wiring, WaitingOK
    <2>3. /\ k \in DOMAIN shell[u].pfd /\ Waiting(u, k) /\ shell'[u].pfd[k] = shell[u].pfd[k]
          /\ shell[u].pfd[k] \in Index /\ (u = s => k >= n /\ k > Started(s) /\ k \in Nat)
      BY <2>1
    <2>4. shell[u].pfd[k] # c.in
      <3>1. shell[u].pfd[k] = c.in => u = s /\ k = n - 1
        BY <1>1, <1>9, <2>3
      <3> QED
        BY <1>1, <1>2, <2>3, <3>1
    <2>5. shell[u].pfd[k] = c.out => u = s /\ k = n
      BY <1>1, <1>9, <2>3
    <2>6. /\ pipes[shell[u].pfd[k]].inUse /\ pipes[shell[u].pfd[k]].rpid = 0
          /\ k > Started(u) => pipes[shell[u].pfd[k]].wpid = 0 /\ pipes[shell[u].pfd[k]].count = 0
          /\ k = Started(u) => pipes[shell[u].pfd[k]].wpid = shell[u].pids[k]
      BY <2>3 DEF PInv, Wiring, WaitingOK
    <2>7. CASE u = s
      <3>1. k > Started(u)
        BY <2>3, <2>7
      <3>2. k > Started(u)' => k # n
        BY <1>1, <1>2, <1>4, <2>3, <2>7
      <3>3. k = Started(u)' => k = n /\ c.out = shell[s].pfd[n]
        <4> SUFFICES ASSUME k = Started(u)' PROVE k = n /\ c.out = shell[s].pfd[n]
          OBVIOUS
        <4>1. k = n
          BY <1>4, <2>7
        <4>2. n < Stages
          BY <1>1, <1>2, <2>3, <2>7, <4>1
        <4> QED
          BY <1>8, <4>1, <4>2
      <3>4. /\ k > Started(u)' => shell[u].pfd[k] # c.out
        BY <2>5, <3>2
      <3>5. k = Started(u)' => shell'[u].pids[k] = p /\ shell[u].pfd[k] = c.out
        BY <1>4, <2>7, <3>3
      <3> QED
        BY <1>10, <2>2, <2>3, <2>4, <2>6, <3>1, <3>4, <3>5
    <2>8. CASE u # s
      <3>1. shell[u].pfd[k] # c.out /\ Started(u)' = Started(u) /\ shell'[u].pids = shell[u].pids
        BY <1>5, <2>5, <2>8
      <3> QED
        BY <1>10, <2>2, <2>3, <2>4, <2>6, <3>1
    <2> QED
      BY <2>7, <2>8
  <1>18. Owned'
    <2> SUFFICES ASSUME NEW j \in Index, pipes[j].inUse
                 PROVE  \E u \in Shells : \E k \in DOMAIN shell[u].pfd : OwnedBy(j, u, k)'
      BY <1>6, <1>10, TypesFixed DEF Owned
    <2>1. CASE j = c.in
      <3>1. /\ n > 1 /\ n - 1 \in DOMAIN shell[s].pfd /\ shell[s].pfd[n - 1] = j
            /\ pipes[j].wpid = shell[s].pids[n - 1] /\ c.in # c.out
            /\ n - 1 \in 1..Started(s)
        BY <1>1, <1>2, <1>8, <1>9, <2>1
      <3>2. pipes'[j].rpid = p /\ pipes'[j].wpid = shell[s].pids[n - 1]
        BY <1>10, <2>1, <3>1
      <3>3. PidAt(s, n - 1)' = shell[s].pids[n - 1] /\ PidAt(s, n)' = p
        BY <1>1, <1>2, <1>4, <3>1 DEF PidAt
      <3>4. (n - 1) + 1 = n
        BY <1>1, <1>2
      <3>5. OwnedBy(j, s, n - 1)'
        BY <1>6, <3>1, <3>2, <3>3, <3>4 DEF OwnedBy
      <3> QED
        BY <3>1, <3>5
    <2>2. CASE j = c.out /\ j # c.in
      <3>1. /\ n < Stages /\ n \in DOMAIN shell[s].pfd /\ shell[s].pfd[n] = j
            /\ pipes[j].rpid = 0
        BY <1>1, <1>8, <1>9, <2>2
      <3>2. pipes'[j].rpid = 0 /\ pipes'[j].wpid = p
        BY <1>10, <2>2, <3>1
      <3>3. PidAt(s, n)' = p /\ PidAt(s, n + 1)' = 0
        BY <1>1, <1>2, <1>4, <3>1 DEF PidAt
      <3>4. OwnedBy(j, s, n)'
        BY <1>6, <3>1, <3>2, <3>3 DEF OwnedBy
      <3> QED
        BY <3>1, <3>4
    <2>3. CASE j # c.in /\ j # c.out
      <3>1. PICK u \in Shells : \E k \in DOMAIN shell[u].pfd : OwnedBy(j, u, k)
        BY DEF PInv, Wiring, Owned
      <3>2. PICK k \in DOMAIN shell[u].pfd : OwnedBy(j, u, k)
        BY <3>1
      <3>3. pipes'[j].wpid = pipes[j].wpid /\ pipes'[j].rpid = pipes[j].rpid
        BY <1>10, <2>3
      <3>4. PidAt(u, k)' = PidAt(u, k) /\ PidAt(u, k + 1)' = PidAt(u, k + 1)
        <4>1. CASE u = s
          <5>1. k \in 1..(Stages - 1)
            BY <1>1, <1>2, <4>1
          <5>2. k # n
            <6>1. k = n => n < Stages
              BY <1>1, <1>2, <5>1
            <6> QED
              BY <1>8, <2>3, <3>2, <4>1, <6>1 DEF OwnedBy
          <5>3. k + 1 # n
            <6>1. k + 1 = n => n > 1 /\ k = n - 1
              BY <1>1, <1>2, <5>1
            <6> QED
              BY <1>8, <2>3, <3>2, <4>1, <6>1 DEF OwnedBy
          <5>4. /\ k <= n <=> k <= Started(s)
                /\ k + 1 <= n <=> k + 1 <= Started(s)
                /\ k <= Started(s) => k \in 1..Started(s)
                /\ k + 1 <= Started(s) => k + 1 \in 1..Started(s)
            BY <1>1, <1>2, <5>1, <5>2, <5>3
          <5> QED
            BY <1>4, <4>1, <5>4 DEF PidAt
        <4>2. CASE u # s
          BY <1>5, <4>2
        <4> QED
          BY <4>1, <4>2
      <3>5. OwnedBy(j, u, k)'
        BY <1>6, <3>2, <3>3, <3>4 DEF OwnedBy
      <3> QED
        BY <3>5
    <2> QED
      BY <2>1, <2>2, <2>3
  <1>19. EndsOK'
    <2> SUFFICES ASSUME NEW j \in Index
                 PROVE  /\ ~pipes'[j].inUse => ~pipes'[j].wopen /\ ~pipes'[j].ropen
                        /\ pipes'[j].inUse => EndsAt(j)'
      BY DEF EndsOK
    <2>1. ~pipes'[j].inUse => ~pipes'[j].wopen /\ ~pipes'[j].ropen
      BY <1>10 DEF PInv, Wiring, EndsOK
    <2> SUFFICES ASSUME pipes[j].inUse PROVE EndsAt(j)'
      BY <1>10, <2>1
    <2>2. EndsAt(j)
      BY DEF PInv, Wiring, EndsOK
    <2>3. PICK w : w = pipes[j].wpid
      OBVIOUS
    <2>4. PICK x : x = pipes[j].rpid
      OBVIOUS
    <2>5. w \in 0..MaxPid /\ x \in 0..MaxPid /\ w < p /\ x < p
      BY <1>1, <1>2, <2>2, <2>3, <2>4 DEF EndsAt, PipeType
    <2>6. w # p /\ x # p /\ w < p + 1 /\ x < p + 1 /\ p # 0 /\ p < p + 1
      BY <1>1, <1>2, <2>5
    <2>7. /\ Live(proc', w) <=> Live(proc, w)
          /\ Live(proc', x) <=> Live(proc, x)
          /\ Live(proc', p)
          /\ Live(proc, w) => proc'[w] = proc[w]
          /\ Live(proc, x) => proc'[x] = proc[x]
      BY <1>11, <1>12, <2>6 DEF Live
    <2>8. /\ pipes'[j].wpid = (IF j = c.out THEN p ELSE w)
          /\ pipes'[j].rpid = (IF j = c.in THEN p ELSE x)
          /\ pipes'[j].wopen = pipes[j].wopen /\ pipes'[j].ropen = pipes[j].ropen
      BY <1>10, <2>3, <2>4
    <2>9. /\ j = c.out => w = 0 /\ x = 0 /\ j # c.in
          /\ j = c.in => x = 0 /\ w # 0 /\ j # c.out
      <3>1. j = c.out => w = 0 /\ x = 0 /\ j # c.in
        BY <1>1, <1>9, <2>3, <2>4
      <3>2. j = c.in => x = 0 /\ w = shell[s].pids[n - 1] /\ n - 1 \in DOMAIN shell[s].pids
        BY <1>1, <1>2, <1>9, <2>3, <2>4
      <3>3. j = c.in => w \in Pids
        BY <3>2, ShellFacts DEF PInv
      <3> QED
        BY <1>1, <1>9, <3>1, <3>2, <3>3
    <2>10. /\ pipes[j].wopen <=> w = 0 \/ Live(proc, w)
           /\ pipes[j].ropen <=> x = 0 \/ Live(proc, x)
           /\ pipes[j].wopen \/ pipes[j].ropen
           /\ x # 0 => w # 0
           /\ w # 0 => w # x
           /\ Live(proc, w) => proc[w].out = j
           /\ Live(proc, x) => proc[x].in = j
      BY <2>2, <2>3, <2>4 DEF EndsAt
    <2>11. proc'[p].in = c.in /\ proc'[p].out = c.out
      BY <1>11
    <2>12. /\ pipes'[j].wopen <=> pipes'[j].wpid = 0 \/ Live(proc', pipes'[j].wpid)
           /\ pipes'[j].ropen <=> pipes'[j].rpid = 0 \/ Live(proc', pipes'[j].rpid)
           /\ pipes'[j].wopen \/ pipes'[j].ropen
           /\ pipes'[j].rpid # 0 => pipes'[j].wpid # 0
           /\ pipes'[j].wpid # 0 => pipes'[j].wpid # pipes'[j].rpid
           /\ Live(proc', pipes'[j].wpid) => proc'[pipes'[j].wpid].out = j
           /\ Live(proc', pipes'[j].rpid) => proc'[pipes'[j].rpid].in = j
           /\ pipes'[j].wpid < nextPid' /\ pipes'[j].rpid < nextPid'
      <3>1. CASE j = c.out
        BY <1>2, <2>6, <2>7, <2>8, <2>9, <2>10, <2>11, <3>1
      <3>2. CASE j = c.in
        BY <1>2, <2>6, <2>7, <2>8, <2>9, <2>10, <2>11, <3>2
      <3>3. CASE j # c.in /\ j # c.out
        BY <1>2, <2>6, <2>7, <2>8, <2>10, <3>3
      <3> QED
        BY <3>1, <3>2, <3>3
    <2>13. \A y : Live(proc, y)' <=> Live(proc', y)
      BY <1>12
    <2> QED
      BY <2>12, TypesFixed DEF EndsAt, Live
  <1>20. Links'
    <2> SUFFICES ASSUME NEW x \in Pids, Live(proc', x)
                 PROVE  /\ proc'[x].in # None => IF pipes'[proc'[x].in].inUse THEN pipes'[proc'[x].in].rpid = x
                                                 ELSE \E u \in Shells : ~Intact(u)'
                        /\ proc'[x].out # None => IF pipes'[proc'[x].out].inUse THEN pipes'[proc'[x].out].wpid = x
                                                  ELSE \E u \in Shells : ~Intact(u)'
      BY <1>12, TypesFixed DEF Links
    <2>1. CASE x = p
      BY <1>9, <1>10, <1>11, <2>1
    <2>2. CASE x # p
      <3>1. Live(proc, x) /\ proc'[x] = proc[x] /\ x # 0
        BY <1>1, <1>11, <1>12, <2>2
      <3>2. proc[x].in \in Index \cup {None} /\ proc[x].out \in Index \cup {None}
        BY <1>1 DEF ProcType
      <3>3. /\ proc[x].in # None => IF pipes[proc[x].in].inUse THEN pipes[proc[x].in].rpid = x
                                    ELSE \E u \in Shells : ~Intact(u)
            /\ proc[x].out # None => IF pipes[proc[x].out].inUse THEN pipes[proc[x].out].wpid = x
                                     ELSE \E u \in Shells : ~Intact(u)
        BY <3>1 DEF PInv, Wiring, Links
      <3>4. proc[x].in # None => proc[x].in # c.in \/ ~pipes[proc[x].in].inUse
        BY <1>9, <3>1, <3>3
      <3>5. proc[x].out # None => proc[x].out # c.out \/ ~pipes[proc[x].out].inUse
        BY <1>9, <3>1, <3>3
      <3> QED
        BY <1>6, <1>10, <3>1, <3>2, <3>3, <3>4, <3>5
    <2> QED
      BY <2>1, <2>2
  <1>21. Seats'
    <2> SUFFICES ASSUME NEW u \in Shells, Intact(u)', NEW m \in DOMAIN shell'[u].pids,
                        Live(proc', shell'[u].pids[m])
                 PROVE  /\ proc'[shell'[u].pids[m]].in = IF m > 1 THEN shell[u].pfd[m - 1] ELSE None
                        /\ proc'[shell'[u].pids[m]].out = IF m < Stages THEN shell[u].pfd[m] ELSE None
      BY <1>6, <1>12, TypesFixed DEF Seats
    <2>1. CASE u = s /\ m = n /\ shell'[u].pids[m] = p
      BY <1>8, <1>11, <2>1
    <2>2. CASE /\ m \in DOMAIN shell[u].pids /\ shell'[u].pids[m] = shell[u].pids[m]
               /\ shell[u].pids[m] \in Pids /\ shell[u].pids[m] # p
      <3>1. Live(proc, shell[u].pids[m]) /\ proc'[shell[u].pids[m]] = proc[shell[u].pids[m]] /\ Intact(u)
        BY <1>6, <1>11, <1>12, <2>2
      <3> QED
        BY <2>2, <3>1 DEF PInv, Wiring, Seats
    <2> QED
      BY <1>15, <2>1, <2>2
  <1>22. NoStuck'
    <2> SUFFICES ASSUME NEW x \in Pids, proc'[x].st = "blocked"
                 PROVE  IF proc'[x].call = "read"
                        THEN LET q == pipes'[proc'[x].in]
                             IN  q.count = 0 /\ q.wopen /\ Live(proc', q.wpid)
                        ELSE LET q == pipes'[proc'[x].out]
                             IN  q.count = Cap /\ q.ropen /\ (q.rpid = 0 \/ Live(proc', q.rpid))
      BY <1>12, TypesFixed DEF NoStuck
    <2>1. proc'[x] = proc[x] /\ proc[x].st = "blocked"
      BY <1>8, <1>11
    <2>2. /\ proc[x].call = "read" => proc[x].in \in Index
          /\ proc[x].call # "read" => proc[x].out \in Index
      BY <2>1, BlockedInUse
    <2>3. IF proc[x].call = "read"
          THEN LET q == pipes[proc[x].in]
               IN  q.count = 0 /\ q.wopen /\ Live(proc, q.wpid)
          ELSE LET q == pipes[proc[x].out]
               IN  q.count = Cap /\ q.ropen /\ (q.rpid = 0 \/ Live(proc, q.rpid))
      BY <2>1 DEF PInv, NoStuck
    <2> QED
      BY <1>10, <1>12, <2>1, <2>2, <2>3
  <1> QED
    BY <1>13, <1>14, <1>16, <1>17, <1>18, <1>19, <1>20, <1>21, <1>22 DEF PInv, Wiring


\* stream_release of one end, as it changes a table t and the processes u.
LEMMA ReleaseFacts ==
    ASSUME NEW t \in [Index -> PipeType], NEW u \in [Pids -> ProcType], NEW p, NEW i \in Index \cup {None}
    PROVE  /\ ReleasePipe(t, p, i) \in [Index -> PipeType]
           /\ \A j \in Index : j # i => ReleasePipe(t, p, i)[j] = t[j]
           /\ i # None => LET q == ReleasePipe(t, p, i)[i]
                          IN  /\ q.wpid = t[i].wpid /\ q.rpid = t[i].rpid /\ q.count = t[i].count
                              /\ q.head = t[i].head /\ q.tail = t[i].tail /\ q.buf = t[i].buf
                              /\ IF t[i].inUse
                                 THEN /\ q.wopen <=> t[i].wopen /\ t[i].wpid # p
                                      /\ q.ropen <=> t[i].ropen /\ t[i].rpid # p
                                      /\ q.inUse <=> q.wopen \/ q.ropen
                                 ELSE q = t[i]
           /\ ReleaseProc(u, t, p, i) \in [Pids -> ProcType]
           /\ \A x \in Pids : Nudged(u[x], ReleaseProc(u, t, p, i)[x])
           /\ i # None /\ t[i].inUse => \A x \in Pids : ReleaseProc(u, t, p, i)[x].st # "blocked"
           /\ i = None \/ ~t[i].inUse => ReleasePipe(t, p, i) = t /\ ReleaseProc(u, t, p, i) = u
  <1>1. CASE i = None \/ ~t[i].inUse
    <2>1. ReleasePipe(t, p, i) = t /\ ReleaseProc(u, t, p, i) = u
      BY <1>1 DEF ReleasePipe, ReleaseProc
    <2>2. \A x \in Pids : Nudged(u[x], u[x])
      BY DEF Nudged
    <2> QED
      BY <1>1, <2>1, <2>2
  <1>2. CASE ~(i = None \/ ~t[i].inUse)
    <2> DEFINE w == t[i].wopen /\ t[i].wpid # p
               r == t[i].ropen /\ t[i].rpid # p
               q == [t[i] EXCEPT !.wopen = w, !.ropen = r]
               z == [q EXCEPT !.inUse = ~MaybeFree(q)]
               told == IF t[i].rpid = p /\ t[i].wopen /\ t[i].wpid # p THEN Killed(u, t[i].wpid) ELSE u
    <2>1. i \in Index /\ t[i] \in PipeType /\ t[i].inUse
      BY <1>2
    <2>2. ReleasePipe(t, p, i) = [t EXCEPT ![i] = z]
      BY <1>2 DEF ReleasePipe
    <2>3. ReleaseProc(u, t, p, i) = Woken(told)
      BY <1>2 DEF ReleaseProc
    <2>4. w \in BOOLEAN /\ r \in BOOLEAN /\ (w <=> t[i].wopen /\ t[i].wpid # p) /\ (r <=> t[i].ropen /\ t[i].rpid # p)
      OBVIOUS
    <2>5. told \in [Pids -> ProcType] /\ \A x \in Pids : Nudged(u[x], told[x])
      <3>1. \A x \in Pids : Nudged(u[x], u[x])
        BY DEF Nudged
      <3> QED
        BY <3>1, KilledFacts
    <2> HIDE DEF w, r, told
    <2>6. /\ q \in PipeType /\ (q.wopen <=> w) /\ (q.ropen <=> r)
          /\ q.wpid = t[i].wpid /\ q.rpid = t[i].rpid /\ q.count = t[i].count
          /\ q.head = t[i].head /\ q.tail = t[i].tail /\ q.buf = t[i].buf
      BY <2>1, <2>4 DEF PipeType
    <2> HIDE DEF q
    <2>7. /\ z \in PipeType /\ (z.wopen <=> q.wopen) /\ (z.ropen <=> q.ropen)
          /\ z.wpid = q.wpid /\ z.rpid = q.rpid /\ z.count = q.count
          /\ z.head = q.head /\ z.tail = q.tail /\ z.buf = q.buf
          /\ z.inUse <=> q.wopen \/ q.ropen
      <3>1. (~MaybeFree(q)) \in BOOLEAN /\ (~MaybeFree(q) <=> q.wopen \/ q.ropen)
        BY <2>6 DEF MaybeFree
      <3> QED
        BY <2>6, <3>1 DEF PipeType
    <2> HIDE DEF z
    <2>8. /\ ReleasePipe(t, p, i) \in [Index -> PipeType] /\ ReleasePipe(t, p, i)[i] = z
          /\ \A j \in Index : j # i => ReleasePipe(t, p, i)[j] = t[j]
      BY <2>1, <2>2, <2>7
    <2>9. /\ Woken(told) \in [Pids -> ProcType]
          /\ \A x \in Pids : Nudged(u[x], Woken(told)[x]) /\ Woken(told)[x].st # "blocked"
      <3>1. /\ Woken(told) \in [Pids -> ProcType]
            /\ \A x \in Pids : Nudged(told[x], Woken(told)[x]) /\ Woken(told)[x].st # "blocked"
        BY <2>5, WokenFacts
      <3> QED
        BY <2>5, <3>1 DEF Nudged
    <2> QED
      BY <1>2, <2>1, <2>3, <2>4, <2>6, <2>7, <2>8, <2>9
  <1> QED
    BY <1>1, <1>2

\* process_notify_exit: what it comes to, for every pipe and every process.
LEMMA ExitFacts ==
    ASSUME PInv, UNCHANGED setup, NEW p \in Pids, Exit(p)
    PROVE  /\ Live(proc, p) /\ UNCHANGED <<shell, nextPid>>
           /\ pipes' \in [Index -> PipeType]
           /\ \A j \in Index :
                /\ pipes'[j].wpid = pipes[j].wpid /\ pipes'[j].rpid = pipes[j].rpid
                /\ pipes'[j].count = pipes[j].count /\ pipes'[j].head = pipes[j].head
                /\ pipes'[j].tail = pipes[j].tail /\ pipes'[j].buf = pipes[j].buf
                /\ pipes'[j].wopen <=> pipes[j].wopen /\ pipes[j].wpid # p
                /\ pipes'[j].ropen <=> pipes[j].ropen /\ pipes[j].rpid # p
                /\ pipes'[j].inUse <=> pipes[j].inUse /\ (pipes'[j].wopen \/ pipes'[j].ropen)
           /\ proc' \in [Pids -> ProcType]
           /\ \A x \in Pids : x # p => Nudged(proc[x], proc'[x])
           /\ proc'[p].st = "dead" /\ proc'[p].call = "none"
           /\ proc'[p].eof = proc[p].eof /\ proc'[p].sent = proc[p].sent /\ proc'[p].got = proc[p].got
           /\ \/ \A x \in Pids : proc'[x].st # "blocked"
              \/ /\ pipes' = pipes
                 /\ \A j \in Index : pipes[j].inUse => pipes[j].wpid # p /\ pipes[j].rpid # p
  <1> DEFINE a == proc[p].in
             b == proc[p].out
             t1 == ReleasePipe(pipes, p, a)
             u1 == ReleaseProc(proc, pipes, p, a)
             t2 == ReleasePipe(t1, p, b)
             u2 == ReleaseProc(u1, t1, p, b)
             z == [u2[p] EXCEPT !.st = "dead", !.call = "none", !.left = 0, !.in = None, !.out = None]
  <1>1. /\ Live(proc, p) /\ UNCHANGED <<shell, nextPid>> /\ pipes' = t2 /\ proc' = [u2 EXCEPT ![p] = z]
    BY DEF Exit, Live
  <1>2. /\ pipes \in [Index -> PipeType] /\ proc \in [Pids -> ProcType] /\ p # 0
        /\ a \in Index \cup {None} /\ b \in Index \cup {None} /\ 0 \in 0..MaxLen /\ None \notin Index
    <2>1. setup \in Setups /\ pipes \in [Index -> PipeType] /\ proc \in [Pids -> ProcType]
      BY DEF PInv, Types
    <2>2. proc[p] \in ProcType
      BY <2>1
    <2>3. a \in Index \cup {None} /\ b \in Index \cup {None}
      BY <2>2 DEF ProcType
    <2>4. MaxLen \in Nat /\ None \notin Index /\ 0 \notin Pids
      BY <2>1, SetupFacts
    <2> QED
      BY <2>1, <2>3, <2>4
  <1>3. /\ a # None /\ pipes[a].inUse => pipes[a].rpid = p /\ pipes[a].wpid # p
        /\ b # None /\ pipes[b].inUse => pipes[b].wpid = p /\ pipes[b].rpid # p
    <2>1. /\ a # None /\ pipes[a].inUse => pipes[a].rpid = p
          /\ b # None /\ pipes[b].inUse => pipes[b].wpid = p
      BY <1>1 DEF PInv, Wiring, Links
    <2> QED
      BY <1>2, <2>1 DEF PInv, Wiring, EndsOK, EndsAt
  <1>4. \A j \in Index : pipes[j].inUse => /\ pipes[j].wpid = p => j = b
                                           /\ pipes[j].rpid = p => j = a
    BY <1>1 DEF PInv, Wiring, EndsOK, EndsAt
  <1>5. a = b /\ a # None => ~pipes[a].inUse
    BY <1>3
  <1>6. /\ t1 \in [Index -> PipeType] /\ u1 \in [Pids -> ProcType]
        /\ \A x \in Pids : Nudged(proc[x], u1[x])
        /\ a # None /\ pipes[a].inUse => \A x \in Pids : u1[x].st # "blocked"
        /\ a = None \/ ~pipes[a].inUse => t1 = pipes /\ u1 = proc
        /\ \A j \in Index : j # a => t1[j] = pipes[j]
    BY <1>2, ReleaseFacts
  <1>7. a # None => LET q == t1[a]
                    IN  /\ q.wpid = pipes[a].wpid /\ q.rpid = pipes[a].rpid /\ q.count = pipes[a].count
                        /\ q.head = pipes[a].head /\ q.tail = pipes[a].tail /\ q.buf = pipes[a].buf
                        /\ IF pipes[a].inUse
                           THEN /\ q.wopen <=> pipes[a].wopen /\ pipes[a].wpid # p
                                /\ q.ropen <=> pipes[a].ropen /\ pipes[a].rpid # p
                                /\ q.inUse <=> q.wopen \/ q.ropen
                           ELSE q = pipes[a]
    BY <1>2, ReleaseFacts
  <1> HIDE DEF t1, u1
  <1>8. /\ t2 \in [Index -> PipeType] /\ u2 \in [Pids -> ProcType]
        /\ \A x \in Pids : Nudged(u1[x], u2[x])
        /\ b # None /\ t1[b].inUse => \A x \in Pids : u2[x].st # "blocked"
        /\ b = None \/ ~t1[b].inUse => t2 = t1 /\ u2 = u1
        /\ \A j \in Index : j # b => t2[j] = t1[j]
    BY <1>2, <1>6, ReleaseFacts
  <1>9. b # None => LET q == t2[b]
                    IN  /\ q.wpid = t1[b].wpid /\ q.rpid = t1[b].rpid /\ q.count = t1[b].count
                        /\ q.head = t1[b].head /\ q.tail = t1[b].tail /\ q.buf = t1[b].buf
                        /\ IF t1[b].inUse
                           THEN /\ q.wopen <=> t1[b].wopen /\ t1[b].wpid # p
                                /\ q.ropen <=> t1[b].ropen /\ t1[b].rpid # p
                                /\ q.inUse <=> q.wopen \/ q.ropen
                           ELSE q = t1[b]
    BY <1>2, <1>6, ReleaseFacts
  <1> HIDE DEF t2, u2
  <1>10. b # None => t1[b] = pipes[b]
    BY <1>2, <1>5, <1>6
  <1>11. ASSUME NEW j \in Index
         PROVE  /\ pipes'[j].wpid = pipes[j].wpid /\ pipes'[j].rpid = pipes[j].rpid
                /\ pipes'[j].count = pipes[j].count /\ pipes'[j].head = pipes[j].head
                /\ pipes'[j].tail = pipes[j].tail /\ pipes'[j].buf = pipes[j].buf
                /\ pipes'[j].wopen <=> pipes[j].wopen /\ pipes[j].wpid # p
                /\ pipes'[j].ropen <=> pipes[j].ropen /\ pipes[j].rpid # p
                /\ pipes'[j].inUse <=> pipes[j].inUse /\ (pipes'[j].wopen \/ pipes'[j].ropen)
    <2>1. CASE pipes[j].inUse /\ j = b
      BY <1>1, <1>2, <1>9, <1>10, <2>1
    <2>2. CASE pipes[j].inUse /\ j # b /\ j = a
      BY <1>1, <1>2, <1>7, <1>8, <2>2
    <2>3. CASE pipes[j].inUse /\ j # b /\ j # a
      <3>1. pipes'[j] = pipes[j] /\ pipes[j].wpid # p /\ pipes[j].rpid # p
        BY <1>1, <1>4, <1>6, <1>8, <2>3
      <3>2. pipes[j].wopen \/ pipes[j].ropen
        BY <2>3 DEF PInv, Wiring, EndsOK, EndsAt
      <3> QED
        BY <2>3, <3>1, <3>2
    <2>4. CASE ~pipes[j].inUse
      <3>1. ~pipes[j].wopen /\ ~pipes[j].ropen
        BY <2>4 DEF PInv, Wiring, EndsOK
      <3>2. t1[j] = pipes[j]
        BY <1>2, <1>6, <1>7, <2>4
      <3>3. t2[j] = t1[j]
        BY <1>2, <1>8, <1>9, <2>4, <3>2
      <3> QED
        BY <1>1, <2>4, <3>1, <3>2, <3>3
    <2> QED
      BY <2>1, <2>2, <2>3, <2>4
  <1>12. \A x \in Pids : Nudged(proc[x], u2[x])
    BY <1>6, <1>8 DEF Nudged
  <1>13. /\ z \in ProcType /\ z.st = "dead" /\ z.call = "none"
         /\ z.eof = u2[p].eof /\ z.sent = u2[p].sent /\ z.got = u2[p].got
    <2>1. u2[p] \in ProcType
      BY <1>8
    <2> QED
      BY <1>2, <2>1 DEF ProcType
  <1> HIDE DEF z
  <1>14. /\ proc' \in [Pids -> ProcType] /\ proc'[p] = z /\ \A x \in Pids : x # p => proc'[x] = u2[x]
    BY <1>1, <1>8, <1>13
  <1>15. \/ \A x \in Pids : proc'[x].st # "blocked"
         \/ /\ pipes' = pipes
            /\ \A j \in Index : pipes[j].inUse => pipes[j].wpid # p /\ pipes[j].rpid # p
    <2>1. CASE b # None /\ t1[b].inUse
      BY <1>8, <1>13, <1>14, <2>1
    <2>2. CASE ~(b # None /\ t1[b].inUse) /\ a # None /\ pipes[a].inUse
      BY <1>6, <1>8, <1>13, <1>14, <2>2
    <2>3. CASE ~(b # None /\ t1[b].inUse) /\ ~(a # None /\ pipes[a].inUse)
      <3>1. pipes' = pipes
        BY <1>1, <1>6, <1>8, <2>3
      <3> QED
        BY <1>2, <1>4, <1>10, <2>3, <3>1
    <2> QED
      BY <2>1, <2>2, <2>3
  <1> HIDE DEF a, b
  <1>16. proc'[p].eof = proc[p].eof /\ proc'[p].sent = proc[p].sent /\ proc'[p].got = proc[p].got
    BY <1>12, <1>13, <1>14 DEF Nudged
  <1> QED
    BY <1>1, <1>8, <1>11, <1>12, <1>13, <1>14, <1>15, <1>16

LEMMA ExitStep ==
    ASSUME PInv, UNCHANGED setup, NEW p \in Pids, Exit(p)
    PROVE  PInv'
  <1>1. /\ Live(proc, p) /\ UNCHANGED <<shell, nextPid>>
        /\ pipes' \in [Index -> PipeType] /\ proc' \in [Pids -> ProcType]
        /\ \A x \in Pids : x # p => Nudged(proc[x], proc'[x])
        /\ proc'[p].st = "dead" /\ proc'[p].call = "none"
    BY ExitFacts
  <1>2. \A j \in Index :
                /\ pipes'[j].wpid = pipes[j].wpid /\ pipes'[j].rpid = pipes[j].rpid
                /\ pipes'[j].count = pipes[j].count /\ pipes'[j].head = pipes[j].head
                /\ pipes'[j].tail = pipes[j].tail /\ pipes'[j].buf = pipes[j].buf
                /\ pipes'[j].wopen <=> pipes[j].wopen /\ pipes[j].wpid # p
                /\ pipes'[j].ropen <=> pipes[j].ropen /\ pipes[j].rpid # p
                /\ pipes'[j].inUse <=> pipes[j].inUse /\ (pipes'[j].wopen \/ pipes'[j].ropen)
    BY ExitFacts
  <1>3. \/ \A x \in Pids : proc'[x].st # "blocked"
        \/ /\ pipes' = pipes
           /\ \A j \in Index : pipes[j].inUse => pipes[j].wpid # p /\ pipes[j].rpid # p
    BY ExitFacts
  <1>4. 0 \notin Pids /\ p # 0
    BY SetupFacts DEF PInv, Types
  <1>5. /\ \A x : Live(proc', x) <=> Live(proc, x) /\ x # p
        /\ \A x : Live(proc, x)' <=> Live(proc', x)
        /\ \A x \in Pids : x # p => proc'[x].in = proc[x].in /\ proc'[x].out = proc[x].out
    <2>1. \A x : Live(proc', x) <=> Live(proc, x) /\ x # p
      BY <1>1, NudgedFacts DEF Live
    <2>2. \A x : Live(proc, x)' <=> Live(proc', x)
      BY TypesFixed DEF Live
    <2> QED
      BY <1>1, <2>1, <2>2 DEF Nudged
  <1>6. /\ \A u \in Shells : /\ Intact(u)' <=> Intact(u)
                             /\ Made(u)' = Made(u) /\ Started(u)' = Started(u)
                             /\ \A k : /\ Waiting(u, k)' <=> Waiting(u, k)
                                       /\ PidAt(u, k)' = PidAt(u, k)
    BY <1>1, TypesFixed DEF Intact, Made, Started, Waiting, PidAt
  <1>7. Types'
    <2>1. \A j \in Index : Balanced(pipes'[j])
      BY <1>2 DEF PInv, Types, Balanced
    <2>2. ASSUME NEW x \in Pids
          PROVE  InCall(proc'[x]) /\ (proc'[x].st = "none" <=> x >= nextPid)
      <3>1. CASE x = p
        <4>1. proc[p].st # "none"
          BY <1>1 DEF Live
        <4> QED
          BY <1>1, <3>1, <4>1 DEF PInv, Types, InCall
      <3>2. CASE x # p
        BY <1>1, <3>2, NudgedFacts DEF PInv, Types
      <3> QED
        BY <3>1, <3>2
    <2> QED
      BY <1>1, <2>1, <2>2, TypesFixed DEF PInv, Types
  <1>8. ShellsOK'
    BY <1>1, <1>6, TypesFixed DEF PInv, Wiring, ShellsOK
  <1>9. PidsOK'
    BY <1>1, <1>5, TypesFixed DEF PInv, Wiring, PidsOK
  <1>10. WaitingOK'
    <2>1. ASSUME NEW u \in Shells, NEW k \in DOMAIN shell[u].pfd, Waiting(u, k)
          PROVE  /\ pipes'[shell[u].pfd[k]].inUse /\ pipes'[shell[u].pfd[k]].rpid = pipes[shell[u].pfd[k]].rpid
                 /\ pipes'[shell[u].pfd[k]].wpid = pipes[shell[u].pfd[k]].wpid
                 /\ pipes'[shell[u].pfd[k]].count = pipes[shell[u].pfd[k]].count
      <3>1. shell[u].pfd[k] \in Index
        BY ShellFacts DEF PInv
      <3>2. pipes[shell[u].pfd[k]].inUse /\ pipes[shell[u].pfd[k]].rpid = 0
        BY <2>1 DEF PInv, Wiring, WaitingOK
      <3>3. pipes[shell[u].pfd[k]].ropen
        BY <3>1, <3>2 DEF PInv, Wiring, EndsOK, EndsAt
      <3> QED
        BY <1>2, <1>4, <3>1, <3>2, <3>3
    <2> QED
      BY <1>1, <1>6, <2>1, TypesFixed DEF PInv, Wiring, WaitingOK
  <1>11. Owned'
    <2>1. \A j \in Index, u \in Shells : \A k : OwnedBy(j, u, k)' <=> OwnedBy(j, u, k)
      BY <1>1, <1>2, <1>6 DEF OwnedBy
    <2> QED
      BY <1>1, <1>2, <2>1, TypesFixed DEF PInv, Wiring, Owned
  <1>12. EndsOK'
    <2> SUFFICES ASSUME NEW j \in Index
                 PROVE  /\ ~pipes'[j].inUse => ~pipes'[j].wopen /\ ~pipes'[j].ropen
                        /\ pipes'[j].inUse => EndsAt(j)'
      BY DEF EndsOK
    <2>1. ~pipes'[j].inUse => ~pipes'[j].wopen /\ ~pipes'[j].ropen
      BY <1>2 DEF PInv, Wiring, EndsOK
    <2> SUFFICES ASSUME pipes'[j].inUse PROVE EndsAt(j)'
      BY <2>1
    <2>2. EndsAt(j) /\ (pipes'[j].wopen \/ pipes'[j].ropen)
      BY <1>2 DEF PInv, Wiring, EndsOK
    <2>3. PICK w : w = pipes[j].wpid
      OBVIOUS
    <2>4. PICK x : x = pipes[j].rpid
      OBVIOUS
    <2>5. /\ pipes[j].wopen <=> w = 0 \/ Live(proc, w)
          /\ pipes[j].ropen <=> x = 0 \/ Live(proc, x)
          /\ x # 0 => w # 0
          /\ w # 0 => w # x
          /\ Live(proc, w) => proc[w].out = j
          /\ Live(proc, x) => proc[x].in = j
          /\ w < nextPid /\ x < nextPid
      BY <2>2, <2>3, <2>4 DEF EndsAt
    <2>6. /\ Live(proc', w) => w \in Pids /\ w # p /\ Live(proc, w)
          /\ Live(proc', x) => x \in Pids /\ x # p /\ Live(proc, x)
      BY <1>5 DEF Live
    <2>7. /\ pipes'[j].wpid = w /\ pipes'[j].rpid = x
          /\ pipes'[j].wopen <=> w = 0 \/ Live(proc', w)
          /\ pipes'[j].ropen <=> x = 0 \/ Live(proc', x)
          /\ Live(proc', w) => proc'[w].out = j
          /\ Live(proc', x) => proc'[x].in = j
      BY <1>2, <1>4, <1>5, <2>3, <2>4, <2>5, <2>6
    <2>8. EndsAt(j)' <=> /\ pipes'[j].wopen <=> pipes'[j].wpid = 0 \/ Live(proc', pipes'[j].wpid)
                         /\ pipes'[j].ropen <=> pipes'[j].rpid = 0 \/ Live(proc', pipes'[j].rpid)
                         /\ pipes'[j].wopen \/ pipes'[j].ropen
                         /\ pipes'[j].rpid # 0 => pipes'[j].wpid # 0
                         /\ pipes'[j].wpid # 0 => pipes'[j].wpid # pipes'[j].rpid
                         /\ Live(proc', pipes'[j].wpid) => proc'[pipes'[j].wpid].out = j
                         /\ Live(proc', pipes'[j].rpid) => proc'[pipes'[j].rpid].in = j
                         /\ pipes'[j].wpid < nextPid' /\ pipes'[j].rpid < nextPid'
      BY TypesFixed DEF EndsAt, Live
    <2> QED
      BY <1>1, <2>2, <2>5, <2>7, <2>8
  <1>13. Links'
    <2> SUFFICES ASSUME NEW x \in Pids, Live(proc', x)
                 PROVE  /\ proc'[x].in # None => IF pipes'[proc'[x].in].inUse THEN pipes'[proc'[x].in].rpid = x
                                                 ELSE \E u \in Shells : ~Intact(u)'
                        /\ proc'[x].out # None => IF pipes'[proc'[x].out].inUse THEN pipes'[proc'[x].out].wpid = x
                                                  ELSE \E u \in Shells : ~Intact(u)'
      BY <1>5, TypesFixed DEF Links
    <2>1. x # p /\ Live(proc, x) /\ proc'[x].in = proc[x].in /\ proc'[x].out = proc[x].out
      BY <1>5
    <2>2. proc[x].in \in Index \cup {None} /\ proc[x].out \in Index \cup {None}
      BY DEF PInv, Types, ProcType
    <2>3. /\ proc[x].in # None => IF pipes[proc[x].in].inUse THEN pipes[proc[x].in].rpid = x
                                  ELSE \E u \in Shells : ~Intact(u)
          /\ proc[x].out # None => IF pipes[proc[x].out].inUse THEN pipes[proc[x].out].wpid = x
                                   ELSE \E u \in Shells : ~Intact(u)
      BY <2>1 DEF PInv, Wiring, Links
    <2>4. /\ proc[x].in # None /\ pipes[proc[x].in].inUse => pipes[proc[x].in].ropen
          /\ proc[x].out # None /\ pipes[proc[x].out].inUse => pipes[proc[x].out].wopen
      BY <2>1, <2>2, <2>3 DEF PInv, Wiring, EndsOK, EndsAt
    <2> QED
      BY <1>2, <1>6, <2>1, <2>2, <2>3, <2>4
  <1>14. Seats'
    <2>1. \A u \in Shells : \A m \in DOMAIN shell[u].pids : shell[u].pids[m] \in Pids
      BY ShellFacts DEF PInv
    <2> QED
      BY <1>1, <1>5, <1>6, <2>1, TypesFixed DEF PInv, Wiring, Seats
  <1>15. NoStuck'
    <2> SUFFICES ASSUME NEW x \in Pids, proc'[x].st = "blocked"
                 PROVE  IF proc'[x].call = "read"
                        THEN LET q == pipes'[proc'[x].in]
                             IN  q.count = 0 /\ q.wopen /\ Live(proc', q.wpid)
                        ELSE LET q == pipes'[proc'[x].out]
                             IN  q.count = Cap /\ q.ropen /\ (q.rpid = 0 \/ Live(proc', q.rpid))
      BY <1>5, TypesFixed DEF NoStuck
    <2>1. /\ pipes' = pipes /\ x # p
          /\ \A j \in Index : pipes[j].inUse => pipes[j].wpid # p /\ pipes[j].rpid # p
      BY <1>1, <1>3
    <2>2. proc[x].st = "blocked" /\ Nudged(proc[x], proc'[x])
      BY <1>1, <2>1, NudgedFacts
    <2>3. /\ proc[x].call = "read" => proc[x].in \in Index /\ pipes[proc[x].in].inUse
          /\ proc[x].call # "read" => proc[x].out \in Index /\ pipes[proc[x].out].inUse
      BY <2>2, BlockedInUse
    <2>4. IF proc[x].call = "read"
          THEN LET q == pipes[proc[x].in]
               IN  q.count = 0 /\ q.wopen /\ Live(proc, q.wpid)
          ELSE LET q == pipes[proc[x].out]
               IN  q.count = Cap /\ q.ropen /\ (q.rpid = 0 \/ Live(proc, q.rpid))
      BY <2>2 DEF PInv, NoStuck
    <2>5. proc'[x].call = proc[x].call /\ proc'[x].in = proc[x].in /\ proc'[x].out = proc[x].out
      BY <2>2 DEF Nudged
    <2> QED
      BY <1>5, <2>1, <2>3, <2>4, <2>5
  <1> QED
    BY <1>7, <1>8, <1>9, <1>10, <1>11, <1>12, <1>13, <1>14, <1>15 DEF PInv, Wiring


----------------------------------------------------------------------------
(* The invariant.                                                          *)

LEMMA InitPInv == Init => PInv
  <1> SUFFICES ASSUME Init PROVE PInv
    OBVIOUS
  <1>1. /\ setup \in Setups /\ pipes = [i \in Index |-> Free] /\ proc = [p \in Pids |-> Nobody]
        /\ shell = [s \in Shells |-> Idle] /\ nextPid = 1
    BY DEF Init
  <1>2. MaxPid \in Nat /\ MaxBytes \in Nat /\ MaxLen \in Nat /\ Cap \in Nat /\ Cap >= 1 /\ Pids = 1..MaxPid
        /\ Stages \in Nat /\ Stages >= 2
    BY <1>1, SetupFacts
  <1>3. Free \in PipeType /\ Balanced(Free) /\ ~Free.inUse /\ ~Free.wopen /\ ~Free.ropen
    <2>1. /\ 0 \in 0..MaxPid /\ 0 \in 0..(Cap - 1) /\ 0 \in 0..Cap
          /\ [k \in 0..(Cap - 1) |-> NoByte] \in [0..(Cap - 1) -> Bytes]
      <3>1. NoByte \in Bytes
        BY <1>2 DEF NoByte, Bytes
      <3> QED
        BY <1>2, <3>1
    <2>2. /\ Free \in PipeType /\ Free.head = 0 /\ Free.tail = 0 /\ Free.count = 0
          /\ ~Free.inUse /\ ~Free.wopen /\ ~Free.ropen
      BY <2>1 DEF Free, PipeType
    <2>3. Balanced(Free)
      BY <2>2 DEF Balanced
    <2> QED
      BY <2>2, <2>3
  <1>4. Nobody \in ProcType /\ InCall(Nobody) /\ Nobody.st = "none"
    <2>1. 0 \in 0..MaxLen /\ 0 \in 0..MaxBytes /\ <<>> \in Seq(Bytes) /\ 0 \in 0..MaxPid
      BY <1>2
    <2>2. Nobody \in ProcType /\ Nobody.st = "none" /\ Nobody.call = "none"
      BY <2>1 DEF Nobody, ProcType
    <2> QED
      BY <2>2 DEF InCall
  <1>5. Idle \in ShellType /\ Idle.pfd = <<>> /\ Idle.pids = <<>> /\ Idle.at = "idle"
    BY DEF Idle, ShellType, Stations
  <1>6. Types
    <2>1. nextPid \in 1..(MaxPid + 1) /\ \A p \in Pids : p >= nextPid
      BY <1>1, <1>2
    <2> QED
      BY <1>1, <1>3, <1>4, <1>5, <2>1 DEF Types
  <1>7. \A s \in Shells : /\ shell[s] = Idle /\ DOMAIN shell[s].pfd = {} /\ DOMAIN shell[s].pids = {}
                          /\ Made(s) = 0 /\ Started(s) = 0 /\ Intact(s)
    BY <1>1, <1>5 DEF Made, Started, Intact
  <1>8. \A p \in Pids : proc[p] = Nobody /\ ~Live(proc, p)
    BY <1>1, <1>4 DEF Live
  <1>9. \A i \in Index : ~pipes[i].inUse /\ ~pipes[i].wopen /\ ~pipes[i].ropen
    BY <1>1, <1>3
  <1>10. ShellsOK
    BY <1>2, <1>5, <1>7 DEF ShellsOK
  <1>11. PidsOK /\ WaitingOK /\ Seats
    BY <1>7, <1>8 DEF PidsOK, WaitingOK, Seats
  <1>12. Owned /\ EndsOK /\ Links /\ NoStuck
    BY <1>4, <1>8, <1>9 DEF Owned, EndsOK, Links, NoStuck
  <1> QED
    BY <1>6, <1>10, <1>11, <1>12 DEF PInv, Wiring

\* pipe_create, whichever slot it finds.
LEMMA PipeCreateStep ==
    ASSUME OneFails, PInv, UNCHANGED setup, NEW s \in Shells, PipeCreate(s)
    PROVE  PInv'
  <1> DEFINE free == {x \in Index : ~pipes[x].inUse}
             i == CHOOSE x \in free : \A y \in free : x <= y
  <1>1. CASE free = {}
    <2>1. /\ UNCHANGED <<setup, pipes, proc, nextPid>> /\ shell[s].at \in {"idle", "pipes"}
          /\ shell' = [shell EXCEPT ![s].at = "unmake"]
      BY <1>1 DEF PipeCreate
    <2> QED
      BY <2>1, NoneFree
  <1>2. CASE free # {}
    <2>1. i \in free
      <3>1. free \in SUBSET Nat
        BY SetupFacts DEF PInv, Types
      <3> HIDE DEF free
      <3> QED
        BY <1>2, <3>1, FirstOf
    <2>2. PICK j : j = i
      OBVIOUS
    <2>3. /\ shell[s].at \in {"idle", "pipes"} /\ UNCHANGED <<proc, nextPid>>
          /\ pipes' = [pipes EXCEPT ![j] = [Free EXCEPT !.inUse = TRUE, !.wopen = TRUE, !.ropen = TRUE]]
          /\ shell' = [shell EXCEPT ![s].pfd = Append(@, j),
                                    ![s].at = IF Made(s) + 1 = Stages - 1 THEN "spawn" ELSE "pipes"]
      BY <1>2, <2>2 DEF PipeCreate
    <2>4. j \in Index /\ CreatedIn(s, j)
      BY <2>1, <2>2, <2>3 DEF CreatedIn
    <2> QED
      BY <2>3, <2>4, CreateStep
  <1> QED
    BY <1>1, <1>2

\* kill, and the end of the kills.
LEMMA KillAllStep ==
    ASSUME PInv, UNCHANGED setup, NEW s \in Shells, Kill(s)
    PROVE  PInv'
  <1> DEFINE left == {n \in DOMAIN shell[s].pids :
                        LET p == shell[s].pids[n] IN Live(proc, p) /\ ~proc[p].killed}
             n == CHOOSE x \in left : \A y \in left : x <= y
  <1>1. CASE left = {}
    BY <1>1, KillsDone DEF Kill
  <1>2. CASE left # {}
    <2>1. proc' = Killed(proc, shell[s].pids[n]) /\ UNCHANGED <<setup, nextPid, pipes, shell>>
      BY <1>2 DEF Kill
    <2>2. PICK x : x = shell[s].pids[n]
      OBVIOUS
    <2> QED
      BY <2>1, <2>2, KillStep
  <1> QED
    BY <1>1, <1>2

LEMMA ProcSteps ==
    ASSUME PInv, UNCHANGED setup, NEW p \in Pids, ProcStep(p)
    PROVE  PInv'
  <1>1. proc[p] \in ProcType /\ InCall(proc[p]) /\ MaxLen \in Nat
    BY SetupFacts DEF PInv, Types
  <1>2. ASSUME NEW n \in 1..MaxLen, Write(p, n) PROVE PInv'
    <2>1. Live(proc, p) /\ proc[p].out # None /\ proc[p].sent + n <= MaxBytes /\ WriteOn(p, n)
      BY <1>2 DEF Write, Live
    <2>2. n \in 0..MaxLen
      BY <1>1
    <2> QED
      BY <2>1, <2>2, WriteStep
  <1>3. ASSUME NEW n \in 1..MaxLen, Read(p, n) PROVE PInv'
    <2>1. Live(proc, p) /\ proc[p].in # None /\ ReadOn(p, n)
      BY <1>3 DEF Read, Live
    <2>2. n \in 0..MaxLen
      BY <1>1
    <2> QED
      BY <2>1, <2>2, ReadStep
  <1>4. ASSUME WriteAgain(p) PROVE PInv'
    <2>1. PICK n : n = proc[p].left
      OBVIOUS
    <2>2. Live(proc, p) /\ proc[p].call = "write" /\ WriteOn(p, n)
      BY <1>4, <2>1 DEF WriteAgain, Live
    <2>3. proc[p].out # None /\ proc[p].sent + n <= MaxBytes /\ n \in 0..MaxLen
      BY <1>1, <2>1, <2>2 DEF InCall, ProcType
    <2> QED
      BY <2>2, <2>3, WriteStep
  <1>5. ASSUME ReadAgain(p) PROVE PInv'
    <2>1. PICK n : n = proc[p].left
      OBVIOUS
    <2>2. Live(proc, p) /\ proc[p].call = "read" /\ ReadOn(p, n)
      BY <1>5, <2>1 DEF ReadAgain, Live
    <2>3. proc[p].in # None /\ n \in 0..MaxLen
      BY <1>1, <2>1, <2>2 DEF InCall, ProcType
    <2> QED
      BY <2>2, <2>3, ReadStep
  <1> QED
    BY <1>2, <1>3, <1>4, <1>5, ExitStep DEF ProcStep

LEMMA NextPInv ==
    ASSUME OneFails, PInv, [Next]_<<setup, vars>>
    PROVE  PInv'
  <1>1. CASE UNCHANGED <<setup, vars>>
    <2>1. UNCHANGED <<setup, nextPid, pipes, shell, proc>>
      BY <1>1 DEF vars
    <2>2. proc' \in [Pids -> ProcType] /\ \A p \in Pids : Nudged(proc[p], proc'[p])
      BY <2>1 DEF PInv, Types, Nudged
    <2> QED
      BY <2>1, <2>2, NudgeStep
  <1>2. CASE Next
    <2>1. UNCHANGED setup
      BY <1>2 DEF Next
    <2>2. ASSUME NEW s \in Shells, ShellStep(s) PROVE PInv'
      BY <2>1, <2>2, PipeCreateStep, SpawnStep, SpawnFailStep, CloseStep, ClosedStep, KillAllStep,
         WaitAllStep DEF ShellStep
    <2>3. ASSUME NEW p \in Pids, ProcStep(p) PROVE PInv'
      BY <2>1, <2>3, ProcSteps
    <2> QED
      BY <1>2, <2>2, <2>3 DEF Next
  <1> QED
    BY <1>1, <1>2

\* The table, the processes and the shells agree: a pipe that is still to get
\* its reader cannot have been freed or given to another, and the ends of a pipe
\* in use are open exactly while their processes live (pipe_create,
\* spawn_from_user, stream_release, pipe_close).
THEOREM PipeWiring ==
    ASSUME OneFails
    PROVE  Spec => []PInv
  <1>1. Init => PInv
    BY InitPInv
  <1>2. PInv /\ [Next]_<<setup, vars>> => PInv'
    BY NextPInv
  <1> QED
    BY <1>1, <1>2, PTL DEF Spec

\* Nobody sleeps on a pipe that will not move: whatever empties, fills, closes
\* or frees it has woken him (process_wake_pipe).
THEOREM PipeNoStuck ==
    ASSUME OneFails
    PROVE  Spec => []NoStuck
  <1>1. PInv => NoStuck
    BY DEF PInv
  <1> QED
    BY <1>1, PipeWiring, PTL

\* A pipeline that is over leaves no pipe behind (pipe_maybe_free, pipe_close).
THEOREM PipeNoLeak ==
    ASSUME OneFails
    PROVE  Spec => []NoLeak
  <1>1. PInv => NoLeak
    BY DEF PInv, Wiring, Owned, OwnedBy, NoLeak
  <1> QED
    BY <1>1, PipeWiring, PTL


----------------------------------------------------------------------------
(* What is in the rings.                                                   *)

\* A pipe holds what w wrote after the first g bytes.
Ring(q, w, g) == \A x \in 0..(q.count - 1) : q.buf[(q.tail + x) % Cap] = <<w, g + x + 1>>

\* What stage n has had of the stage before it, and what is still on the way.
Flow(s, n) ==
    LET w == shell[s].pids[n - 1]
        r == shell[s].pids[n]
        q == pipes[shell[s].pfd[n - 1]]
        g == Len(proc[r].got)
    IN  /\ proc[r].got = [x \in 1..g |-> <<w, x>>]
        /\ g <= proc[w].sent
        /\ proc[r].eof => proc[w].st = "dead" /\ g = proc[w].sent
        /\ Live(proc, r) => Ring(q, w, g) /\ proc[w].sent = g + q.count

\* A pipe that waits for its reader holds all its writer has sent.
Stored(s, k) ==
    LET q == pipes[shell[s].pfd[k]]
        w == shell[s].pids[k]
    IN  Ring(q, w, 0) /\ proc[w].sent = q.count

Flows ==
    /\ \A s \in Shells : Intact(s) => \A n \in DOMAIN shell[s].pids : n > 1 => Flow(s, n)
    /\ \A s \in Shells : \A k \in DOMAIN shell[s].pfd : Waiting(s, k) /\ k = Started(s) => Stored(s, k)

\* How far a place is from the head.
LEMMA FromHead ==
    ASSUME NEW h \in 0..(Cap - 1), NEW t \in 0..(Cap - 1), NEW c \in 0..Cap, (h - t) % Cap = c % Cap,
           NEW x \in 0..(Cap - 1)
    PROVE  (((t + x) % Cap) - h) % Cap = IF x < c THEN x - c + Cap ELSE x - c
  <1> DEFINE y == (t + x) % Cap
  <1>1. Cap \in Nat \ {0} /\ x \in 0..Cap
    BY PipeAssumption
  <1>2. y \in 0..(Cap - 1) /\ y = IF t + x < Cap THEN t + x ELSE t + x - Cap
    BY <1>1, PlaceSum
  <1>3. /\ t + c < Cap => h = t + c
        /\ ~(t + c < Cap) => h = t + c - Cap
    BY HeadAt
  <1> HIDE DEF y
  <1>4. CASE x < c
    <2>1. y - h = x - c \/ y - h = x - c + Cap \/ y - h = x - c - Cap
      BY <1>1, <1>2, <1>3
    <2>2. y - h = x - c - Cap => FALSE
      BY <1>1, <1>2, <1>3, <1>4
    <2>3. CASE y - h = x - c
      <3>1. y - h \in (-Cap)..(-1)
        BY <1>1, <1>4, <2>3
      <3>2. (y - h) % Cap = (y - h) + Cap
        BY <3>1, ModFacts
      <3> QED
        BY <1>1, <1>4, <2>3, <3>2 DEF y
    <2>4. CASE y - h = x - c + Cap
      <3>1. y - h \in 0..(Cap - 1)
        BY <1>1, <1>4, <2>4
      <3>2. (y - h) % Cap = y - h
        BY <3>1, ModFacts
      <3> QED
        BY <1>1, <1>4, <2>4, <3>2 DEF y
    <2> QED
      BY <2>1, <2>2, <2>3, <2>4
  <1>5. CASE ~(x < c)
    <2>1. y - h = x - c \/ y - h = x - c - Cap
      BY <1>1, <1>2, <1>3, <1>5
    <2>2. CASE y - h = x - c
      <3>1. y - h \in 0..(Cap - 1)
        BY <1>1, <1>5, <2>2
      <3>2. (y - h) % Cap = y - h
        BY <3>1, ModFacts
      <3> QED
        BY <1>1, <1>5, <2>2, <3>2 DEF y
    <2>3. CASE y - h = x - c - Cap
      <3>1. y - h \in (-Cap)..(-1)
        BY <1>1, <1>5, <2>3
      <3>2. (y - h) % Cap = (y - h) + Cap
        BY <3>1, ModFacts
      <3> QED
        BY <1>1, <1>5, <2>3, <3>2 DEF y
    <2> QED
      BY <2>1, <2>2, <2>3
  <1> QED
    BY <1>4, <1>5

\* What is put in is behind what is there ...
LEMMA RingPut ==
    ASSUME setup \in Setups, NEW q \in PipeType, Balanced(q), NEW p \in Pids, NEW g \in Nat,
           NEW k \in 0..(Cap - q.count), g + q.count + k <= MaxBytes, Ring(q, p, g)
    PROVE  Ring(Put(q, p, g + q.count, k), p, g)
  <1> DEFINE z == Put(q, p, g + q.count, k)
  <1>1. /\ Cap \in Nat \ {0} /\ q.head \in 0..(Cap - 1) /\ q.tail \in 0..(Cap - 1) /\ q.count \in 0..Cap
        /\ (q.head - q.tail) % Cap = q.count % Cap
    BY PipeAssumption DEF PipeType, Balanced
  <1>2. g + q.count \in Nat
    BY <1>1
  <1>3. /\ z.count = q.count + k /\ z.tail = q.tail
        /\ \A y \in 0..(Cap - 1) :
             z.buf[y] = IF (y - q.head) % Cap < k
                        THEN <<p, (g + q.count) + ((y - q.head) % Cap) + 1>> ELSE q.buf[y]
    BY <1>1, <1>2, PutFacts
  <1> HIDE DEF z
  <1> SUFFICES ASSUME NEW x \in 0..(z.count - 1)
               PROVE  z.buf[(z.tail + x) % Cap] = <<p, g + x + 1>>
    BY DEF Ring, z
  <1>4. x \in 0..(Cap - 1) /\ x \in 0..Cap /\ x \in Nat /\ x <= q.count + k - 1
    BY <1>1, <1>3
  <1> DEFINE y == (q.tail + x) % Cap
             d == (y - q.head) % Cap
  <1>5. y \in 0..(Cap - 1)
    BY <1>1, <1>4, PlaceSum
  <1>6. d = IF x < q.count THEN x - q.count + Cap ELSE x - q.count
    <2>1. PICK h \in 0..(Cap - 1), t \in 0..(Cap - 1), c \in 0..Cap : h = q.head /\ t = q.tail /\ c = q.count
      BY <1>1
    <2>2. (h - t) % Cap = c % Cap
      BY <1>1, <2>1
    <2>3. (((t + x) % Cap) - h) % Cap = IF x < c THEN x - c + Cap ELSE x - c
      BY <1>4, <2>2, FromHead
    <2> QED
      BY <2>1, <2>3
  <1>7. z.buf[y] = IF d < k THEN <<p, (g + q.count) + d + 1>> ELSE q.buf[y]
    BY <1>3, <1>5
  <1>8. (z.tail + x) % Cap = y
    BY <1>3
  <1>9. q.buf[y] = <<p, g + x + 1>> \/ ~(x < q.count)
    <2>1. x < q.count => x \in 0..(q.count - 1)
      BY <1>1, <1>4
    <2> QED
      BY <2>1 DEF Ring
  <1> HIDE DEF d, y
  <1>10. CASE x < q.count
    <2>1. ~(d < k)
      BY <1>1, <1>4, <1>6, <1>10
    <2> QED
      BY <1>7, <1>8, <1>9, <1>10, <2>1
  <1>11. CASE ~(x < q.count)
    <2>1. d < k /\ (g + q.count) + d + 1 = g + x + 1
      BY <1>1, <1>4, <1>6, <1>11
    <2> QED
      BY <1>7, <1>8, <2>1
  <1> QED
    BY <1>10, <1>11

\* ... and what is taken out was at the front of it.
LEMMA RingTake ==
    ASSUME NEW q \in PipeType, NEW w, NEW g \in Nat, NEW k \in 0..q.count, Ring(q, w, g),
           NEW z, z.buf = q.buf, z.tail = (q.tail + k) % Cap, z.count = q.count - k
    PROVE  /\ Ring(z, w, g + k)
           /\ \A x \in 1..k : Took(q, k)[x] = <<w, g + x>>
  <1>1. Cap \in Nat \ {0} /\ q.tail \in 0..(Cap - 1) /\ q.count \in 0..Cap /\ k \in 0..Cap
    <2>1. Cap \in Nat \ {0} /\ q.tail \in 0..(Cap - 1) /\ q.count \in 0..Cap
      BY PipeAssumption DEF PipeType
    <2> QED
      BY <2>1
  <1>2. ASSUME NEW x \in 0..(z.count - 1)
        PROVE  z.buf[(z.tail + x) % Cap] = <<w, (g + k) + x + 1>>
    <2>1. x \in 0..Cap /\ k + x \in 0..Cap /\ k + x \in 0..(q.count - 1) /\ x \in Nat
      BY <1>1
    <2>2. /\ z.tail \in 0..(Cap - 1)
          /\ z.tail = IF q.tail + k < Cap THEN q.tail + k ELSE q.tail + k - Cap
      BY <1>1, PlaceSum
    <2>3. (z.tail + x) % Cap = IF z.tail + x < Cap THEN z.tail + x ELSE z.tail + x - Cap
      BY <2>1, <2>2, PlaceSum
    <2>4. (q.tail + (k + x)) % Cap = IF q.tail + (k + x) < Cap THEN q.tail + (k + x)
                                      ELSE q.tail + (k + x) - Cap
      BY <1>1, <2>1, PlaceSum
    <2>5. (z.tail + x) % Cap = (q.tail + (k + x)) % Cap
      BY <1>1, <2>1, <2>2, <2>3, <2>4
    <2>6. q.buf[(q.tail + (k + x)) % Cap] = <<w, g + (k + x) + 1>>
      BY <2>1 DEF Ring
    <2>7. g + (k + x) + 1 = (g + k) + x + 1
      BY <1>1, <2>1
    <2> QED
      BY <2>5, <2>6, <2>7
  <1>3. ASSUME NEW x \in 1..k
        PROVE  Took(q, k)[x] = <<w, g + x>>
    <2>1. x - 1 \in 0..(q.count - 1) /\ g + (x - 1) + 1 = g + x /\ q.tail + (x - 1) = q.tail + x - 1
      BY <1>1
    <2>2. q.buf[(q.tail + (x - 1)) % Cap] = <<w, g + (x - 1) + 1>>
      BY <2>1 DEF Ring
    <2> QED
      BY <2>1, <2>2 DEF Took
  <1> QED
    BY <1>2, <1>3 DEF Ring


\* A live stage's input is the pipe between it and the stage before it.
LEMMA LiveSeat ==
    ASSUME OneFails, PInv, NEW s \in Shells, Intact(s), NEW n \in DOMAIN shell[s].pids
    PROVE  /\ n \in Nat /\ n >= 1 /\ n <= Stages
           /\ shell[s].pids[n] \in Pids /\ shell[s].pids[n] < nextPid
           /\ n > 1 => /\ n - 1 \in DOMAIN shell[s].pids /\ shell[s].pids[n - 1] \in Pids
                       /\ n - 1 \in DOMAIN shell[s].pfd /\ shell[s].pfd[n - 1] \in Index
                       /\ n - 1 < Stages
                       /\ shell[s].pids[n - 1] # shell[s].pids[n]
           /\ n > 1 /\ Live(proc, shell[s].pids[n]) =>
                       /\ proc[shell[s].pids[n]].in = shell[s].pfd[n - 1]
                       /\ pipes[shell[s].pfd[n - 1]].inUse
                       /\ pipes[shell[s].pfd[n - 1]].rpid = shell[s].pids[n]
                       /\ pipes[shell[s].pfd[n - 1]].wpid = shell[s].pids[n - 1]
           /\ \A u \in Shells : Intact(u)
  <1>1. /\ DOMAIN shell[s].pfd = 1..Made(s) /\ DOMAIN shell[s].pids = 1..Started(s)
        /\ Made(s) \in Nat /\ Started(s) \in Nat /\ Stages \in Nat /\ Stages >= 2
        /\ None \notin Index
    BY ShellFacts, SetupFacts DEF PInv, Types
  <1>2. \A u \in Shells : Intact(u)
    BY OnlyShell DEF PInv, Wiring
  <1>3. Started(s) <= Stages /\ (Started(s) > 0 => Made(s) = Stages - 1)
    <2>1. shell[s].at \in {"idle", "pipes", "unmake"} => Started(s) = 0
      BY DEF PInv, Wiring, ShellsOK, Started
    <2>2. shell[s].at = "spawn" => Made(s) = Stages - 1 /\ Started(s) < Stages
      BY DEF PInv, Wiring, ShellsOK
    <2>3. shell[s].at = "wait" => Started(s) = Stages /\ Made(s) = Stages - 1
      BY DEF PInv, Wiring, ShellsOK, Intact
    <2>4. shell[s].at \in {"idle", "pipes", "unmake", "spawn", "wait"}
      BY DEF Intact
    <2> QED
      BY <1>1, <2>1, <2>2, <2>3, <2>4
  <1>4. /\ n \in Nat /\ n >= 1 /\ n <= Stages
        /\ n > 1 => /\ n - 1 \in DOMAIN shell[s].pids /\ n - 1 \in DOMAIN shell[s].pfd /\ n - 1 # n /\ n - 1 < Stages
                    /\ n - 1 <= Started(s) /\ (n - 1) + 1 = n
        /\ n <= Started(s)
    BY <1>1, <1>3
  <1>5. /\ shell[s].pids[n] \in Pids /\ shell[s].pids[n] < nextPid
        /\ n > 1 => shell[s].pids[n - 1] \in Pids /\ shell[s].pfd[n - 1] \in Index
    BY <1>4, ShellFacts DEF PInv, Wiring, PidsOK
  <1>6. n > 1 => shell[s].pids[n - 1] # shell[s].pids[n]
    BY <1>4 DEF PInv, Wiring, PidsOK
  <1>7. ASSUME n > 1, Live(proc, shell[s].pids[n])
        PROVE  /\ proc[shell[s].pids[n]].in = shell[s].pfd[n - 1]
               /\ pipes[shell[s].pfd[n - 1]].inUse
               /\ pipes[shell[s].pfd[n - 1]].rpid = shell[s].pids[n]
               /\ pipes[shell[s].pfd[n - 1]].wpid = shell[s].pids[n - 1]
    <2>1. PICK r : r = shell[s].pids[n]
      OBVIOUS
    <2>2. PICK j : j = shell[s].pfd[n - 1]
      OBVIOUS
    <2>3. j \in Index /\ r \in Pids /\ j # None /\ Live(proc, r)
      BY <1>1, <1>5, <1>7, <2>1, <2>2
    <2>4. proc[r].in = j
      BY <1>4, <1>7, <2>1, <2>2 DEF PInv, Wiring, Seats
    <2>5. pipes[j].inUse /\ pipes[j].rpid = r
      BY <1>2, <2>3, <2>4 DEF PInv, Wiring, Links
    <2>6. PICK u \in Shells : \E k \in DOMAIN shell[u].pfd : OwnedBy(j, u, k)
      BY <2>3, <2>5 DEF PInv, Wiring, Owned
    <2>7. PICK k \in DOMAIN shell[u].pfd : OwnedBy(j, u, k)
      BY <2>6
    <2>8. pipes[j].wpid = PidAt(u, k) /\ r = PidAt(u, k + 1)
      BY <1>2, <2>5, <2>7 DEF OwnedBy
    <2>9. k \in Nat /\ k >= 1 /\ Started(u) \in Nat /\ DOMAIN shell[u].pids = 1..Started(u)
      BY ShellFacts DEF PInv
    <2>10. k + 1 <= Started(u) /\ r = shell[u].pids[k + 1]
      <3>1. r # 0
        BY <2>3, SetupFacts DEF PInv, Types
      <3> QED
        BY <2>8, <3>1 DEF PidAt
    <2>11. k + 1 \in DOMAIN shell[u].pids
      BY <2>9, <2>10
    <2>12. u = s /\ k + 1 = n
      <3>1. \A v, x \in Shells : \A a \in DOMAIN shell[v].pids, b \in DOMAIN shell[x].pids :
              shell[v].pids[a] = shell[x].pids[b] => v = x /\ a = b
        BY DEF PInv, Wiring, PidsOK
      <3>2. shell[u].pids[k + 1] = shell[s].pids[n]
        BY <2>1, <2>10
      <3> QED
        BY <2>11, <3>1, <3>2
    <2>13. k = n - 1 /\ k <= Started(s)
      BY <1>4, <2>9, <2>12
    <2>14. pipes[j].wpid = shell[s].pids[n - 1]
      BY <2>8, <2>12, <2>13 DEF PidAt
    <2> QED
      BY <2>1, <2>2, <2>4, <2>5, <2>14
  <1> QED
    BY <1>2, <1>4, <1>5, <1>6, <1>7

\* Where a pipeline was given up, nothing is said.
LEMMA NothingSaid ==
    ASSUME OneFails, PInv, NEW u \in Shells, ~Intact(u)
    PROVE  Flows
  <1>1. \A s \in Shells : ~Intact(s)
    BY OnlyShell DEF PInv, Wiring
  <1>2. \A s \in Shells : \A k : ~Waiting(s, k)
    BY <1>1 DEF Waiting, Intact
  <1> QED
    BY <1>1, <1>2 DEF Flows

\* A step that carries nothing.
LEMMA KeepFlows ==
    ASSUME OneFails, PInv, PInv', Flows, UNCHANGED setup,
           \A s \in Shells : shell'[s] = shell[s] \/ shell'[s].pids = <<>> \/ ~Intact(s)',
           \A j \in Index : pipes[j].inUse => /\ pipes'[j].buf = pipes[j].buf /\ pipes'[j].tail = pipes[j].tail
                                              /\ pipes'[j].count = pipes[j].count,
           \A x \in Pids : /\ proc'[x].sent = proc[x].sent /\ proc'[x].got = proc[x].got
                           /\ proc'[x].eof = proc[x].eof
                           /\ proc[x].st = "dead" => proc'[x].st = "dead"
                           /\ Live(proc', x) => Live(proc, x)
    PROVE  Flows'
  <1>1. Shells' = Shells /\ Stages' = Stages
    BY TypesFixed
  <1>2. ASSUME NEW s \in Shells, Intact(s)', shell'[s].pids # <<>>
        PROVE  shell'[s] = shell[s] /\ Intact(s) /\ Started(s)' = Started(s) /\ \A k : Waiting(s, k)' => Waiting(s, k)
    BY <1>1, <1>2 DEF Intact, Started, Waiting
  <1>3. ASSUME NEW s \in Shells, Intact(s)', NEW n \in DOMAIN shell'[s].pids, n > 1
        PROVE  Flow(s, n)'
    <2>1. shell'[s].pids # <<>>
      BY <1>3
    <2>2. shell'[s] = shell[s] /\ Intact(s)
      BY <1>2, <1>3, <2>1
    <2>3. Flow(s, n)
      BY <1>3, <2>2 DEF Flows
    <2>4. PICK w : w = shell[s].pids[n - 1]
      OBVIOUS
    <2>5. PICK r : r = shell[s].pids[n]
      OBVIOUS
    <2>6. PICK j : j = shell[s].pfd[n - 1]
      OBVIOUS
    <2>7. w \in Pids /\ r \in Pids /\ j \in Index /\ (Live(proc, r) => pipes[j].inUse)
      BY <1>3, <2>2, <2>4, <2>5, <2>6, LiveSeat
    <2>8. Live(proc, r)' => Live(proc, r)
      BY <2>7, TypesFixed DEF Live
    <2>9. /\ proc[r].got = [x \in 1..Len(proc[r].got) |-> <<w, x>>]
          /\ Len(proc[r].got) <= proc[w].sent
          /\ proc[r].eof => proc[w].st = "dead" /\ Len(proc[r].got) = proc[w].sent
          /\ Live(proc, r) => Ring(pipes[j], w, Len(proc[r].got)) /\ proc[w].sent = Len(proc[r].got) + pipes[j].count
      BY <2>3, <2>4, <2>5, <2>6 DEF Flow
    <2>10. /\ proc'[r].got = [x \in 1..Len(proc'[r].got) |-> <<w, x>>]
           /\ Len(proc'[r].got) <= proc'[w].sent
           /\ proc'[r].eof => proc'[w].st = "dead" /\ Len(proc'[r].got) = proc'[w].sent
      BY <2>7, <2>9
    <2>11. Live(proc, r)' => /\ Ring(pipes'[j], w, Len(proc'[r].got))
                             /\ proc'[w].sent = Len(proc'[r].got) + pipes'[j].count
      BY <2>7, <2>8, <2>9 DEF Ring
    <2> QED
      BY <2>2, <2>4, <2>5, <2>6, <2>10, <2>11 DEF Flow, Ring
  <1>4. ASSUME NEW s \in Shells, NEW k \in DOMAIN shell'[s].pfd, Waiting(s, k)', k = Started(s)'
        PROVE  Stored(s, k)'
    <2>1. Intact(s)' /\ shell'[s].pids # <<>>
      <3>1. Intact(s)'
        BY <1>4 DEF Waiting, Intact
      <3>2. shell' \in [Shells -> ShellType]
        BY <1>1, TypesFixed DEF PInv, Types
      <3>3. shell'[s].pfd \in Seq(Index)
        BY <3>2 DEF ShellType
      <3>4. k >= 1
        BY <1>4, <3>3
      <3>5. Len(shell'[s].pids) # 0
        BY <1>4, <3>3, <3>4 DEF Started
      <3> QED
        BY <3>1, <3>5
    <2>2. shell'[s] = shell[s] /\ Intact(s) /\ Started(s) = k /\ Waiting(s, k)
      BY <1>2, <1>4, <2>1
    <2>3. Stored(s, k)
      BY <1>4, <2>2 DEF Flows
    <2>4. PICK w : w = shell[s].pids[k]
      OBVIOUS
    <2>5. PICK j : j = shell[s].pfd[k]
      OBVIOUS
    <2>6. j \in Index /\ pipes[j].inUse /\ w \in Pids
      <3>1. k \in DOMAIN shell[s].pids /\ k \in DOMAIN shell[s].pfd
        BY <1>4, <2>2, ShellFacts DEF PInv
      <3> QED
        BY <2>2, <2>4, <2>5, <3>1, ShellFacts DEF PInv, Wiring, WaitingOK
    <2>7. Ring(pipes[j], w, 0) /\ proc[w].sent = pipes[j].count
      BY <2>3, <2>4, <2>5 DEF Stored
    <2>8. Ring(pipes'[j], w, 0) /\ proc'[w].sent = pipes'[j].count
      BY <2>6, <2>7 DEF Ring
    <2> QED
      BY <2>2, <2>4, <2>5, <2>8 DEF Stored, Ring
  <1> QED
    BY <1>1, <1>3, <1>4 DEF Flows


\* A wake-up or a kill carries nothing.
LEMMA NudgedData ==
    ASSUME NEW x \in Pids, Nudged(proc[x], proc'[x])
    PROVE  /\ proc'[x].sent = proc[x].sent /\ proc'[x].got = proc[x].got /\ proc'[x].eof = proc[x].eof
           /\ proc[x].st = "dead" => proc'[x].st = "dead"
           /\ Live(proc', x) => Live(proc, x)
  BY NudgedFacts DEF Nudged

\* Nor does anything a shell does but start a stage.
LEMMA ShellFlows ==
    ASSUME OneFails, PInv, PInv', Flows, UNCHANGED setup, NEW s \in Shells,
           SpawnFail(s) \/ Closed(s) \/ Kill(s) \/ WaitAll(s) \/ PipeCreate(s) \/ PipeClose(s)
    PROVE  Flows'
  <1>1. shell \in [Shells -> ShellType] /\ pipes \in [Index -> PipeType] /\ proc \in [Pids -> ProcType]
        /\ shell[s] \in ShellType
    BY DEF PInv, Types
  <1>2. \A x \in Pids : Nudged(proc[x], proc[x])
    BY DEF Nudged
  <1>3. shell[s].at \in {"idle", "pipes", "unmake"} => shell[s].pids = <<>>
    BY DEF PInv, Wiring, ShellsOK
  <1>4. ASSUME NEW a, shell' = [shell EXCEPT ![s].at = a]
        PROVE  /\ \A u \in Shells : u # s => shell'[u] = shell[u]
               /\ shell'[s].pids = shell[s].pids /\ shell'[s].at = a
    BY <1>1, <1>4 DEF ShellType
  <1>5. CASE SpawnFail(s)
    <2>1. shell' = [shell EXCEPT ![s].at = "close"] /\ UNCHANGED <<pipes, proc>>
      BY <1>5 DEF SpawnFail
    <2>2. ~Intact(s)' /\ \A u \in Shells : u # s => shell'[u] = shell[u]
      <3>1. shell'[s].at = "close" /\ \A u \in Shells : u # s => shell'[u] = shell[u]
        BY <1>4, <2>1
      <3> QED
        BY <3>1 DEF Intact
    <2> QED
      BY <1>2, <2>1, <2>2, KeepFlows
  <1>6. CASE Closed(s)
    <2>1. PICK a : a = IF shell[s].at = "unmake" THEN "idle" ELSE "kill"
      OBVIOUS
    <2>2. shell' = [shell EXCEPT ![s].at = a] /\ UNCHANGED <<pipes, proc>>
      BY <1>6, <2>1 DEF Closed
    <2>3. shell'[s].at = a /\ shell'[s].pids = shell[s].pids /\ \A u \in Shells : u # s => shell'[u] = shell[u]
      BY <1>4, <2>2
    <2>4. shell'[s].pids = <<>> \/ ~Intact(s)'
      BY <1>3, <2>1, <2>3 DEF Intact
    <2> QED
      BY <2>2, <2>3, <2>4, KeepFlows
  <1>7. CASE Kill(s)
    <2>1. ~Intact(s)
      BY <1>7 DEF Kill, Intact
    <2>2. \A u \in Shells : u = s
      BY <2>1, OnlyShell DEF PInv, Wiring
    <2>3. ~Intact(s)'
      <3>1. shell[s].at = "kill" /\ Started(s) < Stages /\ Started(s) \in Nat /\ Stages \in Nat
        BY <1>7, <2>1, ShellFacts, SetupFacts DEF Kill, PInv, Types, Wiring, ShellsOK
      <3>2. \/ shell' = shell
            \/ shell' = [shell EXCEPT ![s].at = "wait"]
        BY <1>7 DEF Kill
      <3>3. shell'[s].pids = shell[s].pids /\ shell'[s].at \in {"kill", "wait"}
        BY <1>4, <3>1, <3>2
      <3>4. Started(s)' # Stages'
        BY <3>1, <3>3, TypesFixed DEF Started
      <3> QED
        BY <3>3, <3>4 DEF Intact
    <2>4. Shells' = Shells
      BY TypesFixed
    <2>5. (\A u \in Shells : ~Intact(u))'
      BY <2>2, <2>3, <2>4
    <2> QED
      BY <2>5 DEF Flows, Waiting, Intact
  <1>8. CASE WaitAll(s)
    <2>1. shell' = [shell EXCEPT ![s] = Idle] /\ UNCHANGED <<pipes, proc>>
      BY <1>8 DEF WaitAll
    <2>2. shell'[s].pids = <<>> /\ \A u \in Shells : u # s => shell'[u] = shell[u]
      BY <1>1, <2>1 DEF Idle
    <2> QED
      BY <1>2, <2>1, <2>2, KeepFlows
  <1>9. CASE PipeCreate(s)
    <2> DEFINE free == {x \in Index : ~pipes[x].inUse}
               i == CHOOSE x \in free : \A y \in free : x <= y
    <2>1. shell[s].pids = <<>> /\ UNCHANGED proc
      BY <1>3, <1>9 DEF PipeCreate
    <2>2. CASE free = {}
      <3>1. UNCHANGED pipes /\ shell' = [shell EXCEPT ![s].at = "unmake"]
        BY <1>9, <2>2 DEF PipeCreate
      <3>2. shell'[s].pids = <<>> /\ \A u \in Shells : u # s => shell'[u] = shell[u]
        BY <1>4, <2>1, <3>1
      <3> QED
        BY <2>1, <3>1, <3>2, KeepFlows
    <2>3. CASE free # {}
      <3>1. i \in free
        <4>1. free \in SUBSET Nat
          BY SetupFacts DEF PInv, Types
        <4> HIDE DEF free
        <4> QED
          BY <2>3, <4>1, FirstOf
      <3>2. PICK j : j = i
        OBVIOUS
      <3>3. PICK a : a = IF Made(s) + 1 = Stages - 1 THEN "spawn" ELSE "pipes"
        OBVIOUS
      <3>4. PICK f : f = Append(shell[s].pfd, j)
        OBVIOUS
      <3>5. PICK z : z = [Free EXCEPT !.inUse = TRUE, !.wopen = TRUE, !.ropen = TRUE]
        OBVIOUS
      <3>6. pipes' = [pipes EXCEPT ![j] = z] /\ shell' = [shell EXCEPT ![s].pfd = f, ![s].at = a]
        BY <1>9, <2>3, <3>2, <3>3, <3>4, <3>5 DEF PipeCreate
      <3>7. j \in Index /\ ~pipes[j].inUse
        BY <3>1, <3>2
      <3>8. shell'[s].pids = shell[s].pids /\ \A u \in Shells : u # s => shell'[u] = shell[u]
        BY <1>1, <3>6 DEF ShellType
      <3>9. \A x \in Index : pipes[x].inUse => pipes'[x] = pipes[x]
        BY <1>1, <3>6, <3>7
      <3> QED
        BY <2>1, <3>8, <3>9, KeepFlows
    <2> QED
      BY <2>2, <2>3
  <1>10. CASE PipeClose(s)
    <2>1. PICK f : f = Tail(shell[s].pfd)
      OBVIOUS
    <2>2. PICK i : i = Head(shell[s].pfd)
      OBVIOUS
    <2>3. /\ shell[s].at \in {"unmake", "close"} /\ shell' = [shell EXCEPT ![s].pfd = f]
          /\ \/ UNCHANGED <<pipes, proc>>
             \/ /\ pipes' = [pipes EXCEPT ![i].wopen = FALSE, ![i].ropen = FALSE, ![i].inUse = FALSE]
                /\ proc' = Woken(proc)
      BY <1>10, <2>1, <2>2 DEF PipeClose, CloseWakes
    <2>4. /\ shell'[s].pids = shell[s].pids /\ shell'[s].at = shell[s].at
          /\ \A u \in Shells : u # s => shell'[u] = shell[u]
      BY <1>1, <2>3 DEF ShellType
    <2>5. shell'[s].pids = <<>> \/ ~Intact(s)'
      BY <1>3, <2>3, <2>4 DEF Intact
    <2>6. \A x \in Index : /\ pipes'[x].buf = pipes[x].buf /\ pipes'[x].tail = pipes[x].tail
                           /\ pipes'[x].count = pipes[x].count
      <3> TAKE x \in Index
      <3>1. pipes[x] \in PipeType
        BY <1>1
      <3>2. \/ pipes'[x] = pipes[x]
            \/ pipes'[x] = [pipes[x] EXCEPT !.wopen = FALSE, !.ropen = FALSE, !.inUse = FALSE]
        BY <1>1, <2>3
      <3> QED
        BY <3>1, <3>2 DEF PipeType
    <2>7. \A x \in Pids : Nudged(proc[x], proc'[x])
      BY <1>1, <1>2, <2>3, WokenFacts
    <2> QED
      BY <2>4, <2>5, <2>6, <2>7, NudgedData, KeepFlows
  <1> QED
    BY <1>5, <1>6, <1>7, <1>8, <1>9, <1>10

\* Nor does the end of a process.
LEMMA ExitFlows ==
    ASSUME OneFails, PInv, PInv', Flows, UNCHANGED setup, NEW p \in Pids, Exit(p)
    PROVE  Flows'
  <1>1. /\ UNCHANGED <<shell, nextPid>>
        /\ \A x \in Pids : x # p => Nudged(proc[x], proc'[x])
        /\ proc'[p].st = "dead"
        /\ proc'[p].eof = proc[p].eof /\ proc'[p].sent = proc[p].sent /\ proc'[p].got = proc[p].got
    BY ExitFacts
  <1>2. \A j \in Index : /\ pipes'[j].count = pipes[j].count
                         /\ pipes'[j].tail = pipes[j].tail /\ pipes'[j].buf = pipes[j].buf
    BY ExitFacts
  <1>3. ASSUME NEW x \in Pids
        PROVE  /\ proc'[x].sent = proc[x].sent /\ proc'[x].got = proc[x].got
               /\ proc'[x].eof = proc[x].eof
               /\ proc[x].st = "dead" => proc'[x].st = "dead"
               /\ Live(proc', x) => Live(proc, x)
    <2>1. CASE x = p
      BY <1>1, <2>1 DEF Live
    <2>2. CASE x # p
      BY <1>1, <2>2, NudgedData
    <2> QED
      BY <2>1, <2>2
  <1> QED
    BY <1>1, <1>2, <1>3, KeepFlows


\* What is written is behind what was there, and is the writer's own.
LEMMA WriteFlows ==
    ASSUME OneFails, PInv, PInv', Flows, UNCHANGED setup, NEW p \in Pids, Live(proc, p), proc[p].out # None,
           NEW n \in 0..MaxLen, proc[p].sent + n <= MaxBytes, WriteOn(p, n)
    PROVE  Flows'
  <1>0. PICK i : i = proc[p].out
    OBVIOUS
  <1> DEFINE k == Least(n, Cap - pipes[i].count)
             after == IF k > 0 THEN Woken(proc) ELSE proc
             r == [proc[p] EXCEPT !.sent = @ + k, !.left = n - k,
                                  !.st = IF k < n THEN "blocked" ELSE "user",
                                  !.call = IF k < n THEN "write" ELSE "none"]
             g == [proc[p] EXCEPT !.st = "user", !.call = "none", !.left = 0]
  <1>1. /\ proc[p] \in ProcType /\ i \in Index /\ pipes \in [Index -> PipeType]
        /\ proc \in [Pids -> ProcType] /\ pipes[i] \in PipeType
        /\ UNCHANGED <<shell, nextPid>> /\ setup \in Setups
        /\ Balanced(pipes[i]) /\ Shells' = Shells /\ Stages' = Stages
    <2>1. proc[p] \in ProcType /\ i \in Index
      BY <1>0, AtTheEnd
    <2> QED
      BY <2>1, TypesFixed DEF PInv, Types, WriteOn
  <1>2. /\ pipes[i].count \in 0..Cap /\ pipes[i].count \in Nat /\ proc[p].sent \in Nat /\ Cap \in Nat
        /\ MaxLen \in Nat /\ n \in Nat /\ MaxBytes \in Nat
    BY <1>1, SetupFacts DEF PipeType, ProcType
  <1>3. k \in Nat /\ k <= n /\ k \in 0..(Cap - pipes[i].count) /\ proc[p].sent + k <= MaxBytes
    <2>1. Cap - pipes[i].count \in Nat
      BY <1>2
    <2>2. k \in Nat /\ k <= n /\ k <= Cap - pipes[i].count
      BY <1>2, <2>1, LeastFacts
    <2> QED
      BY <1>2, <2>1, <2>2
  <1>4. CASE ~pipes[i].ropen
    <2>1. pipes' = pipes /\ proc' = [proc EXCEPT ![p] = g]
      BY <1>0, <1>1, <1>4 DEF WriteOn
    <2>2. g.sent = proc[p].sent /\ g.got = proc[p].got /\ g.eof = proc[p].eof /\ g.st = "user"
      BY <1>1 DEF ProcType
    <2>3. proc[p].st # "dead"
      BY DEF Live
    <2> HIDE DEF g
    <2>4. \A x \in Pids : /\ proc'[x].sent = proc[x].sent /\ proc'[x].got = proc[x].got
                          /\ proc'[x].eof = proc[x].eof
                          /\ proc[x].st = "dead" => proc'[x].st = "dead"
                          /\ Live(proc', x) => Live(proc, x)
      BY <1>1, <2>1, <2>2, <2>3 DEF Live
    <2> QED
      BY <1>1, <2>1, <2>4, KeepFlows
  <1>5. CASE pipes[i].ropen /\ \E u \in Shells : ~Intact(u)
    <2>1. \A u \in Shells : ~Intact(u)
      BY <1>5, OnlyShell DEF PInv, Wiring
    <2>2. (\A u \in Shells : ~Intact(u))'
      BY <1>1, <2>1 DEF Intact, Started
    <2> QED
      BY <2>2 DEF Flows, Waiting, Intact
  <1>6. CASE pipes[i].ropen /\ \A u \in Shells : Intact(u)
    <2> DEFINE q == Put(pipes[i], p, proc[p].sent, k)
    <2>1. pipes' = [pipes EXCEPT ![i] = q] /\ proc' = [after EXCEPT ![p] = r]
      BY <1>0, <1>6 DEF WriteOn
    <2>2. pipes[i].inUse /\ pipes[i].wpid = p
      BY <1>0, <1>6, AtTheEnd
    <2>3. q.count = pipes[i].count + k
      BY <1>1, <1>2, <1>3, PutFacts
    <2>4. r.sent = proc[p].sent + k /\ r.got = proc[p].got /\ r.eof = proc[p].eof /\ r.st \in {"user", "blocked"}
      <3> HIDE DEF k
      <3> QED
        BY <1>1 DEF ProcType
    <2>5. after \in [Pids -> ProcType] /\ \A x \in Pids : Nudged(proc[x], after[x])
      <3>1. \A x \in Pids : Nudged(proc[x], proc[x])
        BY DEF Nudged
      <3> QED
        BY <1>1, <3>1, WokenFacts
    <2>6. ASSUME NEW c \in Nat, Ring(pipes[i], p, c), proc[p].sent = c + pipes[i].count
          PROVE  Ring(q, p, c)
      <3>1. c + pipes[i].count + k <= MaxBytes
        BY <1>2, <1>3, <2>6
      <3> HIDE DEF k
      <3>2. Ring(Put(pipes[i], p, c + pipes[i].count, k), p, c)
        BY <1>1, <1>3, <2>6, <3>1, RingPut
      <3> QED
        BY <2>6, <3>2
    <2> HIDE DEF q, r, after, k
    <2>7. pipes'[i] = q /\ \A j \in Index : j # i => pipes'[j] = pipes[j]
      BY <1>1, <2>1
    <2>8. /\ proc'[p].sent = proc[p].sent + k /\ Live(proc', p)
          /\ \A x \in Pids : /\ proc'[x].got = proc[x].got /\ proc'[x].eof = proc[x].eof
                             /\ x # p => proc'[x].sent = proc[x].sent
                             /\ proc[x].st = "dead" => proc'[x].st = "dead"
                             /\ Live(proc', x) <=> Live(proc, x)
      <3>1. proc'[p] = r /\ \A x \in Pids : x # p => proc'[x] = after[x]
        BY <2>1, <2>5
      <3>2. Live(proc', p)
        BY <2>4, <3>1 DEF Live
      <3>3. \A x \in Pids : x # p => Nudged(proc[x], proc'[x])
        BY <2>5, <3>1
      <3>4. proc[p].st # "dead"
        BY DEF Live
      <3>5. \A x \in Pids : x # p =>
              /\ proc'[x].got = proc[x].got /\ proc'[x].eof = proc[x].eof /\ proc'[x].sent = proc[x].sent
              /\ proc[x].st = "dead" => proc'[x].st = "dead"
              /\ Live(proc', x) <=> Live(proc, x)
        BY <3>3, NudgedFacts DEF Nudged
      <3> QED
        BY <2>4, <3>1, <3>2, <3>4, <3>5
    <2>9. ASSUME NEW s \in Shells, NEW m \in DOMAIN shell[s].pids, m > 1
          PROVE  Flow(s, m)'
      <3>1. PICK w : w = shell[s].pids[m - 1]
        OBVIOUS
      <3>2. PICK z : z = shell[s].pids[m]
        OBVIOUS
      <3>3. PICK j : j = shell[s].pfd[m - 1]
        OBVIOUS
      <3>4. /\ w \in Pids /\ z \in Pids /\ j \in Index /\ m - 1 \in DOMAIN shell[s].pids /\ m - 1 < Stages
            /\ Live(proc, z) => pipes[j].inUse /\ pipes[j].rpid = z /\ pipes[j].wpid = w
            /\ w # z
        BY <1>6, <2>9, <3>1, <3>2, <3>3, LiveSeat
      <3>5. PICK c : c = Len(proc[z].got)
        OBVIOUS
      <3>6. /\ proc[z].got = [x \in 1..c |-> <<w, x>>]
            /\ c <= proc[w].sent
            /\ proc[z].eof => proc[w].st = "dead" /\ c = proc[w].sent
            /\ Live(proc, z) => Ring(pipes[j], w, c) /\ proc[w].sent = c + pipes[j].count
        <4>1. Flow(s, m)
          BY <1>6, <2>9 DEF Flows
        <4> QED
          BY <3>1, <3>2, <3>3, <3>5, <4>1 DEF Flow
      <3>7. c \in Nat /\ proc'[z].got = proc[z].got /\ proc'[z].eof = proc[z].eof
        <4>1. proc[z].got \in Seq(Bytes)
          BY <1>1, <3>4 DEF ProcType
        <4> QED
          BY <2>8, <3>4, <3>5, <4>1
      <3>8. /\ c <= proc'[w].sent
            /\ proc[z].eof => proc'[w].st = "dead" /\ c = proc'[w].sent
            /\ Live(proc', z) => Ring(pipes'[j], w, c) /\ proc'[w].sent = c + pipes'[j].count
        <4>1. CASE w = p
          <5>1. proc[p].out = j
            BY <1>6, <3>1, <3>3, <3>4, <4>1 DEF PInv, Wiring, Seats
          <5>2. j = i
            BY <1>0, <5>1
          <5>3. ~proc[z].eof
            BY <3>6, <4>1 DEF Live
          <5>4. c <= proc'[w].sent
            BY <1>2, <1>3, <2>8, <3>6, <3>7, <4>1
          <5>5. ASSUME Live(proc, z)
                PROVE  Ring(pipes'[j], w, c) /\ proc'[w].sent = c + pipes'[j].count
            <6>1. proc[p].sent = c + pipes[i].count /\ Ring(pipes[i], p, c)
              BY <3>6, <4>1, <5>2, <5>5
            <6>2. Ring(q, p, c)
              BY <2>6, <3>7, <6>1
            <6> QED
              BY <1>2, <1>3, <2>3, <2>7, <2>8, <3>7, <4>1, <5>2, <6>1, <6>2
          <5> QED
            BY <2>8, <3>4, <5>3, <5>4, <5>5
        <4>2. CASE w # p
          <5>1. proc'[w].sent = proc[w].sent /\ (proc[w].st = "dead" => proc'[w].st = "dead")
            BY <2>8, <3>4, <4>2
          <5>2. Live(proc, z) => j # i
            BY <2>2, <3>4, <4>2
          <5> QED
            BY <2>7, <2>8, <3>4, <3>6, <5>1, <5>2
        <4> QED
          BY <4>1, <4>2
      <3>9. Live(proc, z)' <=> Live(proc', z)
        BY TypesFixed DEF Live
      <3> QED
        BY <1>1, <3>1, <3>2, <3>3, <3>5, <3>6, <3>7, <3>8, <3>9, ZenonT(60) DEF Flow, Ring
    <2>10. ASSUME NEW s \in Shells, NEW m \in DOMAIN shell[s].pfd, Waiting(s, m), m = Started(s)
           PROVE  Stored(s, m)'
      <3>1. PICK w : w = shell[s].pids[m]
        OBVIOUS
      <3>2. PICK j : j = shell[s].pfd[m]
        OBVIOUS
      <3>3. m \in DOMAIN shell[s].pids /\ j \in Index /\ w \in Pids /\ pipes[j].wpid = w
        <4>1. m \in DOMAIN shell[s].pids /\ m \in DOMAIN shell[s].pfd
          BY <2>10, ShellFacts DEF PInv
        <4> QED
          BY <2>10, <3>1, <3>2, <4>1, ShellFacts DEF PInv, Wiring, WaitingOK
      <3>4. Ring(pipes[j], w, 0) /\ proc[w].sent = pipes[j].count
        BY <2>10, <3>1, <3>2 DEF Flows, Stored
      <3>5. Ring(pipes'[j], w, 0) /\ proc'[w].sent = pipes'[j].count
        <4>1. CASE w = p
          <5>1. m < Stages
            <6>1. m >= 1 /\ m = Started(s)
              BY <2>10, ShellFacts DEF PInv
            <6>2. shell[s].at \in {"pipes", "unmake"} => Started(s) = 0
              BY DEF PInv, Wiring, ShellsOK, Started
            <6>3. shell[s].at = "spawn" => Started(s) < Stages
              BY DEF PInv, Wiring, ShellsOK
            <6> QED
              BY <2>10, <6>1, <6>2, <6>3 DEF Waiting
          <5>2. proc[p].out = j
            BY <1>6, <3>1, <3>2, <3>3, <4>1, <5>1 DEF PInv, Wiring, Seats
          <5>3. j = i /\ Ring(pipes[i], p, 0) /\ proc[p].sent = 0 + pipes[i].count
            BY <1>0, <1>2, <3>4, <4>1, <5>2
          <5>4. Ring(q, p, 0)
            BY <2>6, <5>3
          <5> QED
            BY <1>2, <1>3, <2>3, <2>7, <2>8, <3>4, <4>1, <5>3, <5>4
        <4>2. CASE w # p
          BY <2>2, <2>7, <2>8, <3>3, <3>4, <4>2
        <4> QED
          BY <4>1, <4>2
      <3> QED
        BY <1>1, <3>1, <3>2, <3>5 DEF Stored, Ring
    <2>11. \A s \in Shells : \A m : /\ Waiting(s, m)' => Waiting(s, m)
                                    /\ Started(s)' = Started(s)
      BY <1>1 DEF Waiting, Started
    <2> QED
      BY <1>1, <2>9, <2>10, <2>11 DEF Flows
  <1> QED
    BY <1>4, <1>5, <1>6


\* What is read is the next of what was written; and the end is the end.
LEMMA ReadFlows ==
    ASSUME OneFails, PInv, PInv', Flows, UNCHANGED setup, NEW p \in Pids, Live(proc, p), proc[p].in # None,
           NEW n \in 0..MaxLen, ReadOn(p, n)
    PROVE  Flows'
  <1>0. PICK i : i = proc[p].in
    OBVIOUS
  <1> DEFINE k == Least(n, pipes[i].count)
             taken == Took(pipes[i], k)
             back == [proc[p] EXCEPT !.st = "user", !.call = "none", !.left = 0]
             r == [back EXCEPT !.got = @ \o taken]
             asleep == [proc[p] EXCEPT !.st = "blocked", !.call = "read", !.left = n]
             ended == [back EXCEPT !.eof = TRUE]
  <1>1. /\ proc[p] \in ProcType /\ i \in Index /\ pipes \in [Index -> PipeType]
        /\ proc \in [Pids -> ProcType] /\ pipes[i] \in PipeType
        /\ UNCHANGED <<shell, nextPid>> /\ setup \in Setups
        /\ Shells' = Shells /\ Stages' = Stages
    <2>1. proc[p] \in ProcType /\ i \in Index
      BY <1>0, AtTheEnd
    <2> QED
      BY <2>1, TypesFixed DEF PInv, Types, ReadOn
  <1>2. /\ pipes[i].count \in 0..Cap /\ pipes[i].count \in Nat /\ Cap \in Nat /\ n \in Nat
        /\ proc[p].got \in Seq(Bytes)
    BY <1>1, SetupFacts DEF PipeType, ProcType
  <1>3. k \in Nat /\ k <= pipes[i].count /\ k \in 0..pipes[i].count
    <2>1. k \in Nat /\ k <= pipes[i].count
      BY <1>2, LeastFacts
    <2> QED
      BY <1>2, <2>1
  <1>4. /\ back.st = "user" /\ back.got = proc[p].got /\ back.eof = proc[p].eof /\ back.sent = proc[p].sent
        /\ back \in ProcType
    <2>1. 0 \in 0..MaxLen
      BY <1>1, SetupFacts
    <2> QED
      BY <1>1, <2>1 DEF ProcType
  <1>5. proc[p].st # "dead"
    BY DEF Live
  <1>6. CASE \E u \in Shells : ~Intact(u)
    <2>1. \A u \in Shells : ~Intact(u)
      BY <1>6, OnlyShell DEF PInv, Wiring
    <2>2. (\A u \in Shells : ~Intact(u))'
      BY <1>1, <2>1 DEF Intact, Started
    <2> QED
      BY <2>2 DEF Flows, Waiting, Intact
  <1>7. CASE Drained(pipes[i]) /\ pipes[i].wopen
    <2>1. pipes' = pipes /\ proc' = [proc EXCEPT ![p] = asleep]
      BY <1>0, <1>1, <1>7 DEF ReadOn
    <2>2. asleep.sent = proc[p].sent /\ asleep.got = proc[p].got /\ asleep.eof = proc[p].eof
      BY <1>1 DEF ProcType
    <2> HIDE DEF asleep
    <2>3. \A x \in Pids : /\ proc'[x].sent = proc[x].sent /\ proc'[x].got = proc[x].got
                          /\ proc'[x].eof = proc[x].eof
                          /\ proc[x].st = "dead" => proc'[x].st = "dead"
                          /\ Live(proc', x) => Live(proc, x)
      BY <1>1, <1>5, <2>1, <2>2 DEF Live
    <2> QED
      BY <1>1, <2>1, <2>3, KeepFlows
  \* What p and its pipe come to, when something is taken or it is the end.
  <1>8. CASE ~(Drained(pipes[i]) /\ pipes[i].wopen) /\ \A u \in Shells : Intact(u)
    <2> DEFINE q == [pipes[i] EXCEPT !.tail = (@ + k) % Cap, !.count = @ - k]
               end == Drained(pipes[i])
    <2>1. /\ end => k = 0
          /\ end => pipes' = pipes /\ proc' = [proc EXCEPT ![p] = ended] /\ ~pipes[i].wopen /\ pipes[i].count = 0
          /\ ~end => pipes' = [pipes EXCEPT ![i] = q] /\ proc' = [Woken(proc) EXCEPT ![p] = r]
      <3>1. end => pipes[i].count = 0
        BY DEF Drained
      <3>2. end => k = 0
        <4> HIDE DEF k, end
        <4> QED
          BY <1>2, <1>3, <3>1
      <3>3. end => pipes' = pipes /\ proc' = [proc EXCEPT ![p] = ended] /\ ~pipes[i].wopen
        BY <1>0, <1>1, <1>8 DEF ReadOn
      <3>4. ~end => pipes' = [pipes EXCEPT ![i] = q] /\ proc' = [Woken(proc) EXCEPT ![p] = r]
        BY <1>0, <1>1, <1>8 DEF ReadOn, Took
      <3> QED
        BY <3>1, <3>2, <3>3, <3>4
    <2>2. PICK s \in Shells : \E m \in DOMAIN shell[s].pids : shell[s].pids[m] = p
      BY DEF PInv, Wiring, PidsOK
    <2>3. PICK m \in DOMAIN shell[s].pids : shell[s].pids[m] = p
      BY <2>2
    <2>4. /\ m > 1 /\ m \in Nat /\ i = shell[s].pfd[m - 1] /\ pipes[i].inUse /\ pipes[i].rpid = p
          /\ pipes[i].wpid = shell[s].pids[m - 1]
          /\ m - 1 \in DOMAIN shell[s].pids /\ shell[s].pids[m - 1] \in Pids /\ shell[s].pids[m - 1] # p
      <3>1. m > 1
        BY <1>8, <2>3 DEF PInv, Wiring, Seats
      <3> QED
        BY <1>0, <1>8, <2>3, <3>1, LiveSeat
    <2>5. PICK w : w = shell[s].pids[m - 1]
      OBVIOUS
    <2>6. PICK c : c = Len(proc[p].got)
      OBVIOUS
    <2>7. /\ c \in Nat /\ proc[p].got = [x \in 1..c |-> <<w, x>>]
          /\ proc[p].eof => proc[w].st = "dead" /\ c = proc[w].sent
          /\ Ring(pipes[i], w, c) /\ proc[w].sent = c + pipes[i].count
          /\ w \in Pids /\ w # p
      <3>1. Flow(s, m)
        BY <1>8, <2>4 DEF Flows
      <3> QED
        BY <1>2, <2>3, <2>4, <2>5, <2>6, <3>1, SMTT(40) DEF Flow
    <2>8. /\ taken \in Seq(Bytes) /\ Len(taken) = k
      BY <1>1, <1>3, TookFacts
    <2>9. /\ r.got = proc[p].got \o taken /\ r.eof = proc[p].eof /\ r.sent = proc[p].sent /\ r.st = "user"
      <3> HIDE DEF taken, back
      <3>1. r.got = back.got \o taken /\ r.eof = back.eof /\ r.sent = back.sent /\ r.st = back.st
        BY <1>4 DEF ProcType
      <3> QED
        BY <1>4, <3>1
    <2>10. ended.got = proc[p].got /\ ended.sent = proc[p].sent /\ ended.st = "user"
      <3> HIDE DEF back
      <3>1. ended.got = back.got /\ ended.sent = back.sent /\ ended.st = back.st
        BY <1>4 DEF ProcType
      <3> QED
        BY <1>4, <3>1
    <2>11. q.buf = pipes[i].buf /\ q.tail = (pipes[i].tail + k) % Cap /\ q.count = pipes[i].count - k
      BY <1>1 DEF PipeType
    <2>12. /\ Ring(q, w, c + k)
           /\ \A x \in 1..k : taken[x] = <<w, c + x>>
      <3> HIDE DEF q, k
      <3> QED
        BY <1>1, <1>3, <2>7, <2>11, RingTake
    <2>13. /\ r.got = [x \in 1..(c + k) |-> <<w, x>>] /\ Len(r.got) = c + k
      <3> DEFINE f == [x \in 1..(c + k) |-> <<w, x>>]
      <3> HIDE DEF taken, k
      <3>1. proc[p].got \o taken \in Seq(Bytes) /\ Len(proc[p].got \o taken) = c + k
        <4> SUFFICES ASSUME NEW g \in Seq(Bytes), NEW h \in Seq(Bytes), g = proc[p].got, h = taken
                     PROVE  g \o h \in Seq(Bytes) /\ Len(g \o h) = Len(g) + Len(h)
          BY <1>2, <2>6, <2>8
        <4> QED
          OBVIOUS
      <3>2. ASSUME NEW x \in 1..(c + k)
            PROVE  (proc[p].got \o taken)[x] = <<w, x>>
        <4>1. CASE x <= c
          <5>1. x \in 1..c /\ x \in 1..Len(proc[p].got)
            BY <1>3, <2>6, <2>7, <4>1
          <5>2. (proc[p].got \o taken)[x] = proc[p].got[x]
            BY <1>2, <2>8, <5>1
          <5>3. proc[p].got[x] = <<w, x>>
            BY <2>7, <5>1
          <5> QED
            BY <5>2, <5>3
        <4>2. CASE ~(x <= c)
          <5>1. x - c \in 1..k /\ c + (x - c) = x
            BY <1>3, <2>7, <4>2
          <5>2. (proc[p].got \o taken)[x] = taken[x - c]
            BY <1>2, <1>3, <2>6, <2>7, <2>8, <4>2, <5>1, SMTT(40)
          <5>3. taken[x - c] = <<w, c + (x - c)>>
            BY <2>12, <5>1
          <5> QED
            BY <5>1, <5>2, <5>3
        <4> QED
          BY <4>1, <4>2
      <3>3. proc[p].got \o taken = f
        <4>1. DOMAIN (proc[p].got \o taken) = 1..(c + k)
          BY <3>1
        <4>2. proc[p].got \o taken = [x \in 1..(c + k) |-> (proc[p].got \o taken)[x]]
          BY <3>1, <4>1
        <4> QED
          BY <3>2, <4>2
      <3> QED
        BY <2>9, <3>1, <3>3
    <2>14. end => proc[w].st = "dead"
      <3> SUFFICES ASSUME end PROVE proc[w].st = "dead"
        OBVIOUS
      <3>1. ~pipes[i].wopen /\ pipes[i].wpid = w
        BY <2>1, <2>4, <2>5
      <3>2. ~Live(proc, w)
        BY <1>1, <2>4, <3>1 DEF PInv, Wiring, EndsOK, EndsAt
      <3>3. w < nextPid
        BY <2>4, <2>5 DEF PInv, Wiring, PidsOK
      <3>4. ~(w >= nextPid)
        BY <2>7, <3>3, SetupFacts DEF PInv, Types
      <3>5. proc[w].st # "none" /\ proc[w] \in ProcType
        BY <2>7, <3>4 DEF PInv, Types
      <3> QED
        BY <2>7, <3>2, <3>5 DEF Live, ProcType
    <2> HIDE DEF q, r, ended, k, taken, back
    <2>15. /\ pipes[i].count = 0 => end
           /\ end => /\ k = 0 /\ pipes' = pipes /\ proc'[p] = ended /\ pipes[i].count = 0
                     /\ \A x \in Pids : x # p => proc'[x] = proc[x]
           /\ ~end => /\ pipes'[i] = q /\ proc'[p] = r
                      /\ \A x \in Pids : x # p => proc'[x] = Woken(proc)[x]
           /\ \A j \in Index : j # i => pipes'[j] = pipes[j]
      <3>1. Woken(proc) \in [Pids -> ProcType]
        BY <1>1, WokenFacts
      <3> QED
        BY <1>1, <2>1, <3>1 DEF Drained
    <2>16. \A x \in Pids : x # p => Nudged(proc[x], proc'[x])
      <3>1. \A x \in Pids : Nudged(proc[x], proc[x]) /\ Nudged(proc[x], Woken(proc)[x])
        BY <1>1, WokenFacts DEF Nudged
      <3> QED
        BY <2>15, <3>1
    <2>17. \A x \in Pids : /\ x # p => proc'[x].got = proc[x].got /\ proc'[x].eof = proc[x].eof
                           /\ proc'[x].sent = proc[x].sent
                           /\ proc[x].st = "dead" => proc'[x].st = "dead"
                           /\ Live(proc', x) => Live(proc, x)
      BY <1>5, <2>9, <2>10, <2>15, <2>16, NudgedData DEF Live
    <2>18. /\ proc'[p].got = [x \in 1..(c + k) |-> <<w, x>>] /\ Len(proc'[p].got) = c + k
           /\ c + k <= proc'[w].sent
           /\ proc'[p].eof => proc'[w].st = "dead" /\ c + k = proc'[w].sent
           /\ Ring(pipes'[i], w, c + k) /\ proc'[w].sent = (c + k) + pipes'[i].count
      <3>1. proc'[w].sent = proc[w].sent /\ (proc[w].st = "dead" => proc'[w].st = "dead")
        BY <2>7, <2>17
      <3>2. CASE end
        <4>1. k = 0 /\ c + k = c /\ pipes[i].count = 0 /\ proc[w].sent = c /\ pipes' = pipes
          BY <1>2, <2>7, <2>15, <3>2
        <4>2. proc'[p].got = proc[p].got
          BY <2>10, <2>15, <3>2
        <4> QED
          BY <1>2, <2>6, <2>7, <2>14, <3>1, <3>2, <4>1, <4>2
      <3>3. CASE ~end
        <4>1. proc'[p] = r /\ pipes'[i] = q /\ pipes[i].count # 0
          BY <2>15, <3>3
        <4>2. ~proc[p].eof
          BY <1>2, <2>7, <4>1
        <4>3. c + k <= proc[w].sent /\ proc[w].sent = (c + k) + q.count
          BY <1>2, <1>3, <2>7, <2>11
        <4> QED
          BY <2>9, <2>12, <2>13, <3>1, <4>1, <4>2, <4>3
      <3> QED
        BY <3>2, <3>3
    <2>19. ASSUME NEW u \in Shells, NEW y \in DOMAIN shell[u].pids, y > 1
           PROVE  Flow(u, y)'
      <3>1. CASE u = s /\ y = m
        <4>1. shell'[u].pids[y] = p /\ shell'[u].pids[y - 1] = w /\ shell'[u].pfd[y - 1] = i
          BY <1>1, <2>3, <2>4, <2>5, <3>1
        <4> QED
          BY <1>1, <2>18, <4>1, ZenonT(60) DEF Flow, Ring
      <3>2. CASE ~(u = s /\ y = m)
        <4>1. PICK a : a = shell[u].pids[y - 1]
          OBVIOUS
        <4>2. PICK z : z = shell[u].pids[y]
          OBVIOUS
        <4>3. PICK j : j = shell[u].pfd[y - 1]
          OBVIOUS
        <4>4. z # p
          BY <2>3, <2>19, <3>2, <4>2 DEF PInv, Wiring, PidsOK
        <4>5. /\ a \in Pids /\ z \in Pids /\ j \in Index
              /\ Live(proc, z) => pipes[j].rpid = z
          BY <1>8, <2>19, <4>1, <4>2, <4>3, LiveSeat
        <4>6. Live(proc, z) => pipes'[j] = pipes[j]
          BY <2>4, <2>15, <4>4, <4>5
        <4>7. /\ proc[z].got = [x \in 1..Len(proc[z].got) |-> <<a, x>>]
              /\ Len(proc[z].got) <= proc[a].sent
              /\ proc[z].eof => proc[a].st = "dead" /\ Len(proc[z].got) = proc[a].sent
              /\ Live(proc, z) => /\ Ring(pipes[j], a, Len(proc[z].got))
                                  /\ proc[a].sent = Len(proc[z].got) + pipes[j].count
          <5>1. Flow(u, y)
            BY <1>8, <2>19 DEF Flows
          <5> QED
            BY <4>1, <4>2, <4>3, <5>1 DEF Flow
        <4>8. /\ proc'[z].got = proc[z].got /\ proc'[z].eof = proc[z].eof /\ proc'[a].sent = proc[a].sent
              /\ proc[a].st = "dead" => proc'[a].st = "dead"
              /\ Live(proc, z)' => Live(proc, z)
          BY <2>17, <4>4, <4>5, TypesFixed DEF Live
        <4>9. Live(proc, z)' => /\ Ring(pipes'[j], a, Len(proc'[z].got))
                                /\ proc'[a].sent = Len(proc'[z].got) + pipes'[j].count
          BY <4>6, <4>7, <4>8
        <4>10. /\ proc'[z].got = [x \in 1..Len(proc'[z].got) |-> <<a, x>>]
               /\ Len(proc'[z].got) <= proc'[a].sent
               /\ proc'[z].eof => proc'[a].st = "dead" /\ Len(proc'[z].got) = proc'[a].sent
          BY <4>7, <4>8
        <4>11. shell'[u].pids[y] = z /\ shell'[u].pids[y - 1] = a /\ shell'[u].pfd[y - 1] = j
          BY <1>1, <4>1, <4>2, <4>3
        <4> QED
          BY <4>9, <4>10, <4>11 DEF Flow, Ring
      <3> QED
        BY <3>1, <3>2
    <2>20. ASSUME NEW u \in Shells, NEW y \in DOMAIN shell[u].pfd, Waiting(u, y), y = Started(u)
           PROVE  Stored(u, y)'
      <3>1. PICK a : a = shell[u].pids[y]
        OBVIOUS
      <3>2. PICK j : j = shell[u].pfd[y]
        OBVIOUS
      <3>3. a \in Pids /\ j \in Index /\ pipes[j].rpid = 0
        <4>1. y \in DOMAIN shell[u].pids
          BY <2>20, ShellFacts DEF PInv
        <4> QED
          BY <2>20, <3>1, <3>2, <4>1, ShellFacts DEF PInv, Wiring, WaitingOK
      <3>4. j # i
        BY <2>4, <3>3, SetupFacts DEF PInv, Types
      <3>5. Ring(pipes[j], a, 0) /\ proc[a].sent = pipes[j].count
        BY <2>20, <3>1, <3>2 DEF Flows, Stored
      <3>6. pipes'[j] = pipes[j] /\ proc'[a].sent = proc[a].sent
        BY <2>15, <2>17, <3>3, <3>4
      <3> QED
        BY <1>1, <3>1, <3>2, <3>5, <3>6 DEF Stored, Ring
    <2>21. \A u \in Shells : \A y : /\ Waiting(u, y)' => Waiting(u, y)
                                    /\ Started(u)' = Started(u)
      BY <1>1 DEF Waiting, Started
    <2> QED
      BY <1>1, <2>19, <2>20, <2>21 DEF Flows
  <1> QED
    BY <1>6, <1>7, <1>8

\* What Spawn makes of the pipes, the processes and the shell.
Spawned(s, p, n) ==
    /\ p \in Pids /\ shell[s].at = "spawn" /\ Made(s) = Stages - 1 /\ n \in 1..Stages
    /\ \A x \in Pids : x # p => proc'[x] = proc[x]
    /\ proc'[p].sent = 0 /\ proc'[p].got = <<>> /\ proc'[p].eof = FALSE /\ proc'[p].st = "user"
    /\ \A i \in Index : /\ pipes'[i].count = pipes[i].count /\ pipes'[i].tail = pipes[i].tail
                        /\ pipes'[i].buf = pipes[i].buf
    /\ \A u \in Shells : u # s => shell'[u] = shell[u]
    /\ shell'[s].pfd = shell[s].pfd
    /\ DOMAIN shell'[s].pids = 1..n /\ shell'[s].pids[n] = p
    /\ \A k \in 1..Started(s) : shell'[s].pids[k] = shell[s].pids[k]
    /\ Len(shell'[s].pids) = n

LEMMA SpawnFacts ==
    ASSUME PInv, NEW s \in Shells, Spawn(s), NEW p \in Nat, p = nextPid, NEW n \in Nat, n = Started(s) + 1
    PROVE  Spawned(s, p, n)
  <1>1. /\ shell[s] \in ShellType /\ shell[s].pids \in Seq(Pids) /\ shell \in [Shells -> ShellType]
        /\ Started(s) \in Nat /\ Stages \in Nat /\ Stages >= 2
        /\ pipes \in [Index -> PipeType] /\ proc \in [Pids -> ProcType]
    BY ShellFacts, SetupFacts DEF PInv, Types
  <1>2. PICK c : c = Child(s, n)
    OBVIOUS
  <1>3. /\ shell[s].at = "spawn" /\ p \in Pids /\ proc' = [proc EXCEPT ![p] = c]
        /\ Made(s) = Stages - 1 /\ Started(s) < Stages /\ n \in 1..Stages
    <2>1. shell[s].at = "spawn" /\ p \in Pids /\ proc' = [proc EXCEPT ![p] = c]
      BY <1>2 DEF Spawn
    <2>2. Made(s) = Stages - 1 /\ Started(s) < Stages
      BY <2>1 DEF PInv, Wiring, ShellsOK
    <2> QED
      BY <1>1, <2>1, <2>2
  <1>4. c.sent = 0 /\ c.got = <<>> /\ c.eof = FALSE /\ c.st = "user"
    BY <1>2 DEF Child, Nobody
  <1>5. \A x \in Pids : x # p => proc'[x] = proc[x]
    BY <1>1, <1>3
  <1>6. proc'[p] = c
    BY <1>1, <1>3
  <1>7. ASSUME NEW i \in Index
        PROVE  /\ pipes'[i].count = pipes[i].count /\ pipes'[i].tail = pipes[i].tail
               /\ pipes'[i].buf = pipes[i].buf
    <2>1. PICK a, b : pipes'[i] = [pipes[i] EXCEPT !.rpid = a, !.wpid = b]
      BY DEF Spawn
    <2>2. pipes[i] \in PipeType
      BY <1>1
    <2> QED
      BY <2>1, <2>2 DEF PipeType
  <1>8. PICK a : shell' = [shell EXCEPT ![s].pids = Append(@, p), ![s].at = a]
    BY DEF Spawn
  <1>9. \A u \in Shells : u # s => shell'[u] = shell[u]
    BY <1>1, <1>8
  <1>10. shell'[s].pfd = shell[s].pfd /\ shell'[s].pids = Append(shell[s].pids, p)
    BY <1>1, <1>8 DEF ShellType
  <1>11. /\ DOMAIN shell'[s].pids = 1..n /\ shell'[s].pids[n] = p /\ Len(shell'[s].pids) = n
         /\ \A k \in 1..Started(s) : shell'[s].pids[k] = shell[s].pids[k]
    BY <1>1, <1>3, <1>10 DEF Started
  <1> QED
    BY <1>3, <1>4, <1>5, <1>6, <1>7, <1>9, <1>10, <1>11 DEF Spawned

\* A new stage finds all its writer has sent in the pipe, and has itself sent nothing.
LEMMA SpawnFlows ==
    ASSUME OneFails, PInv, PInv', Flows, UNCHANGED setup, NEW s \in Shells, Spawn(s)
    PROVE  Flows'
  <1>1. PICK p \in Nat : p = nextPid
    BY SetupFacts DEF PInv, Types
  <1>2. PICK n \in Nat : n = Started(s) + 1
    BY ShellFacts DEF PInv
  <1>0. Spawned(s, p, n)
    BY <1>1, <1>2, SpawnFacts
  <1>3. /\ p \in Pids /\ shell[s].at = "spawn" /\ Made(s) = Stages - 1 /\ n \in 1..Stages
        /\ \A x \in Pids : x # p => proc'[x] = proc[x]
    BY <1>0 DEF Spawned
  <1>03. proc'[p].sent = 0 /\ proc'[p].got = <<>> /\ proc'[p].eof = FALSE /\ proc'[p].st = "user"
    BY <1>0 DEF Spawned
  <1>4. \A i \in Index : /\ pipes'[i].count = pipes[i].count /\ pipes'[i].tail = pipes[i].tail
                         /\ pipes'[i].buf = pipes[i].buf
    BY <1>0 DEF Spawned
  <1>5. \A u \in Shells : u # s => shell'[u] = shell[u]
    BY <1>0 DEF Spawned
  <1>6. /\ shell'[s].pfd = shell[s].pfd
        /\ DOMAIN shell'[s].pids = 1..n /\ shell'[s].pids[n] = p
        /\ Len(shell'[s].pids) = n
    BY <1>0 DEF Spawned
  <1>06. \A k \in 1..Started(s) : shell'[s].pids[k] = shell[s].pids[k]
    BY <1>0 DEF Spawned
  <1>7. /\ Shells' = Shells /\ Stages' = Stages /\ Pids' = Pids
        /\ Started(s) \in Nat /\ Stages \in Nat /\ Stages >= 2 /\ p \in Nat
        /\ DOMAIN shell[s].pfd = 1..Made(s) /\ DOMAIN shell[s].pids = 1..Started(s)
    BY <1>3, <1>03, TypesFixed, ShellFacts, SetupFacts DEF PInv, Types
  <1>8. \A i \in Index : \A w, g : Ring(pipes[i], w, g) => Ring(pipes'[i], w, g)
    BY <1>4 DEF Ring
  <1>9. \A u \in Shells : \A k \in DOMAIN shell[u].pids : shell[u].pids[k] \in Pids /\ shell[u].pids[k] # p
    <2>1. \A u \in Shells : \A k \in DOMAIN shell[u].pids : shell[u].pids[k] \in Pids /\ shell[u].pids[k] < p
      BY <1>1, ShellFacts DEF PInv, Wiring, PidsOK
    <2> QED
      BY <1>7, <2>1, SetupFacts DEF PInv, Types
  <1>10. \A u \in Shells : Intact(u)
    <2>1. Intact(s)
      BY <1>3, <1>03 DEF Intact
    <2> QED
      BY <2>1, OnlyShell DEF PInv, Wiring
  \* A stage that was there.
  <1>11. ASSUME NEW u \in Shells, NEW m \in DOMAIN shell[u].pids, m > 1,
                shell'[u].pids[m] = shell[u].pids[m], shell'[u].pids[m - 1] = shell[u].pids[m - 1],
                shell'[u].pfd = shell[u].pfd
         PROVE  Flow(u, m)'
    <2>1. PICK a : a = shell[u].pids[m - 1]
      OBVIOUS
    <2>2. PICK z : z = shell[u].pids[m]
      OBVIOUS
    <2>3. PICK j : j = shell[u].pfd[m - 1]
      OBVIOUS
    <2>4. m - 1 \in DOMAIN shell[u].pids /\ j \in Index
      BY <1>10, <1>11, <2>3, LiveSeat
    <2>5. proc'[a] = proc[a] /\ proc'[z] = proc[z] /\ a \in Pids /\ z \in Pids
      BY <1>3, <1>03, <1>9, <1>11, <2>1, <2>2, <2>4
    <2>6. /\ proc[z].got = [x \in 1..Len(proc[z].got) |-> <<a, x>>]
          /\ Len(proc[z].got) <= proc[a].sent
          /\ proc[z].eof => proc[a].st = "dead" /\ Len(proc[z].got) = proc[a].sent
          /\ Live(proc, z) => /\ Ring(pipes[j], a, Len(proc[z].got))
                              /\ proc[a].sent = Len(proc[z].got) + pipes[j].count
      <3>1. Flow(u, m)
        BY <1>10, <1>11 DEF Flows
      <3> QED
        BY <2>1, <2>2, <2>3, <3>1 DEF Flow
    <2>7. Live(proc, z)' => Live(proc, z)
      BY <1>7, <2>5 DEF Live
    <2>8. Live(proc, z)' => /\ Ring(pipes'[j], a, Len(proc'[z].got))
                            /\ proc'[a].sent = Len(proc'[z].got) + pipes'[j].count
      BY <1>4, <1>8, <2>4, <2>5, <2>6, <2>7
    <2>9. /\ proc'[z].got = [x \in 1..Len(proc'[z].got) |-> <<a, x>>]
          /\ Len(proc'[z].got) <= proc'[a].sent
          /\ proc'[z].eof => proc'[a].st = "dead" /\ Len(proc'[z].got) = proc'[a].sent
      BY <2>5, <2>6
    <2>10. shell'[u].pids[m] = z /\ shell'[u].pids[m - 1] = a /\ shell'[u].pfd[m - 1] = j
      BY <1>11, <2>1, <2>2, <2>3
    <2> QED
      BY <2>8, <2>9, <2>10 DEF Flow, Ring
  \* The new one.
  <1>12. ASSUME n > 1
         PROVE  Flow(s, n)'
    <2>1. PICK j : j = shell[s].pfd[n - 1]
      OBVIOUS
    <2>2. PICK a : a = shell[s].pids[n - 1]
      OBVIOUS
    <2>3. n - 1 = Started(s) /\ n - 1 \in 1..Started(s) /\ n - 1 \in 1..Made(s)
      BY <1>2, <1>3, <1>03, <1>7, <1>12
    <2>4. Waiting(s, n - 1) /\ j \in Index
      BY <1>3, <1>03, <1>7, <2>1, <2>3, ShellFacts DEF Waiting, PInv
    <2>5. Ring(pipes[j], a, 0) /\ proc[a].sent = pipes[j].count
      BY <1>7, <2>1, <2>2, <2>3, <2>4 DEF Flows, Stored
    <2>6. a \in Pids /\ proc'[a] = proc[a]
      BY <1>3, <1>03, <1>7, <1>9, <2>2, <2>3
    <2>7. /\ shell'[s].pids[n] = p /\ shell'[s].pids[n - 1] = a /\ shell'[s].pfd[n - 1] = j
      BY <1>6, <1>06, <2>1, <2>2, <2>3
    <2>8. Ring(pipes'[j], a, 0) /\ proc'[a].sent = pipes'[j].count /\ pipes'[j].count \in Nat
      <3>1. pipes[j].count \in 0..Cap
        BY <2>4 DEF PInv, Types, PipeType
      <3> QED
        BY <1>4, <1>8, <2>4, <2>5, <2>6, <3>1
    <2>9. PICK g : g = proc'[p].got
      OBVIOUS
    <2>10. g = [x \in 1..Len(g) |-> <<a, x>>] /\ Len(g) = 0
      <3>1. g = <<>>
        BY <1>3, <1>03, <2>9
      <3>2. Len(<<>>) = 0 /\ 1..0 = {}
        OBVIOUS
      <3> QED
        BY <3>1, <3>2
    <2>11. /\ Len(g) <= proc'[a].sent
           /\ ~proc'[p].eof
           /\ Ring(pipes'[j], a, Len(g)) /\ proc'[a].sent = Len(g) + pipes'[j].count
      BY <1>3, <1>03, <2>8, <2>10
    <2> QED
      BY <2>7, <2>9, <2>10, <2>11, ZenonT(60) DEF Flow, Ring
  <1>13. ASSUME NEW u \in Shells, NEW m \in DOMAIN shell'[u].pids, m > 1
         PROVE  Flow(u, m)'
    <2>1. CASE u # s
      BY <1>5, <1>11, <1>13, <2>1
    <2>2. CASE u = s /\ m = n
      BY <1>12, <1>13, <2>2
    <2>3. CASE u = s /\ m # n
      <3>1. m \in 1..Started(s) /\ m - 1 \in 1..Started(s)
        BY <1>2, <1>3, <1>03, <1>6, <1>06, <1>7, <1>13, <2>3
      <3> QED
        BY <1>6, <1>06, <1>7, <1>11, <1>13, <2>3, <3>1
    <2> QED
      BY <2>1, <2>2, <2>3
  <1>14. ASSUME NEW u \in Shells, NEW k \in DOMAIN shell'[u].pfd, Waiting(u, k)', k = Started(u)'
         PROVE  Stored(u, k)'
    <2>1. PICK j : j = shell[u].pfd[k]
      OBVIOUS
    <2>2. CASE u # s
      <3>1. shell'[u] = shell[u]
        BY <1>5, <2>2
      <3>2. Waiting(u, k) /\ k = Started(u) /\ k \in DOMAIN shell[u].pfd
        BY <1>14, <3>1 DEF Waiting, Started
      <3>3. k \in DOMAIN shell[u].pids /\ j \in Index
        <4>1. pipes[shell[u].pfd[k]].wpid = shell[u].pids[k]
          BY <3>2 DEF PInv, Wiring, WaitingOK
        <4>2. k \in 1..Made(u) /\ Started(u) \in Nat /\ Made(u) \in Nat
          BY <3>2, ShellFacts DEF PInv
        <4>3. k \in 1..Started(u)
          BY <3>2, <4>2
        <4> QED
          BY <2>1, <3>2, <4>3, ShellFacts DEF PInv
      <3>4. PICK a : a = shell[u].pids[k]
        OBVIOUS
      <3>5. a \in Pids /\ proc'[a] = proc[a]
        BY <1>3, <1>03, <1>9, <3>3, <3>4
      <3>6. Ring(pipes[j], a, 0) /\ proc[a].sent = pipes[j].count
        BY <2>1, <3>2, <3>4 DEF Flows, Stored
      <3>7. Ring(pipes'[j], a, 0) /\ proc'[a].sent = pipes'[j].count
        BY <1>4, <1>8, <3>3, <3>5, <3>6
      <3> QED
        BY <2>1, <3>1, <3>4, <3>7 DEF Stored, Ring
    <2>3. CASE u = s
      <3>1. k = n /\ k \in DOMAIN shell[s].pfd /\ k > Started(s)
        <4>1. k = n
          BY <1>6, <1>06, <1>14, <2>3 DEF Started
        <4>2. k \in DOMAIN shell[s].pfd
          BY <1>6, <1>06, <1>14, <2>3
        <4>3. n > Started(s)
          BY <1>2, <1>7
        <4> QED
          BY <4>1, <4>2, <4>3
      <3>2. Waiting(s, k) /\ j \in Index
        BY <1>3, <1>03, <1>7, <2>1, <2>3, <3>1, ShellFacts DEF Waiting, PInv
      <3>3. pipes[j].count = 0
        BY <2>1, <2>3, <3>1, <3>2 DEF PInv, Wiring, WaitingOK
      <3>4. pipes'[j].count = 0 /\ proc'[p].sent = 0
        BY <1>3, <1>03, <1>4, <3>2, <3>3
      <3>5. Ring(pipes'[j], p, 0)
        BY <3>4 DEF Ring
      <3>6. shell'[s].pfd[k] = j /\ shell'[s].pids[k] = p
        BY <1>6, <1>06, <2>1, <2>3, <3>1
      <3> QED
        BY <2>3, <3>4, <3>5, <3>6 DEF Stored, Ring
    <2> QED
      BY <2>2, <2>3
  <1> QED
    BY <1>7, <1>13, <1>14 DEF Flows


LEMMA InitFlows == Init => Flows
  <1> SUFFICES ASSUME Init PROVE Flows
    OBVIOUS
  <1>1. \A s \in Shells : shell[s].pids = <<>> /\ shell[s].pfd = <<>>
    BY DEF Init, Idle
  <1> QED
    BY <1>1 DEF Flows

LEMMA ProcFlows ==
    ASSUME OneFails, PInv, PInv', Flows, UNCHANGED setup, NEW p \in Pids, ProcStep(p)
    PROVE  Flows'
  <1>1. proc[p] \in ProcType /\ InCall(proc[p]) /\ MaxLen \in Nat
    BY SetupFacts DEF PInv, Types
  <1>2. ASSUME NEW n \in 1..MaxLen, Write(p, n) PROVE Flows'
    <2>1. Live(proc, p) /\ proc[p].out # None /\ proc[p].sent + n <= MaxBytes /\ WriteOn(p, n)
      BY <1>2 DEF Write, Live
    <2>2. n \in 0..MaxLen
      BY <1>1
    <2> QED
      BY <2>1, <2>2, WriteFlows
  <1>3. ASSUME NEW n \in 1..MaxLen, Read(p, n) PROVE Flows'
    <2>1. Live(proc, p) /\ proc[p].in # None /\ ReadOn(p, n)
      BY <1>3 DEF Read, Live
    <2>2. n \in 0..MaxLen
      BY <1>1
    <2> QED
      BY <2>1, <2>2, ReadFlows
  <1>4. ASSUME WriteAgain(p) PROVE Flows'
    <2>1. PICK n : n = proc[p].left
      OBVIOUS
    <2>2. Live(proc, p) /\ proc[p].call = "write" /\ WriteOn(p, n)
      BY <1>4, <2>1 DEF WriteAgain, Live
    <2>3. proc[p].out # None /\ proc[p].sent + n <= MaxBytes /\ n \in 0..MaxLen
      BY <1>1, <2>1, <2>2 DEF InCall, ProcType
    <2> QED
      BY <2>2, <2>3, WriteFlows
  <1>5. ASSUME ReadAgain(p) PROVE Flows'
    <2>1. PICK n : n = proc[p].left
      OBVIOUS
    <2>2. Live(proc, p) /\ proc[p].call = "read" /\ ReadOn(p, n)
      BY <1>5, <2>1 DEF ReadAgain, Live
    <2>3. proc[p].in # None /\ n \in 0..MaxLen
      BY <1>1, <2>1, <2>2 DEF InCall, ProcType
    <2> QED
      BY <2>2, <2>3, ReadFlows
  <1> QED
    BY <1>2, <1>3, <1>4, <1>5, ExitFlows DEF ProcStep

LEMMA NextFlows ==
    ASSUME OneFails, PInv, PInv', Flows, [Next]_<<setup, vars>>
    PROVE  Flows'
  <1>1. CASE UNCHANGED <<setup, vars>>
    <2>1. UNCHANGED <<setup, nextPid, pipes, shell, proc>>
      BY <1>1 DEF vars
    <2> QED
      BY <2>1, KeepFlows
  <1>2. CASE Next
    <2>1. UNCHANGED setup
      BY <1>2 DEF Next
    <2>2. ASSUME NEW s \in Shells, ShellStep(s) PROVE Flows'
      BY <2>1, <2>2, ShellFlows, SpawnFlows DEF ShellStep
    <2>3. ASSUME NEW p \in Pids, ProcStep(p) PROVE Flows'
      BY <2>1, <2>3, ProcFlows
    <2> QED
      BY <1>2, <2>2, <2>3 DEF Next
  <1> QED
    BY <1>1, <1>2

LEMMA TypesTypeOK ==
    ASSUME Types
    PROVE  TypeOK
  <1>1. ASSUME NEW i \in Index
        PROVE  /\ {pipes[i].inUse, pipes[i].wopen, pipes[i].ropen} \subseteq BOOLEAN
               /\ {pipes[i].wpid, pipes[i].rpid} \subseteq 0..MaxPid
               /\ {pipes[i].head, pipes[i].tail} \subseteq 0..(Cap - 1)
               /\ pipes[i].count \in 0..Cap
               /\ ((pipes[i].head - pipes[i].tail) % Cap) = pipes[i].count % Cap
               /\ pipes[i].buf \in [0..(Cap - 1) -> Bytes]
    <2>1. pipes[i] \in PipeType /\ Balanced(pipes[i])
      BY DEF Types
    <2>2. ((pipes[i].head - pipes[i].tail) % Cap) = pipes[i].count % Cap
      BY <2>1 DEF Balanced
    <2> QED
      BY <2>1, <2>2 DEF PipeType
  <1>2. ASSUME NEW p \in Pids
        PROVE  /\ proc[p].st \in {"none", "user", "blocked", "woken", "dead"}
               /\ {proc[p].in, proc[p].out} \subseteq Index \cup {None}
               /\ proc[p].sent \in 0..MaxBytes /\ proc[p].left \in 0..MaxLen
               /\ (proc[p].st \in {"blocked", "woken"}) = (proc[p].call \in {"read", "write"})
    <2>1. proc[p] \in ProcType /\ InCall(proc[p])
      BY DEF Types
    <2>2. (proc[p].st \in {"blocked", "woken"}) <=> (proc[p].call \in {"read", "write"})
      BY <2>1 DEF ProcType, InCall
    <2> QED
      BY <2>1, <2>2 DEF ProcType
  <1>3. nextPid \in 1..(MaxPid + 1)
    BY DEF Types
  <1> QED
    BY <1>1, <1>2, <1>3, Zenon DEF TypeOK

LEMMA FlowsCarry ==
    ASSUME OneFails, PInv, Flows
    PROVE  Carried
  <1>1. ASSUME NEW wr \in Neighbours
        PROVE  /\ proc[wr[2]].got = [x \in 1..Len(proc[wr[2]].got) |-> <<wr[1], x>>]
               /\ Len(proc[wr[2]].got) <= proc[wr[1]].sent
               /\ proc[wr[2]].eof => proc[wr[1]].st = "dead" /\ Len(proc[wr[2]].got) = proc[wr[1]].sent
    <2>1. PICK s \in Shells, n \in 2..Stages :
            Started(s) = Stages /\ wr = <<shell[s].pids[n - 1], shell[s].pids[n]>>
      BY <1>1 DEF Neighbours
    <2>2. PICK w : w = shell[s].pids[n - 1]
      OBVIOUS
    <2>3. PICK r : r = shell[s].pids[n]
      OBVIOUS
    <2>4. wr[1] = w /\ wr[2] = r
      BY <2>1, <2>2, <2>3
    <2>5. Stages \in Nat /\ DOMAIN shell[s].pids = 1..Started(s)
      BY SetupFacts, ShellFacts DEF PInv, Types
    <2>6. n \in DOMAIN shell[s].pids /\ n > 1
      BY <2>1, <2>5
    <2>7. Intact(s)
      BY <2>1, <2>5 DEF PInv, Wiring, ShellsOK
    <2>8. Flow(s, n)
      BY <2>6, <2>7 DEF Flows
    <2> QED
      BY <2>2, <2>3, <2>4, <2>8 DEF Flow
  <1>2. EndToEnd
    BY <1>1, Zenon DEF EndToEnd
  <1>3. TypeOK
    BY TypesTypeOK DEF PInv
  <1> QED
    BY <1>2, <1>3 DEF Carried

\* What a stage of a pipeline reads is what the stage before it wrote, from the
\* first byte and in order, and all of it when it is told that this is the end;
\* for any ring, any number of stages and shells and any sizes of the reads and
\* the writes (pipe_write, pipe_read, stream_release).
THEOREM PipeCarried ==
    ASSUME OneFails
    PROVE  Spec => []Carried
  <1>1. Init => PInv /\ Flows
    BY InitPInv, InitFlows
  <1>2. PInv /\ Flows /\ [Next]_<<setup, vars>> => PInv' /\ Flows'
    BY NextPInv, NextFlows
  <1>3. PInv /\ Flows => Carried
    BY FlowsCarry
  <1> QED
    BY <1>1, <1>2, <1>3, PTL DEF Spec

=============================================================================
