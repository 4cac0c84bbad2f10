------------------------------ MODULE Process ------------------------------
(***************************************************************************)
(* Processes, threads and the scheduler (kernel/kernel/process.c) on the   *)
(* cores of one machine.  Kernel code runs under the big kernel lock (Bkl),*)
(* so what a core does between taking the lock and leaving it is one step; *)
(* the lock changes hands only where a core returns to ring 3 or sleeps in *)
(* its loop.  A core that holds it is "kernel" (inside a system call that  *)
(* blocked and was resumed), "exiting" (a dead process still on its own    *)
(* kernel stack) or "loop" (the core's own stack); without it the core is  *)
(* in "user" mode or "idle".                                               *)
(*                                                                         *)
(* Signals are reduced to the one that ends a process and to the stopped   *)
(* flag; module Signal has the rest.  An address space is named by the pid *)
(* it was made for.                                                        *)
(***************************************************************************)
EXTENDS Integers, FiniteSets, FiniteSetsExt

CONSTANTS
    Cores, Bsp, None,
    Setups      \* the machines and programs of this instance, see Setup

AllCalls == {"spawn", "exit", "wait", "kill", "stop", "cont", "thread", "join", "sleep", "yield", "key", "pane"}

\* A machine and its programs: MAX_PROCESSES, bounds on next_pid and on the
\* ticks of one sleep, and the system calls the programs make.
Setup == [procs : Nat \ {0}, pids : Nat \ {0}, sleep : Nat, calls : SUBSET AllCalls]

ASSUME ProcessAssumption ==
    /\ Bsp \in Cores /\ None \notin Cores /\ IsFiniteSet(Cores)
    /\ Setups \subseteq Setup
    /\ None \notin Int

KernelSpace == 0        \* kernel_space, and "no address space"

VARIABLES
    setup,      \* the one of Setups this is; it does not change
    proc,       \* proc_table
    refs,       \* the holders of each address space; 0: freed
    current,    \* current[c]: the slot of the process on core c, or None
    on,         \* on[c]: whose kernel stack core c stands on; None: its own
    cr3,        \* the address space loaded on each core
    mode,       \* where each core is
    rrLast,     \* rr_last
    nextPid

vars == <<proc, refs, current, on, cr3, mode, rrLast, nextPid>>
cpus == <<current, on, cr3, mode>>

MaxProcs == setup.procs
MaxPid == setup.pids
MaxSleep == setup.sleep
Calls == setup.calls
Slots == 0..(MaxProcs - 1)
\* The slots there may be where the programs make call k.
SlotsWith(k) == 0..(Max({0} \cup {u.procs : u \in {v \in Setups : k \in v.calls}}) - 1)
Pids == 1..MaxPid

Unused == [state |-> "unused", pid |-> 0, parent |-> 0, thread |-> FALSE,
           as |-> KernelSpace, reason |-> "none", waitingFor |-> 0, left |-> 0,
           resumeKernel |-> FALSE, stopped |-> FALSE, killed |-> FALSE]

Live(p) == proc[p].state \notin {"unused", "zombie"}
Used(p) == proc[p].state # "unused"

\* Kernel code runs on one core at a time: module Bkl.
HasLock(c) == mode[c] \in {"kernel", "exiting", "loop"}
LockFree == \A c \in Cores : ~HasLock(c)

\* The core is in ring 3 and enters the kernel to make call k.
Makes(c, k) == mode[c] = "user" /\ LockFree /\ k \in Calls /\ ~proc[current[c]].killed

\* A core inside the resumed system call that waited for r.
Resumed(c, r) == mode[c] = "kernel" /\ proc[current[c]].reason = r

FreeSlots(t) == {p \in Slots : t[p].state = "unused"}
FreeSlot(t) == CHOOSE p \in FreeSlots(t) : \A q \in FreeSlots(t) : p <= q

----------------------------------------------------------------------------
(* The scheduler.                                                          *)

\* What pick_next may take.
Ready(t) == {p \in Slots : t[p].state = "ready" /\ ~t[p].stopped}

\* Mutant: pick_next looks from slot 0 whoever ran last.
PickFirst(t, start) ==
    IF Ready(t) = {} THEN None
    ELSE CHOOSE p \in Ready(t) : \A q \in Ready(t) : p <= q

\* pick_next: the first of them round the table from slot `start`.
PickFrom(t, start) ==
    LET dist(p) == (p - start) % MaxProcs
    IN  IF Ready(t) = {} THEN None
        ELSE CHOOSE p \in Ready(t) : \A q \in Ready(t) : dist(p) <= dist(q)

\* activate and resume_process on the table t: p is on core c, in ring 3 or
\* inside the call it blocked in.
Resume(c, p, t) ==
    /\ proc' = [t EXCEPT ![p].state = "running"]
    /\ current' = [current EXCEPT ![c] = p]
    /\ on' = [on EXCEPT ![c] = p]
    /\ cr3' = [cr3 EXCEPT ![c] = t[p].as]
    /\ mode' = [mode EXCEPT ![c] = IF t[p].resumeKernel THEN "kernel" ELSE "user"]
    /\ rrLast' = p

\* Mutant: the core sleeps where it is, on the stack of the process.
StandStill(c) ==
    /\ current' = [current EXCEPT ![c] = None]
    /\ mode' = [mode EXCEPT ![c] = "idle"]
    /\ UNCHANGED <<on, cr3, rrLast>>

\* kctx_restore(idle_ctx): the core goes to its own stack, keeping the lock.
\* Its page tables are still the old process's.
ToLoop(c) ==
    /\ current' = [current EXCEPT ![c] = None]
    /\ on' = [on EXCEPT ![c] = None]
    /\ mode' = [mode EXCEPT ![c] = "loop"]
    /\ UNCHANGED <<cr3, rrLast>>

\* The way a call that did not block ends: the core is in ring 3 again.
ToUser(c) ==
    /\ mode' = [mode EXCEPT ![c] = "user"]
    /\ UNCHANGED <<current, on, cr3, rrLast>>

\* Mutant: a core goes to sleep without leaving the last process's tables.
LazyIdle(c) ==
    /\ mode[c] = "loop"
    /\ Ready(proc) = {}
    /\ mode' = [mode EXCEPT ![c] = "idle"]
    /\ UNCHANGED <<proc, refs, current, on, cr3, rrLast, nextPid>>

\* cpu_loop with something to run.
LoopResume(c) ==
    /\ mode[c] = "loop"
    /\ Ready(proc) # {}
    /\ Resume(c, PickFrom(proc, rrLast + 1), proc)
    /\ UNCHANGED <<refs, nextPid>>

\* cpu_loop with nothing to run: out of the page tables, then hlt.
Idle(c) ==
    /\ mode[c] = "loop"
    /\ Ready(proc) = {}
    /\ cr3' = [cr3 EXCEPT ![c] = KernelSpace]
    /\ mode' = [mode EXCEPT ![c] = "idle"]
    /\ UNCHANGED <<proc, refs, current, on, rrLast, nextPid>>

\* An interrupt ends the hlt and the core takes the lock again.
Wake(c) ==
    /\ mode[c] = "idle"
    /\ LockFree
    /\ mode' = [mode EXCEPT ![c] = "loop"]
    /\ UNCHANGED <<proc, refs, current, on, cr3, rrLast, nextPid>>

\* block_current, on the table t in which the caller is already BLOCKED.
BlockIn(c, t) ==
    /\ proc' = [t EXCEPT ![current[c]].resumeKernel = TRUE]
    /\ ToLoop(c)

\* sched_on_tick in ring 3, past the signal check.  A tick that leaves the
\* process where it is changes nothing here.
Tick(c) ==
    LET p == current[c]
        down == [proc EXCEPT ![p].state = "ready", ![p].resumeKernel = FALSE]
        next == PickFrom(proc, p + 1)
    IN  /\ mode[c] = "user"
        /\ LockFree
        /\ ~proc[p].killed
        /\ \/ /\ c = Bsp                              \* wm_wants_frame
              /\ proc' = down /\ ToLoop(c)
           \/ /\ proc[p].stopped /\ next = None       \* parked
              /\ proc' = down /\ ToLoop(c)
           \/ /\ next # None                          \* rotate
              /\ Resume(c, next, down)
        /\ UNCHANGED <<refs, nextPid>>

\* process_yield: nothing happens unless something else could run.
Yield(c) ==
    /\ Makes(c, "yield")
    /\ PickFrom(proc, current[c] + 1) # None
    /\ proc' = [proc EXCEPT ![current[c]].state = "ready", ![current[c]].resumeKernel = TRUE]
    /\ ToLoop(c)
    /\ UNCHANGED <<refs, nextPid>>

\* The rest of a call that only gave way, and of one that waited for a key or
\* for the clock.
Return(c) ==
    /\ \/ Resumed(c, "none")
       \/ (Resumed(c, "time") \/ Resumed(c, "key")) /\ ~proc[current[c]].killed
    /\ proc' = [proc EXCEPT ![current[c]].reason = "none", ![current[c]].left = 0]
    /\ ToUser(c)
    /\ UNCHANGED <<refs, nextPid>>

----------------------------------------------------------------------------
(* Starting.                                                               *)

\* proc_alloc, vmm_space_new and the rest of process_spawn_image, by a process
\* or (parent 0) by the window manager.  A spawn that fails half way gives
\* everything back but its pid: proc_abandon.
SpawnAs(parent, ok) ==
    /\ FreeSlots(proc) # {}
    /\ nextPid \in Pids
    /\ nextPid' = nextPid + 1
    /\ IF ok
       THEN /\ proc' = [proc EXCEPT ![FreeSlot(proc)] =
                 [Unused EXCEPT !.state = "ready", !.pid = nextPid,
                                !.parent = parent, !.as = nextPid]]
            /\ refs' = [refs EXCEPT ![nextPid] = 1]
       ELSE UNCHANGED <<proc, refs>>

Spawn(c, ok) ==
    /\ Makes(c, "spawn")
    /\ SpawnAs(proc[current[c]].pid, ok)
    /\ UNCHANGED <<current, on, cr3, mode, rrLast>>

\* wm_poll starts a pane's shell: process_spawn, process_make_session_root.
WmSpawn(c) ==
    /\ c = Bsp
    /\ mode[c] = "loop"
    /\ "pane" \in Calls
    /\ SpawnAs(0, TRUE)
    /\ UNCHANGED <<current, on, cr3, mode, rrLast>>

\* reap_dead_threads, called by the process in slot me.
DeadThreads(me) == {p \in Slots : p # me /\ proc[p].thread /\ proc[p].state = "zombie"}
ReapThreads(me) == [p \in Slots |-> IF p \in DeadThreads(me) THEN Unused ELSE proc[p]]
RefsReaped(me) == [a \in Pids |-> refs[a] - Cardinality({p \in DeadThreads(me) : proc[p].as = a})]

\* process_thread_create; !ok: no kernel stack or no room for the user stack.
ThreadCreate(c, ok) ==
    LET me == current[c]
        t == ReapThreads(me)
    IN  /\ Makes(c, "thread")
        /\ FreeSlots(t) # {}
        /\ nextPid \in Pids
        /\ nextPid' = nextPid + 1
        /\ IF ok
           THEN /\ proc' = [t EXCEPT ![FreeSlot(t)] =
                     [Unused EXCEPT !.state = "ready", !.pid = nextPid,
                                    !.thread = TRUE, !.as = t[me].as]]
                /\ refs' = [RefsReaped(me) EXCEPT ![t[me].as] = @ + 1]
           ELSE proc' = t /\ refs' = RefsReaped(me)
        /\ UNCHANGED <<current, on, cr3, mode, rrLast>>

----------------------------------------------------------------------------
(* Ending.                                                                 *)

\* Mutant: wake_joiners_of compares the slot, not the pid.
SlotWoken(t, p, q) ==
    /\ t[q].state = "blocked"
    /\ IF t[p].thread
       THEN t[q].reason = "thread" /\ t[q].waitingFor = p
       ELSE t[p].parent # 0 /\ t[q].pid = t[p].parent /\ t[q].waitingFor \in {-1, t[p].pid}

\* wake_joiners_of, for a thread, and wake_parent_of, for a process: does the
\* end of slot p make slot q ready?  The second does not look at what the
\* parent is waiting for, only at whom it last waited for.
WokenBy(t, p, q) ==
    /\ t[q].state = "blocked"
    /\ IF t[p].thread
       THEN t[q].reason = "thread" /\ t[q].waitingFor = t[p].pid
       ELSE t[p].parent # 0 /\ t[q].pid = t[p].parent /\ t[q].waitingFor \in {-1, t[p].pid}

\* Does the end of slot p give up its share of the address space?  A thread's
\* share goes when it is reaped.
GivesUpSpace(p, t) == ~t[p].thread

\* process_notify_exit, up to the jump into the loop: a zombie out of its page
\* tables, which go with their last holder.  A thread keeps its share until
\* it is reaped; a process nobody will wait for is reaped here.
NotifyExit(c) ==
    LET me == current[c]
        t == ReapThreads(me)
        dead == [t[me] EXCEPT !.state = "zombie", !.reason = "none",
                              !.as = IF t[me].thread THEN @ ELSE KernelSpace]
        gone == t[me].parent = 0 /\ ~t[me].thread
    IN  /\ proc' = [q \in Slots |->
                      IF q = me THEN IF gone THEN Unused ELSE dead
                      ELSE IF WokenBy(t, me, q) THEN [t[q] EXCEPT !.state = "ready"]
                      ELSE t[q]]
        /\ refs' = IF GivesUpSpace(me, t) THEN [RefsReaped(me) EXCEPT ![t[me].as] = @ - 1]
                   ELSE RefsReaped(me)
        /\ current' = [current EXCEPT ![c] = None]
        /\ cr3' = [cr3 EXCEPT ![c] = KernelSpace]
        /\ mode' = [mode EXCEPT ![c] = "exiting"]
        /\ UNCHANGED <<on, rrLast, nextPid>>

\* SYS_EXIT, process_thread_exit, and a fault that ends the program.
Exit(c) == Makes(c, "exit") /\ NotifyExit(c)

\* signal_check finds the end: at a system call's entry or at a tick in ring 3
\* and when a blocked call is resumed.  process_yield does not look.
Die(c) ==
    /\ \/ mode[c] = "user" /\ LockFree
       \/ mode[c] = "kernel" /\ proc[current[c]].reason # "none"
    /\ proc[current[c]].killed
    /\ NotifyExit(c)

\* kctx_restore(idle_ctx) at the end of process_notify_exit.
LeaveDead(c) ==
    /\ mode[c] = "exiting"
    /\ ToLoop(c)
    /\ UNCHANGED <<proc, refs, nextPid>>

\* Mutant: the signal is noted and a blocked process left asleep.
QuietKill(c, pid) ==
    /\ Makes(c, "kill")
    /\ \E p \in Slots :
         /\ proc[p].pid = pid /\ Live(p)
         /\ proc' = [proc EXCEPT ![p].killed = TRUE]
    /\ UNCHANGED <<refs, current, on, cr3, mode, rrLast, nextPid>>

\* process_kill, signal_send, signal_post(SIGKILL): noted, and woken.
Kill(c, pid) ==
    /\ Makes(c, "kill")
    /\ \E p \in Slots :
         /\ proc[p].pid = pid /\ Live(p)
         /\ proc' = [proc EXCEPT ![p].killed = TRUE,
                       ![p].state = IF @ = "blocked" THEN "ready" ELSE @]
    /\ UNCHANGED <<refs, current, on, cr3, mode, rrLast, nextPid>>

\* process_suspend: not oneself.
Suspend(c, pid) ==
    /\ Makes(c, "stop")
    /\ \E p \in Slots :
         /\ proc[p].pid = pid /\ Live(p) /\ p # current[c]
         /\ proc' = [proc EXCEPT ![p].stopped = TRUE]
    /\ UNCHANGED <<refs, current, on, cr3, mode, rrLast, nextPid>>

\* process_resume
Continue(c, pid) ==
    /\ Makes(c, "cont")
    /\ \E p \in Slots :
         /\ proc[p].pid = pid /\ Used(p)
         /\ proc' = [proc EXCEPT ![p].stopped = FALSE]
    /\ UNCHANGED <<refs, current, on, cr3, mode, rrLast, nextPid>>

----------------------------------------------------------------------------
(* Waiting.                                                                *)

Matches(me, pid, p) == Used(p) /\ proc[p].parent = proc[me].pid /\ pid \in {-1, proc[p].pid}

\* process_wait(pid), once round its loop: the first zombie in table order is
\* reaped, a live child is waited for, and with neither the call fails.
WaitRound(c, pid) ==
    LET me == current[c]
        dead == {p \in Slots : Matches(me, pid, p) /\ proc[p].state = "zombie"}
        live == {p \in Slots : Matches(me, pid, p) /\ Live(p)}
        awake == [proc EXCEPT ![me].reason = "none"]
    IN  /\ \/ /\ dead # {}
              /\ proc' = [awake EXCEPT ![CHOOSE p \in dead : \A q \in dead : p <= q] = Unused]
              /\ ToUser(c)
           \/ /\ dead = {} /\ live = {}
              /\ proc' = awake
              /\ ToUser(c)
           \/ /\ dead = {} /\ live # {}
              /\ BlockIn(c, [proc EXCEPT ![me].state = "blocked", ![me].reason = "child",
                                         ![me].waitingFor = pid])
        /\ UNCHANGED <<refs, nextPid>>

Wait(c, pid) == Makes(c, "wait") /\ WaitRound(c, pid)

WaitAgain(c) ==
    /\ Resumed(c, "child")
    /\ ~proc[current[c]].killed
    /\ WaitRound(c, proc[current[c]].waitingFor)

\* process_thread_join(tid), once round its loop.
JoinRound(c, tid) ==
    LET me == current[c]
        t == ReapThreads(me)
        awake == [t EXCEPT ![me].reason = "none"]
        found == {p \in Slots : t[p].state # "unused" /\ t[p].pid = tid}
        waits == \E p \in found : t[p].thread /\ p # me
    IN  /\ refs' = RefsReaped(me)
        /\ IF waits
           THEN BlockIn(c, [t EXCEPT ![me].state = "blocked", ![me].reason = "thread",
                                     ![me].waitingFor = tid])
           ELSE proc' = awake /\ ToUser(c)
        /\ UNCHANGED nextPid

Join(c, tid) == Makes(c, "join") /\ JoinRound(c, tid)

JoinAgain(c) ==
    /\ Resumed(c, "thread")
    /\ ~proc[current[c]].killed
    /\ JoinRound(c, proc[current[c]].waitingFor)

\* process_sleep_ms: `left` is wake_at less the clock, kept while it is read.
Sleep(c, n) ==
    /\ Makes(c, "sleep")
    /\ BlockIn(c, [proc EXCEPT ![current[c]].state = "blocked", ![current[c]].reason = "time",
                               ![current[c]].left = n])
    /\ UNCHANGED <<refs, nextPid>>

Sleeping(p) == proc[p].reason = "time"

\* pit_tick_fast moves the clock, without the lock; -1 stands for any time
\* after wake_at.
Clock ==
    /\ \E p \in Slots : Sleeping(p) /\ proc[p].left >= 0
    /\ proc' = [p \in Slots |->
                  IF Sleeping(p) /\ proc[p].left >= 0
                  THEN [proc[p] EXCEPT !.left = @ - 1] ELSE proc[p]]
    /\ UNCHANGED <<refs, current, on, cr3, mode, rrLast, nextPid>>

\* Mutant: process_tick compares with the exact tick.
Punctual(p) == proc[p].state = "blocked" /\ Sleeping(p) /\ proc[p].left = 0

\* What process_tick wakes.
Due(p) == proc[p].state = "blocked" /\ Sleeping(p) /\ proc[p].left <= 0

\* process_tick, in the bootstrap core's timer handler.  The handler needs the
\* lock, so the clock may have gone past the tick it was called for.
WakeSleepers ==
    /\ LockFree
    /\ \E p \in Slots : Due(p)
    /\ proc' = [p \in Slots |->
                  IF Due(p) THEN [proc[p] EXCEPT !.state = "ready"] ELSE proc[p]]
    /\ UNCHANGED <<refs, current, on, cr3, mode, rrLast, nextPid>>

\* process_block_on_key
KeyWait(c) ==
    /\ Makes(c, "key")
    /\ BlockIn(c, [proc EXCEPT ![current[c]].state = "blocked", ![current[c]].reason = "key"])
    /\ UNCHANGED <<refs, nextPid>>

\* process_wake_key, from the keyboard interrupt.
Key ==
    LET waiting == {p \in Slots : proc[p].state = "blocked" /\ proc[p].reason = "key"}
    IN  /\ LockFree
        /\ waiting # {}
        /\ proc' = [p \in Slots |->
                      IF p \in waiting THEN [proc[p] EXCEPT !.state = "ready"] ELSE proc[p]]
        /\ UNCHANGED <<refs, current, on, cr3, mode, rrLast, nextPid>>

----------------------------------------------------------------------------

\* process_run_all with the first shell ready, the other cores not in yet.
Init ==
    /\ setup \in Setups
    /\ proc = [p \in Slots |->
                 IF p = 0 THEN [Unused EXCEPT !.state = "ready", !.pid = 1, !.as = 1]
                 ELSE Unused]
    /\ refs = [a \in Pids |-> IF a = 1 THEN 1 ELSE 0]
    /\ current = [c \in Cores |-> None]
    /\ on = [c \in Cores |-> None]
    /\ cr3 = [c \in Cores |-> KernelSpace]
    /\ mode = [c \in Cores |-> IF c = Bsp THEN "loop" ELSE "idle"]
    /\ rrLast = MaxProcs - 1
    /\ nextPid = 2

Sched(c) == LoopResume(c) \/ Idle(c) \/ Wake(c) \/ Tick(c) \/ LeaveDead(c)
Continues(c) == Return(c) \/ WaitAgain(c) \/ JoinAgain(c) \/ Die(c)
Call(c) ==
    \/ Yield(c) \/ Exit(c) \/ WmSpawn(c) \/ KeyWait(c)
    \/ \E ok \in BOOLEAN : Spawn(c, ok) \/ ThreadCreate(c, ok)
    \/ \E pid \in Pids : Kill(c, pid) \/ Suspend(c, pid) \/ Continue(c, pid) \/ Join(c, pid)
    \/ \E pid \in Pids \cup {-1} : Wait(c, pid)
    \/ \E n \in 1..MaxSleep : Sleep(c, n)

Next ==
    /\ UNCHANGED setup
    /\ \/ \E c \in Cores : Sched(c) \/ Continues(c) \/ Call(c)
       \/ Clock \/ WakeSleepers \/ Key

Spec == Init /\ [][Next]_<<setup, vars>>

\* A core in the kernel goes on; the timer of every core keeps ticking; and a
\* core that keeps finding the lock free to take gets it in the end (an
\* assumption on the hardware: the lock has no queue).
FairSpec ==
    /\ Spec
    /\ \A c \in Cores :
         /\ WF_vars(LoopResume(c) \/ Idle(c) \/ LeaveDead(c) \/ Continues(c))
         /\ SF_vars(Wake(c))
         /\ SF_vars(Tick(c) \/ Die(c))
    /\ WF_vars(Clock)
    /\ SF_vars(WakeSleepers)

----------------------------------------------------------------------------
(* Properties.                                                             *)

Proc == [state : {"unused", "ready", "running", "blocked", "zombie"},
         pid : 0..MaxPid, parent : 0..MaxPid, thread : BOOLEAN, as : 0..MaxPid,
         reason : {"none", "child", "thread", "time", "key"},
         waitingFor : -1..MaxPid, left : -1..MaxSleep,
         resumeKernel : BOOLEAN, stopped : BOOLEAN, killed : BOOLEAN]

\* The state keeps its types: above all, the count of holders of an address
\* space (vmm_space_unref) never goes below zero.
TypeOK ==
    /\ proc \in [Slots -> Proc]
    /\ refs \in [Pids -> 0..MaxProcs]
    /\ current \in [Cores -> Slots \cup {None}]
    /\ on \in [Cores -> Slots \cup {None}]
    /\ cr3 \in [Cores -> 0..MaxPid]
    /\ mode \in [Cores -> {"user", "kernel", "exiting", "loop", "idle"}]
    /\ rrLast \in Slots
    /\ nextPid \in 1..(MaxPid + 1)

\* Two cores never pick the same process (pick_next): a process is RUNNING
\* exactly while one core has it as its current process.
RunningOnce ==
    /\ \A p \in Slots : proc[p].state = "running" <=> \E c \in Cores : current[c] = p
    /\ \A c, d \in Cores : c # d /\ current[c] # None => current[c] # current[d]

\* The kernel stack a core stands on is no other core's, and belongs to a
\* process that is RUNNING, or that has just ended here and whose slot nobody
\* has taken (block_current, process_notify_exit).
StackExclusive ==
    \A c \in Cores : on[c] # None =>
        /\ proc[on[c]].state \in (IF mode[c] = "exiting" THEN {"zombie", "unused"} ELSE {"running"})
        /\ \A d \in Cores : c # d => on[c] # on[d]

\* One core to a process and one process to a stack: what pick_next, the tick
\* and block_current keep between them.
Exclusive == TypeOK /\ RunningOnce /\ StackExclusive

\* The count of an address space is its holders in the process table, those
\* still to be reaped included: nothing is freed under a holder, and nothing
\* is left behind when the last one goes (reap_dead_threads).
RefsCount == \A a \in Pids : refs[a] = Cardinality({p \in Slots : Used(p) /\ proc[p].as = a})

\* An address space has a holder for every core that stands in it.  So page
\* tables are never freed under a core (cpu_loop, process_notify_exit), and a
\* space with one holder is loaded on one core at most, which is why
\* shootdown_if_shared may do without a shootdown there.
TablesHeld ==
    \A a \in Pids : Cardinality({c \in Cores : cr3[c] = a}) <= refs[a]

\* An address space lives exactly as long as somebody holds or stands in it.
SpacesHeld == RefsCount /\ TablesHeld

Child(p, q) == proc[q].reason = "child" /\ proc[p].parent = proc[q].pid
                 /\ proc[q].waitingFor \in {-1, proc[p].pid}
Joined(p, q) == proc[q].reason = "thread" /\ proc[p].thread /\ proc[p].pid = proc[q].waitingFor

\* Nobody sleeps through what it waits for: a process blocked in process_wait
\* has a live child it waits for and no dead one; a thread being joined by a
\* blocked one is alive.
NoLostWake ==
    \A q \in Slots : proc[q].state = "blocked" =>
        /\ proc[q].reason \in {"child", "thread"} =>
             \E p \in Slots : Live(p) /\ (Child(p, q) \/ Joined(p, q))
        /\ \A p \in Slots : proc[p].state = "zombie" => ~Child(p, q) /\ ~Joined(p, q)

\* Every process that could run gets a core (pick_next's round robin from two
\* starting points, sched_on_tick), unless it is suspended first.
NoStarvation ==
    \A p \in SlotsWith("yield") :
        (p \in Slots /\ proc[p].state = "ready" /\ ~proc[p].stopped)
            ~> (p \in Slots /\ (proc[p].state # "ready" \/ proc[p].stopped))

\* A sleep ends, however late the timer handler gets the lock (process_tick).
SleepEnds ==
    \A p \in SlotsWith("sleep") :
        (p \in Slots /\ proc[p].state = "blocked" /\ Sleeping(p))
            ~> (p \in Slots /\ proc[p].state # "blocked")

\* A killed process ends, whatever it was doing on whichever core (process_kill,
\* the safe points), unless it is suspended.
KilledDies ==
    \A p \in SlotsWith("kill") :
        (p \in Slots /\ Live(p) /\ proc[p].killed) ~> (p \in Slots /\ (~Live(p) \/ proc[p].stopped))
=============================================================================
