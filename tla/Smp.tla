-------------------------------- MODULE Smp --------------------------------
(***************************************************************************)
(* kernel/arch/x86_64/smp.c beside the kernel lock: the other cores are    *)
(* brought up one at a time, join the scheduler when it starts, and while  *)
(* they are idle take shares of the computation the holder of the lock     *)
(* hands out.  Nothing in the pool is under a lock: the owner's stores,    *)
(* the claims and the counts are steps of their own.                       *)
(*                                                                         *)
(* Core 0 is the bootstrap core; the others are numbered in the order of   *)
(* the firmware's table.  What a core does with the kernel lock, other     *)
(* than handing out a job, is left out; `owner` is the lock itself.        *)
(***************************************************************************)
EXTENDS Integers, FiniteSets

CONSTANTS
    NAps,       \* application processors the firmware lists
    MaxJobs,    \* bound: calls of smp_run
    Late        \* whether a core may start after smp_init gave it up

ASSUME SmpAssumption == /\ NAps \in Nat
                        /\ MaxJobs \in Nat
                        /\ Late \in BOOLEAN

Aps == 1..NAps
Cores == 0..NAps
Nobody == -1

VARIABLES
    pc,         \* pc[c]: where core c is
    owner,      \* the holder of the kernel lock, or Nobody
    boot,       \* smp_init: core being started, next block, online as it was
    tramp,      \* what the trampoline and ap_next hand the next core
    stack,      \* stack[c]: the stack core c was started on, by attempt
    block,      \* block[c]: the percpu block core c works with
    online,     \* smp.c: online
    ncpu,       \* smp.c: ncpu
    scheduling, \* smp.c: scheduling
    joined,     \* cores that left ap_entry for the scheduler
    halted,     \* smp.c: core_halted, by core
    wake,       \* an interrupt that ends hlt is pending at the core
    job,        \* smp.c: job_fn, job_arg, job_n, job_next, job_done, job_active
    mine,       \* mine[c]: the share c claimed, and the fn and arg it read
    calls,      \* calls of smp_run so far
    ran         \* ran[i]: times share i of the latest job was done

bootVars == <<boot, tramp, stack, block, online, ncpu>>
poolVars == <<job, mine, calls, ran>>
idleVars == <<scheduling, joined, halted, wake>>
vars == <<pc, owner, bootVars, idleVars, poolVars>>

NoShare == [share |-> 0, fn |-> 0, arg |-> 0]
Goto(c, l) == pc' = [pc EXCEPT ![c] = l]

----------------------------------------------------------------------------
(* smp_init, on the bootstrap core, and the way up of each of the others.  *)

\* The next core of the table: its stack and block are made, the trampoline
\* is patched, INIT and the two start-ups are sent.  A core may be dead.
BootNext ==
    /\ pc[0] = "boot"
    /\ boot.ap < NAps
    /\ boot' = [boot EXCEPT !.before = online]
    /\ tramp' = [stack |-> boot.ap + 1, block |-> boot.idx]
    /\ \E l \in {"tramp", "dead"} : pc' = [pc EXCEPT ![0] = "await", ![boot.ap + 1] = l]
    /\ UNCHANGED <<owner, stack, block, online, ncpu, idleVars, poolVars>>

\* No memory for the core's stack or descriptors: it is left off.
BootSkip ==
    /\ pc[0] = "boot"
    /\ boot.ap < NAps
    /\ boot' = [boot EXCEPT !.ap = @ + 1]
    /\ UNCHANGED <<pc, owner, tramp, stack, block, online, ncpu, idleVars, poolVars>>

\* The core reported in.
BootDone ==
    /\ pc[0] = "await"
    /\ online # boot.before
    /\ boot' = [boot EXCEPT !.ap = @ + 1, !.idx = @ + 1]
    /\ Goto(0, "boot")
    /\ UNCHANGED <<owner, tramp, stack, block, online, ncpu, idleVars, poolVars>>

\* It did not in the time it has: the next core gets the same block.
BootTimeout ==
    /\ pc[0] = "await"
    /\ online = boot.before
    /\ Late \/ pc[boot.ap + 1] = "dead"
    /\ boot' = [boot EXCEPT !.ap = @ + 1]
    /\ Goto(0, "boot")
    /\ UNCHANGED <<owner, tramp, stack, block, online, ncpu, idleVars, poolVars>>

BootEnd ==
    /\ pc[0] = "boot"
    /\ boot.ap = NAps
    /\ ncpu' = online
    /\ Goto(0, "kernel")
    /\ UNCHANGED <<owner, boot, tramp, stack, block, online, idleVars, poolVars>>

\* The trampoline loads the stack it finds patched in.
ApStack(c) ==
    /\ pc[c] = "tramp"
    /\ stack' = [stack EXCEPT ![c] = tramp.stack]
    /\ Goto(c, "entry")
    /\ UNCHANGED <<owner, boot, tramp, block, online, ncpu, idleVars, poolVars>>

\* ap_entry adopts ap_next as its block.
ApEntry(c) ==
    /\ pc[c] = "entry"
    /\ block' = [block EXCEPT ![c] = tramp.block]
    /\ Goto(c, "online")
    /\ UNCHANGED <<owner, boot, tramp, stack, online, ncpu, idleVars, poolVars>>

ApOnline(c) ==
    /\ pc[c] = "online"
    /\ online' = online + 1
    /\ Goto(c, "look")
    /\ UNCHANGED <<owner, boot, tramp, stack, block, ncpu, idleVars, poolVars>>

----------------------------------------------------------------------------
(* smp_start_scheduling, and the lock as the cores come and go.            *)

\* Mutant: only the cores that say they are asleep are woken.
LazyStart ==
    /\ pc[0] = "kernel" /\ ~scheduling
    /\ scheduling' = TRUE
    /\ wake' = [c \in Cores |-> wake[c] \/ (ncpu > 1 /\ c # 0 /\ halted[c])]
    /\ UNCHANGED <<pc, owner, bootVars, joined, halted, poolVars>>

StartScheduling ==
    /\ pc[0] = "kernel" /\ ~scheduling
    /\ scheduling' = TRUE
    /\ wake' = [c \in Cores |-> wake[c] \/ (ncpu > 1 /\ c # 0)]
    /\ UNCHANGED <<pc, owner, bootVars, joined, halted, poolVars>>

\* bkl_enter, from ring 3 or from process_ap_run.
Enter(c) ==
    /\ pc[c] = "user" /\ owner = Nobody
    /\ owner' = c
    /\ Goto(c, "kernel")
    /\ UNCHANGED <<bootVars, idleVars, poolVars>>

\* To a program; on the bootstrap core also to the hlt of its own loop, where
\* it takes no shares.
LetGo(c) ==
    /\ pc[c] = "kernel" /\ scheduling
    /\ owner' = Nobody
    /\ Goto(c, "user")
    /\ UNCHANGED <<bootVars, idleVars, poolVars>>

\* cpu_loop finds nothing to run on an application processor.
GoIdle(c) ==
    /\ pc[c] = "kernel" /\ c # 0
    /\ halted' = [halted EXCEPT ![c] = TRUE]
    /\ owner' = Nobody
    /\ Goto(c, "hlt")
    /\ UNCHANGED <<bootVars, scheduling, joined, wake, poolVars>>

\* The end of `sti; hlt`: a wake-up that is pending (Roused), or a tick, which
\* reaches the others once the scheduler runs (Ticked).
LeaveHlt(c) ==
    /\ pc[c] = "hlt"
    /\ wake' = [wake EXCEPT ![c] = FALSE]
    /\ Goto(c, "unhalt")
    /\ UNCHANGED <<owner, bootVars, scheduling, joined, halted, poolVars>>
Roused(c) == wake[c] /\ LeaveHlt(c)
Ticked(c) == scheduling /\ LeaveHlt(c)

Unhalt(c) ==
    /\ pc[c] = "unhalt"
    /\ halted' = [halted EXCEPT ![c] = FALSE]
    /\ Goto(c, "look")
    /\ UNCHANGED <<owner, bootVars, scheduling, joined, wake, poolVars>>

\* smp_idle_work
Look(c) ==
    /\ pc[c] = "look"
    /\ Goto(c, IF job.active THEN "claim" ELSE "after")
    /\ UNCHANGED <<owner, bootVars, idleVars, poolVars>>

\* After it: bkl_try_enter in cpu_loop, and if that fails the window, in
\* which a pending wake-up is taken and changes nothing.
TryEnter(c) ==
    /\ pc[c] = "after" /\ c \in joined
    /\ \/ /\ owner = Nobody
          /\ owner' = c
          /\ Goto(c, "kernel")
          /\ UNCHANGED wake
       \/ /\ owner # Nobody
          /\ wake' = [wake EXCEPT ![c] = FALSE]
          /\ Goto(c, "look")
          /\ UNCHANGED owner
    /\ UNCHANGED <<bootVars, scheduling, joined, halted, poolVars>>

\* After it in ap_entry: to the scheduler if it has started, else to sleep.
Join(c) ==
    /\ pc[c] = "after" /\ c \notin joined
    /\ \/ /\ scheduling
          /\ joined' = joined \cup {c}
          /\ Goto(c, "user")
       \/ /\ ~scheduling
          /\ Goto(c, "doze")
          /\ UNCHANGED joined
    /\ UNCHANGED <<owner, bootVars, scheduling, halted, wake, poolVars>>

Doze(c) ==
    /\ pc[c] = "doze"
    /\ halted' = [halted EXCEPT ![c] = TRUE]
    /\ Goto(c, "hlt")
    /\ UNCHANGED <<owner, bootVars, scheduling, joined, wake, poolVars>>

----------------------------------------------------------------------------
(* smp_run: the owner's stores in the order they are made, the wake-ups,   *)
(* its own shares, the wait for the others'.                               *)

Shares == 0..(ncpu - 1)

\* With one core the function is called directly.
RunAlone(c) ==
    /\ pc[c] = "kernel" /\ ncpu <= 1 /\ calls < MaxJobs
    /\ calls' = calls + 1
    /\ ran' = [i \in Shares |-> 1]
    /\ UNCHANGED <<pc, owner, bootVars, idleVars, job, mine>>

\* job_fn = fn
SmpRun(c) ==
    /\ pc[c] = "kernel" /\ ncpu > 1 /\ calls < MaxJobs
    /\ calls' = calls + 1
    /\ job' = [job EXCEPT !.fn = calls']
    /\ ran' = [i \in Shares |-> 0]
    /\ Goto(c, "arg")
    /\ UNCHANGED <<owner, bootVars, idleVars, mine>>

\* One store of the rest of the job's description.
Store(c, at, next, j) ==
    /\ pc[c] = at
    /\ job' = j
    /\ Goto(c, next)
    /\ UNCHANGED <<owner, bootVars, idleVars, mine, calls, ran>>

\* Mutant: the shares are opened before the job they belong to is described.
EarlySetUp(c) ==
    \/ Store(c, "arg", "n", [job EXCEPT !.next = 0])
    \/ Store(c, "n", "done", [job EXCEPT !.n = ncpu])
    \/ Store(c, "done", "next", [job EXCEPT !.done = 0])
    \/ Store(c, "next", "active", [job EXCEPT !.arg = calls])
    \/ Store(c, "active", "wake", [job EXCEPT !.active = TRUE])

SetUp(c) ==
    \/ Store(c, "arg", "n", [job EXCEPT !.arg = calls])
    \/ Store(c, "n", "done", [job EXCEPT !.n = ncpu])
    \/ Store(c, "done", "next", [job EXCEPT !.done = 0])
    \/ Store(c, "next", "active", [job EXCEPT !.next = 0])
    \/ Store(c, "active", "wake", [job EXCEPT !.active = TRUE])

\* SMP_WAKE_VECTOR to the cores that say they are asleep.
WakeHalted(c) ==
    /\ pc[c] = "wake"
    /\ wake' = [d \in Cores |-> wake[d] \/ (d # 0 /\ halted[d])]
    /\ Goto(c, "claim")
    /\ UNCHANGED <<owner, bootVars, scheduling, joined, halted, poolVars>>

\* job_next goes on counting as long as anybody looks; past the number of
\* shares its value makes no difference, so it stays at Spent.
Spent == NAps + 1
OneMore(n) == IF n < Spent THEN n + 1 ELSE Spent

\* run_shares: the claim
Claim(c) ==
    /\ pc[c] = "claim"
    /\ mine' = [mine EXCEPT ![c].share = job.next]
    /\ job' = [job EXCEPT !.next = OneMore(@)]
    /\ Goto(c, "cmp")
    /\ UNCHANGED <<owner, bootVars, idleVars, calls, ran>>

\* The end of run_shares: back to smp_run or to smp_idle_work's caller.
Compare(c) ==
    /\ pc[c] = "cmp"
    /\ \/ /\ mine[c].share < job.n
          /\ Goto(c, "fetch")
          /\ UNCHANGED mine
       \/ /\ mine[c].share >= job.n
          /\ mine' = [mine EXCEPT ![c] = NoShare]
          /\ Goto(c, IF c = owner THEN "wait" ELSE "after")
    /\ UNCHANGED <<owner, bootVars, idleVars, job, calls, ran>>

Fetch(c) ==
    /\ pc[c] = "fetch"
    /\ mine' = [mine EXCEPT ![c].fn = job.fn, ![c].arg = job.arg]
    /\ Goto(c, "run")
    /\ UNCHANGED <<owner, bootVars, idleVars, job, calls, ran>>

\* The share itself.
RunShare(c) ==
    /\ pc[c] = "run"
    /\ ran' = [ran EXCEPT ![mine[c].share] = @ + 1]
    /\ Goto(c, "count")
    /\ UNCHANGED <<owner, bootVars, idleVars, job, mine, calls>>

\* Mutant: the count is not atomic, and the one of another core is lost.
LostCount(c) ==
    /\ pc[c] = "count"
    /\ job' = IF c = owner THEN [job EXCEPT !.done = @ + 1] ELSE job
    /\ Goto(c, "claim")
    /\ UNCHANGED <<owner, bootVars, idleVars, mine, calls, ran>>

Count(c) ==
    /\ pc[c] = "count"
    /\ job' = [job EXCEPT !.done = @ + 1]
    /\ Goto(c, "claim")
    /\ UNCHANGED <<owner, bootVars, idleVars, mine, calls, ran>>

RunEnd(c) ==
    /\ pc[c] = "wait" /\ job.done >= job.n
    /\ job' = [job EXCEPT !.active = FALSE]
    /\ Goto(c, "kernel")
    /\ UNCHANGED <<owner, bootVars, idleVars, mine, calls, ran>>

----------------------------------------------------------------------------

Init ==
    /\ pc = [c \in Cores |-> IF c = 0 THEN "boot" ELSE "off"]
    /\ owner = 0
    /\ boot = [ap |-> 0, idx |-> 1, before |-> 1]
    /\ tramp = [stack |-> 0, block |-> 0]
    /\ stack = [c \in Cores |-> 0]
    /\ block = [c \in Cores |-> 0]
    /\ online = 1 /\ ncpu = 1
    /\ scheduling = FALSE /\ joined = {}
    /\ halted = [c \in Cores |-> FALSE]
    /\ wake = [c \in Cores |-> FALSE]
    /\ job = [fn |-> 0, arg |-> 0, n |-> 0, next |-> 0, done |-> 0, active |-> FALSE]
    /\ mine = [c \in Cores |-> NoShare]
    /\ calls = 0
    /\ ran = [i \in {0} |-> 0]

BringUp ==
    \/ BootNext \/ BootSkip \/ BootDone \/ BootTimeout \/ BootEnd
    \/ \E c \in Aps : ApStack(c) \/ ApEntry(c) \/ ApOnline(c)

\* What a core does of its own accord once it has begun.
Step(c) ==
    \/ Roused(c) \/ Unhalt(c) \/ Look(c) \/ TryEnter(c) \/ Join(c) \/ Doze(c)
    \/ SetUp(c) \/ WakeHalted(c) \/ Claim(c) \/ Compare(c) \/ Fetch(c)
    \/ RunShare(c) \/ Count(c) \/ RunEnd(c)

Next ==
    \/ BringUp
    \/ StartScheduling
    \/ \E c \in Cores :
          Step(c) \/ Ticked(c) \/ Enter(c) \/ LetGo(c) \/ GoIdle(c) \/ RunAlone(c) \/ SmpRun(c)

Spec == Init /\ [][Next]_vars

\* A core that has begun a step of its own goes on.  No core is assumed to
\* look at the right moment, to win the lock, to be woken by a job or by a tick.
FairSpec == Spec /\ WF_vars(BringUp) /\ \A c \in Cores : WF_vars(Step(c))

----------------------------------------------------------------------------
(* Properties.                                                             *)

Labels == {"off", "dead", "tramp", "entry", "online", "boot", "await", "kernel",
           "user", "hlt", "unhalt", "look", "after", "doze", "arg", "n", "done",
           "next", "active", "wake", "claim", "cmp", "fetch", "run", "count", "wait"}

\* The variables have their types.
TypeOK ==
    /\ pc \in [Cores -> Labels]
    /\ owner \in Cores \cup {Nobody}
    /\ boot \in [ap : 0..NAps, idx : 1..(NAps + 1), before : 1..(NAps + 1)]
    /\ tramp \in [stack : 0..NAps, block : 0..NAps]
    /\ stack \in [Cores -> 0..NAps] /\ block \in [Cores -> 0..NAps]
    /\ online \in 1..(NAps + 1) /\ ncpu \in 1..(NAps + 1)
    /\ scheduling \in BOOLEAN /\ joined \subseteq Aps
    /\ halted \in [Cores -> BOOLEAN] /\ wake \in [Cores -> BOOLEAN]
    /\ job \in [fn : 0..MaxJobs, arg : 0..MaxJobs, n : 0..(NAps + 1),
                next : 0..Spent, done : 0..(NAps + 1), active : BOOLEAN]
    /\ mine \in [Cores -> [share : 0..Spent, fn : 0..MaxJobs, arg : 0..MaxJobs]]
    /\ calls \in 0..MaxJobs

\* No two cores work with one percpu block or on one stack, and the indices
\* in use are the ones the loops over ncpu go through.
OwnBlock ==
    \A c \in Aps : pc[c] \notin {"off", "dead", "tramp", "entry"} =>
        /\ block[c] # 0
        /\ \A d \in Aps : d # c /\ pc[d] \notin {"off", "dead", "tramp", "entry"} =>
               block[c] # block[d] /\ stack[c] # stack[d]
        /\ ncpu > 1 => block[c] < ncpu

\* A share that is claimed belongs to the job whose function and argument are
\* read for it, also if the core that claims it woke for an earlier job.
RightJob ==
    \A c \in Cores : pc[c] = "run" =>
        /\ mine[c].fn = calls /\ mine[c].arg = calls
        /\ mine[c].share \in Shares
        /\ ran[mine[c].share] = 0

\* smp_run is being executed, by the holder of the lock.
InJob == owner # Nobody /\ pc[owner] \notin {"kernel", "boot", "await"}

\* When smp_run is over, every share of the job was done, and done once.
JobWhole == calls > 0 /\ ~InJob => \A i \in DOMAIN ran : ran[i] = 1

\* Each core has its own block and stack, and each share is done once, for its
\* own job.
EachItsOwn == TypeOK /\ OwnBlock /\ RightJob /\ JobWhole

\* smp_run ends, whatever the other cores are doing.
JobEnds == InJob ~> ~InJob

\* Once the scheduler has started, every core that came up joins it: none
\* sleeps through the one interrupt that says so.
AllJoin == scheduling ~> \A c \in Aps : pc[c] \in {"off", "dead"} \/ c \in joined

=============================================================================
