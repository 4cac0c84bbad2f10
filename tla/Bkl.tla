-------------------------------- MODULE Bkl --------------------------------
(***************************************************************************)
(* The big kernel lock of xyuOS Neo: programs run on every core, the       *)
(* kernel on one.  kernel/kernel/bkl.c is the lock; everything that takes  *)
(* and gives it back is here too: the system call and the exception entry, *)
(* the three kinds of interrupt (isr.S, idt.c), the scheduler loop that    *)
(* sleeps without it, and the TLB shootdown that makes the holder wait for *)
(* every other core.                                                       *)
(*                                                                         *)
(* A core is a stack of contexts.  Its bottom is ring 3 or the core's own  *)
(* scheduler loop; each system call, exception and interrupt pushes one.   *)
(* What a context does under the lock is abstracted to the ways it can     *)
(* leave; every instruction at which the lock, the depth or the interrupt  *)
(* flag changes is kept.                                                   *)
(***************************************************************************)
EXTENDS Integers, Sequences, FiniteSets

CONSTANTS
    Cores,      \* the processors that run the scheduler
    Bsp,        \* the bootstrap core: the only one with device interrupts
    None,       \* owner == -1: nobody has the lock
    MaxNest     \* bound on the contexts of one core

ASSUME CoresAssumption == /\ Bsp \in Cores
                          /\ None \notin Cores
                          /\ IsFiniteSet(Cores)
ASSUME NestAssumption == MaxNest \in Nat /\ MaxNest >= 2

VARIABLES
    owner,      \* bkl.c: the core holding the lock, or None
    depth,      \* percpu.bkl_depth
    saved,      \* the depth bkl_wait_interrupt keeps while it is halted, or 0
    stk,        \* stk[c]: the contexts of core c, innermost last
    inTimer,    \* percpu.in_timer
    tlbPend,    \* SMP_TLB_VECTOR raised at a core and not yet taken
    acks,       \* smp.c: tlb_acks
    stale,      \* cores that may still use a translation that was taken away
    panicked    \* panic() was called by bkl_exit or bkl_exit_to_user

vars == <<owner, depth, saved, stk, inTimer, tlbPend, acks, stale, panicked>>

----------------------------------------------------------------------------
(* Contexts.  "cas" is about to try the compare-and-exchange, "spin" is    *)
(* the `sti; pause; cli` window, "in" runs kernel code with interrupts     *)
(* off, "ion" with interrupts on, "sched" is a tick inside sched_on_tick,  *)
(* "shoot" waits for tlb_acks, "halt" is in hlt, "run" is ring 3.          *)

Kinds == {"user", "loop", "sys", "trap", "tick", "timer", "dev"}
Holding == {"in", "ion", "sched", "shoot"}
Waiting == {"cas", "spin", "halt"}
Pcs == Holding \cup Waiting \cup {"run"}

Context == [kind : Kinds, pc : Pcs]

At(k, p) == [kind |-> k, pc |-> p]
Top(s) == s[Len(s)]
Pop(s) == [i \in 1..(Len(s) - 1) |-> s[i]]
AtPc(s, p) == [s EXCEPT ![Len(s)] = At(s[Len(s)].kind, p)]

\* hlt ends with the first interrupt taken; the lock is next.
Roused(s) == IF Top(s).pc = "halt" THEN AtPc(s, "cas") ELSE s

\* Mutant: bkl_enter spins with interrupts off.
DeafInterruptsOn(c) == Top(stk[c]).pc \in {"run", "ion", "halt"}

\* The interrupt flag, as far as another core can notice it.
InterruptsOn(c) == Top(stk[c]).pc \in {"run", "spin", "ion", "halt"}

\* SMP_TLB_VECTOR (0xF3) outranks the tick (0xE0) and the devices (0x20..):
\* with both pending the local APIC delivers the shootdown first.
TakesInterrupt(c) == InterruptsOn(c) /\ ~tlbPend[c] /\ Len(stk[c]) < MaxNest

\* Interrupted or trapped in ring 3: the context under this one is a program.
FromUser(c) == Len(stk[c]) = 2 /\ stk[c][1].kind = "user"

----------------------------------------------------------------------------
(* The lock.                                                               *)

\* Mutant: bkl_enter does not count the entry when the lock is already held.
UncountedBklEnter(c, s, k) ==
    /\ stk' = [stk EXCEPT ![c] = Append(s, At(k, IF owner = c THEN "in" ELSE "cas"))]
    /\ UNCHANGED depth

\* bkl_enter, on a context pushed over s: once more if the lock is ours,
\* otherwise the compare-and-exchange comes next.
BklEnter(c, s, k) ==
    IF owner = c
    THEN /\ depth' = [depth EXCEPT ![c] = @ + 1]
         /\ stk' = [stk EXCEPT ![c] = Append(s, At(k, "in"))]
    ELSE /\ stk' = [stk EXCEPT ![c] = Append(s, At(k, "cas"))]
         /\ UNCHANGED depth

\* bkl_exit
BklExit(c) ==
    \/ /\ depth[c] <= 0
       /\ panicked' = TRUE
       /\ UNCHANGED <<depth, owner>>
    \/ /\ depth[c] > 0
       /\ depth' = [depth EXCEPT ![c] = @ - 1]
       /\ owner' = IF depth[c] = 1 THEN None ELSE owner
       /\ UNCHANGED panicked

\* bkl_exit_to_user
BklExitToUser(c) ==
    \/ /\ depth[c] # 1
       /\ panicked' = TRUE
       /\ UNCHANGED <<depth, owner>>
    \/ /\ depth[c] = 1
       /\ depth' = [depth EXCEPT ![c] = 0]
       /\ owner' = None
       /\ UNCHANGED panicked

\* The compare-and-exchange of bkl_enter and of bkl_try_enter in cpu_loop:
\* the lock, at depth 1 or at the depth bkl_wait_interrupt remembered.
Cas(c) ==
    /\ Top(stk[c]).pc = "cas"
    /\ IF owner = None
       THEN /\ owner' = c
            /\ stk' = [stk EXCEPT ![c] = AtPc(@, "in")]
            /\ IF Top(stk[c]).kind = "sys" /\ saved[c] > 0
               THEN /\ depth' = [depth EXCEPT ![c] = saved[c]]
                    /\ saved' = [saved EXCEPT ![c] = 0]
               ELSE /\ depth' = [depth EXCEPT ![c] = 1]
                    /\ UNCHANGED saved
       ELSE /\ stk' = [stk EXCEPT ![c] = AtPc(@, "spin")]
            /\ UNCHANGED <<owner, depth, saved>>
    /\ UNCHANGED <<inTimer, tlbPend, acks, stale, panicked>>

\* Out of the window.  bkl_enter tries again once it has seen the lock free;
\* an application processor in cpu_loop goes round the loop regardless.  A
\* shootdown that is pending when the window opens is taken in it.
Spin(c) ==
    /\ Top(stk[c]).pc = "spin"
    /\ ~tlbPend[c]
    /\ owner = None \/ (Top(stk[c]).kind = "loop" /\ c # Bsp)
    /\ stk' = [stk EXCEPT ![c] = AtPc(@, "cas")]
    /\ UNCHANGED <<owner, depth, saved, inTimer, tlbPend, acks, stale, panicked>>

----------------------------------------------------------------------------
(* Ways into the kernel.                                                   *)

\* syscall_entry, syscall_dispatch
Syscall(c) ==
    /\ Top(stk[c]).kind = "user"
    /\ BklEnter(c, stk[c], "sys")
    /\ UNCHANGED <<owner, saved, inTimer, tlbPend, acks, stale, panicked>>

\* isr_handler: a fault of a program, or of a system call on a user buffer
\* whose page is not built yet.
Trap(c) ==
    /\ \/ Top(stk[c]).kind = "user"
       \/ Top(stk[c]).kind = "sys" /\ Top(stk[c]).pc = "in"
    /\ Len(stk[c]) < MaxNest
    /\ BklEnter(c, stk[c], "trap")
    /\ UNCHANGED <<owner, saved, inTimer, tlbPend, acks, stale, panicked>>

\* Mutant: in_timer is never looked at.
StackingTimer(c) ==
    /\ c = Bsp
    /\ TakesInterrupt(c)
    /\ inTimer' = [inTimer EXCEPT ![c] = TRUE]
    /\ BklEnter(c, Roused(stk[c]), "timer")
    /\ UNCHANGED <<owner, saved, tlbPend, acks, stale, panicked>>

\* irq_handler, vector 32: the bootstrap core's tick waits for the lock, but
\* only one at a time.
Timer(c) ==
    /\ c = Bsp
    /\ TakesInterrupt(c)
    /\ IF inTimer[c]
       THEN /\ stk' = [stk EXCEPT ![c] = Roused(@)]
            /\ UNCHANGED <<depth, inTimer>>
       ELSE /\ inTimer' = [inTimer EXCEPT ![c] = TRUE]
            /\ BklEnter(c, Roused(stk[c]), "timer")
    /\ UNCHANGED <<owner, saved, tlbPend, acks, stale, panicked>>

\* irq_handler, keyboard and mouse
Device(c) ==
    /\ c = Bsp
    /\ TakesInterrupt(c)
    /\ BklEnter(c, Roused(stk[c]), "dev")
    /\ UNCHANGED <<owner, saved, inTimer, tlbPend, acks, stale, panicked>>

\* Mutant: bkl_try_enter does not look whether another core has the lock.
BargingTick(c) ==
    /\ c # Bsp
    /\ TakesInterrupt(c)
    /\ owner' = c
    /\ depth' = [depth EXCEPT ![c] = IF owner = c THEN @ + 1 ELSE 1]
    /\ stk' = [stk EXCEPT ![c] = Append(Roused(@), At("tick", "in"))]
    /\ UNCHANGED <<saved, inTimer, tlbPend, acks, stale, panicked>>

\* Mutant: a skipped tick returns without IRQ_NO_LOCK, so the stub gives back
\* a lock that was not taken.
UnflaggedTick(c) ==
    /\ c # Bsp
    /\ TakesInterrupt(c)
    /\ IF owner \in {None, c}
       THEN /\ owner' = c
            /\ depth' = [depth EXCEPT ![c] = IF owner = c THEN @ + 1 ELSE 1]
            /\ stk' = [stk EXCEPT ![c] = Append(Roused(@), At("tick", "in"))]
            /\ UNCHANGED panicked
       ELSE /\ stk' = [stk EXCEPT ![c] = Roused(@)]
            /\ BklExit(c)
    /\ UNCHANGED <<saved, inTimer, tlbPend, acks, stale>>

\* irq_handler, SMP_TICK_VECTOR: bkl_try_enter, and IRQ_NO_LOCK without it.
Tick(c) ==
    /\ c # Bsp
    /\ TakesInterrupt(c)
    /\ IF owner \in {None, c}
       THEN /\ owner' = c
            /\ depth' = [depth EXCEPT ![c] = IF owner = c THEN @ + 1 ELSE 1]
            /\ stk' = [stk EXCEPT ![c] = Append(Roused(@), At("tick", "in"))]
       ELSE /\ stk' = [stk EXCEPT ![c] = Roused(@)]
            /\ UNCHANGED <<owner, depth>>
    /\ UNCHANGED <<saved, inTimer, tlbPend, acks, stale, panicked>>

\* smp_wake_isr: nothing but the end of hlt.
WakeIsr(c) ==
    /\ c # Bsp
    /\ Top(stk[c]).pc = "halt"
    /\ stk' = [stk EXCEPT ![c] = Roused(@)]
    /\ UNCHANGED <<owner, depth, saved, inTimer, tlbPend, acks, stale, panicked>>

\* smp_tlb_isr: flush, then count.
TlbIsr(c) ==
    /\ InterruptsOn(c)
    /\ tlbPend[c]
    /\ tlbPend' = [tlbPend EXCEPT ![c] = FALSE]
    /\ stale' = stale \ {c}
    /\ acks' = acks + 1
    /\ stk' = [stk EXCEPT ![c] = Roused(@)]
    /\ UNCHANGED <<owner, depth, saved, inTimer, panicked>>

----------------------------------------------------------------------------
(* Inside.                                                                 *)

\* A stretch of kernel code that lets interrupts in while it holds the lock:
\* net_give_way and smp_bench in a system call, usb_service and the window
\* manager's benchmark in the bootstrap core's loop.
OpenInterrupts(c) ==
    /\ Top(stk[c]).pc = "in"
    /\ \/ Top(stk[c]).kind = "sys"
       \/ Top(stk[c]).kind = "loop" /\ c = Bsp
    /\ stk' = [stk EXCEPT ![c] = AtPc(@, "ion")]
    /\ UNCHANGED <<owner, depth, saved, inTimer, tlbPend, acks, stale, panicked>>

CloseInterrupts(c) ==
    /\ Top(stk[c]).pc = "ion"
    /\ stk' = [stk EXCEPT ![c] = AtPc(@, "in")]
    /\ UNCHANGED <<owner, depth, saved, inTimer, tlbPend, acks, stale, panicked>>

\* irq_handler has run the device part of a tick: in_timer is cleared before
\* sched_on_tick, which may never come back.
TickHandled(c) ==
    /\ Top(stk[c]).kind \in {"timer", "tick"}
    /\ Top(stk[c]).pc = "in"
    /\ inTimer' = [inTimer EXCEPT ![c] = FALSE]
    /\ stk' = [stk EXCEPT ![c] = AtPc(@, "sched")]
    /\ UNCHANGED <<owner, depth, saved, tlbPend, acks, stale, panicked>>

\* Mutant: tlb_acks keeps the answers to the shootdown before.
UnresetShootdown(c) ==
    /\ FromUser(c)
    /\ Top(stk[c]).pc \in {"in", "sched"}
    /\ Top(stk[c]).pc = "in" => Top(stk[c]).kind \in {"sys", "trap"}
    /\ tlbPend' = [d \in Cores |-> d # c]
    /\ stale' = Cores \ {c}
    /\ stk' = [stk EXCEPT ![c] = AtPc(@, "shoot")]
    /\ UNCHANGED <<owner, depth, saved, inTimer, acks, panicked>>

\* smp_tlb_shootdown, up to the wait: a mapping of a shared address space is
\* gone.  In a system call, or in a thread that a fault or a tick ends.
Shootdown(c) ==
    /\ FromUser(c)
    /\ Top(stk[c]).pc \in {"in", "sched"}
    /\ Top(stk[c]).pc = "in" => Top(stk[c]).kind \in {"sys", "trap"}
    /\ acks' = 0
    /\ tlbPend' = [d \in Cores |-> d # c]
    /\ stale' = Cores \ {c}
    /\ stk' = [stk EXCEPT ![c] = AtPc(@, "shoot")]
    /\ UNCHANGED <<owner, depth, saved, inTimer, panicked>>

\* smp_tlb_shootdown returns.
ShootdownDone(c) ==
    /\ Top(stk[c]).pc = "shoot"
    /\ acks >= Cardinality(Cores) - 1
    /\ stk' = [stk EXCEPT ![c] =
                 AtPc(@, IF Top(@).kind \in {"timer", "tick"} THEN "sched" ELSE "in")]
    /\ UNCHANGED <<owner, depth, saved, inTimer, tlbPend, acks, stale, panicked>>

----------------------------------------------------------------------------
(* Ways out.                                                               *)

\* The end of syscall_dispatch, of isr_common_stub and of a device's
\* irq_common_stub: one bkl_exit, back to what was interrupted.
Return(c) ==
    /\ Top(stk[c]).kind \in {"sys", "trap", "dev"}
    /\ Top(stk[c]).pc = "in"
    /\ BklExit(c)
    /\ stk' = [stk EXCEPT ![c] = Pop(@)]
    /\ UNCHANGED <<saved, inTimer, tlbPend, acks, stale>>

\* sched_on_tick returns a frame and irq_common_stub adopts it: the one that
\* was interrupted or, from ring 3, another program's.
TickReturn(c) ==
    /\ Top(stk[c]).kind \in {"timer", "tick"}
    /\ Top(stk[c]).pc = "sched"
    /\ BklExit(c)
    /\ stk' = [stk EXCEPT ![c] = Pop(@)]
    /\ UNCHANGED <<saved, inTimer, tlbPend, acks, stale>>

\* sched_on_tick goes to a program that blocked inside a system call, by
\* kctx_restore: the lock stays held, one deep.
TickToKernel(c) ==
    /\ Top(stk[c]).pc = "sched"
    /\ FromUser(c)
    /\ stk' = [stk EXCEPT ![c] = <<At("user", "run"), At("sys", "in")>>]
    /\ UNCHANGED <<owner, depth, saved, inTimer, tlbPend, acks, stale, panicked>>

\* block_current, process_yield, process_notify_exit, and a tick that parks or
\* ends its program: kctx_restore(idle_ctx), onto the core's own stack.
LeaveToLoop(c) ==
    /\ FromUser(c)
    /\ Top(stk[c]).pc \in {"in", "sched"}
    /\ Top(stk[c]).pc = "in" => Top(stk[c]).kind \in {"sys", "trap"}
    /\ stk' = [stk EXCEPT ![c] = <<At("loop", "in")>>]
    /\ UNCHANGED <<owner, depth, saved, inTimer, tlbPend, acks, stale, panicked>>

\* cpu_loop, resume_process, sched_resume: into ring 3.
ResumeUser(c) ==
    /\ Top(stk[c]) = At("loop", "in")
    /\ BklExitToUser(c)
    /\ stk' = [stk EXCEPT ![c] = <<At("user", "run")>>]
    /\ UNCHANGED <<saved, inTimer, tlbPend, acks, stale>>

\* cpu_loop, resume_process, kctx_restore: into the system call that blocked.
ResumeKernel(c) ==
    /\ Top(stk[c]) = At("loop", "in")
    /\ stk' = [stk EXCEPT ![c] = <<At("user", "run"), At("sys", "in")>>]
    /\ UNCHANGED <<owner, depth, saved, inTimer, tlbPend, acks, stale, panicked>>

\* cpu_loop with nothing to run: bkl_exit, then sti; hlt.
Idle(c) ==
    /\ Top(stk[c]) = At("loop", "in")
    /\ BklExit(c)
    /\ stk' = [stk EXCEPT ![c] = AtPc(@, "halt")]
    /\ UNCHANGED <<saved, inTimer, tlbPend, acks, stale>>

\* bkl_wait_interrupt, up to the hlt: lets go completely in the middle of a
\* system call and remembers how deep it was.
WaitInterrupt(c) ==
    /\ Top(stk[c]) = At("sys", "in")
    /\ saved' = [saved EXCEPT ![c] = depth[c]]
    /\ depth' = [depth EXCEPT ![c] = 0]
    /\ owner' = None
    /\ stk' = [stk EXCEPT ![c] = AtPc(@, "halt")]
    /\ UNCHANGED <<inTimer, tlbPend, acks, stale, panicked>>

----------------------------------------------------------------------------

\* process_run_all has started the other cores: the bootstrap core has the
\* lock, the others are at the bkl_enter of process_ap_run.
Init ==
    /\ owner = Bsp
    /\ depth = [c \in Cores |-> IF c = Bsp THEN 1 ELSE 0]
    /\ saved = [c \in Cores |-> 0]
    /\ stk = [c \in Cores |-> <<At("loop", IF c = Bsp THEN "in" ELSE "cas")>>]
    /\ inTimer = [c \in Cores |-> FALSE]
    /\ tlbPend = [c \in Cores |-> FALSE]
    /\ acks = 0
    /\ stale = {}
    /\ panicked = FALSE

Enter(c) == Syscall(c) \/ Trap(c) \/ Timer(c) \/ Device(c) \/ Tick(c)
Inside(c) == OpenInterrupts(c) \/ CloseInterrupts(c) \/ TickHandled(c)
               \/ Shootdown(c) \/ ShootdownDone(c)
Leave(c) == Return(c) \/ TickReturn(c) \/ TickToKernel(c) \/ LeaveToLoop(c)
               \/ ResumeUser(c) \/ ResumeKernel(c) \/ Idle(c) \/ WaitInterrupt(c)

\* panic() stops the machine.
Next ==
    /\ ~panicked
    /\ \E c \in Cores :
         \/ Cas(c) \/ Spin(c) \/ WakeIsr(c) \/ TlbIsr(c)
         \/ Enter(c) \/ Inside(c) \/ Leave(c)

Spec == Init /\ [][Next]_vars

\* The processor executes its next instruction, and takes an interrupt that is
\* pending once they are enabled.  Nothing is assumed of who wins the lock.
FairSpec ==
    /\ Spec
    /\ \A c \in Cores : WF_vars(Cas(c)) /\ WF_vars(TlbIsr(c)) /\ WF_vars(ShootdownDone(c))

----------------------------------------------------------------------------
(* Properties.                                                             *)

\* The state keeps its types: above all, no core's bkl_depth or bkl_saved goes
\* below zero (bkl_exit), and a core always has a context to go back to.
TypeOK ==
    /\ owner \in Cores \cup {None}
    /\ depth \in [Cores -> Nat]
    /\ saved \in [Cores -> Nat]
    /\ stk \in [Cores -> Seq(Context)]
    /\ \A c \in Cores : Len(stk[c]) >= 1
    /\ inTimer \in [Cores -> BOOLEAN]
    /\ tlbPend \in [Cores -> BOOLEAN]
    /\ acks \in Nat
    /\ stale \subseteq Cores
    /\ panicked \in BOOLEAN

\* bkl.h:27: a core executes kernel code only while it holds the lock, so no
\* two cores are ever in the kernel at once, however calls, faults and ticks
\* nest and however a context is left behind.
KernelExclusive ==
    \A c, d \in Cores :
        (Top(stk[c]).pc \in Holding /\ Top(stk[d]).pc \in Holding) => c = d

\* A core's bkl_depth is exactly the number of its contexts that are inside
\* the kernel, those are the innermost ones, and the lock is the core's while
\* there is one: no entry path misses its exit, whichever way it left.
DepthCounts ==
    \A c \in Cores :
        /\ depth[c] <= Len(stk[c])
        /\ \A i \in 1..Len(stk[c]) :
              stk[c][i].pc \in Holding <=> i > Len(stk[c]) - depth[c]
        /\ owner = c <=> depth[c] > 0

\* Neither panic of bkl.c can happen: no release by a core that does not hold
\* the lock, no return to ring 3 at a depth other than one.
NoPanic == ~panicked

\* smp.c:98: every other core has dropped its translations before the core
\* that took a mapping away can let go of the lock.
NoStaleTranslation ==
    stale # {} => \E c \in Cores : owner = c /\ Top(stk[c]).pc = "shoot"

\* idt.c:376: however long the bootstrap core waits for the lock, ticks do
\* not pile up on its stack.
TicksDoNotStack ==
    \A c \in Cores : \A i, j \in 1..Len(stk[c]) :
        (stk[c][i].kind \in {"timer", "tick"} /\ stk[c][j].kind \in {"timer", "tick"}) => i = j

\* bkl.h:41: a core that waits for the lock still answers: a shootdown ends.
ShootdownAnswered ==
    \A c \in Cores : Top(stk[c]).pc = "shoot" ~> Top(stk[c]).pc # "shoot"
=============================================================================
