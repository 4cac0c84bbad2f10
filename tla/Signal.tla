------------------------------- MODULE Signal -------------------------------
(***************************************************************************)
(* Signals (kernel/kernel/signal.c): how one is sent, when it acts, how a  *)
(* handler is put under a program and how the program gets back to where   *)
(* it was.  The threads share one program's address space, and so its      *)
(* handlers; the pending set, the mask and the frames are each thread's.   *)
(* Every step is made under the kernel lock (Bkl), in ring 0.              *)
(*                                                                         *)
(* The scheduler (Process) is reduced to what it means for one thread: it  *)
(* is in ring 3 ("user"), put down there ("ready"), asleep in a call       *)
(* ("blocked"), woken in it ("woken") or gone ("dead").  A blocking call   *)
(* is one of four kinds, by what a handler does to it:                     *)
(*   "read"   put back whole: a key, a child, a thread, a pipe to read;    *)
(*   "write"  put back, unless part of it is in the pipe already;          *)
(*   "sleep"  cut short;                                                   *)
(*   "line"   a line from the terminal: goes on to its end.                *)
(***************************************************************************)
EXTENDS Integers, Sequences, FiniteSets

CONSTANTS
    Threads,
    Programs        \* the programs of this instance, see Program

SIGKILL == 9
SIGUSR1 == 10
SIGSEGV == 11
SIGALRM == 14
SIGCHLD == 17
SIGCONT == 18
SIGSTOP == 19
SIGTSTP == 20
Blocking == {"read", "write", "sleep", "line"}
AllCalls == Blocking \cup {"handler", "mask", "alarm", "kill", "suspend", "fault"}
Uncatchable == {SIGKILL, SIGSTOP}

\* A program: the signals that reach it, the calls it makes, and a bound on
\* the handlers inside one another.
AllSigs == {SIGKILL, SIGUSR1, SIGSEGV, SIGALRM, SIGCHLD, SIGCONT, SIGSTOP, SIGTSTP}
Program == [sigs : SUBSET AllSigs, calls : SUBSET AllCalls, frames : Nat]

ASSUME SignalAssumption == Programs \subseteq Program

\* default_action
DefaultAction(s) ==
    CASE s = SIGCHLD -> "ignore"
      [] s \in {SIGSTOP, SIGTSTP} -> "stop"
      [] s = SIGCONT -> "cont"
      [] OTHER -> "term"

VARIABLES
    prog,       \* the program that runs; it does not change
    th,         \* th[t]: the thread's part of process_t, and where it is
    disp        \* addr_space_t.sig_handler: "dfl", "ign" or "handler"

vars == <<th, disp>>

Sigs == prog.sigs
Calls == prog.calls
MaxFrames == prog.frames

\* `call`, `did` and `redo` are the context the thread is in: the call the
\* program is making, whether it has had its effect, and whether RIP is back
\* on its SYSCALL instruction.  `unwanted` are the pending signals that came
\* while they were being ignored (it is only written).
Thread0 == [st |-> "user", stopped |-> FALSE, pending |-> {}, mask |-> {}, alarm |-> FALSE,
            restart |-> FALSE, call |-> "none", did |-> FALSE, redo |-> FALSE,
            frames |-> <<>>, unwanted |-> {}]

Live(t) == th[t].st # "dead"
Set(t, r) == th' = [th EXCEPT ![t] = r]
Gone(t) == Set(t, [Thread0 EXCEPT !.st = "dead"])
Lowest(S) == CHOOSE s \in S : \A u \in S : s <= u

Caught(s, d) == s \notin Uncatchable /\ d[s] = "handler"
Ignored(s, d) == s \notin Uncatchable /\ d[s] = "ign"

----------------------------------------------------------------------------
(* Sending.                                                                *)

\* Mutant: a signal without a handler wakes nobody unless it is uncatchable.
WakesFew(r, s, d) == s \in Uncatchable \/ (s \notin r.mask /\ Caught(s, d))

\* wakes
Wakes(r, s, d) ==
    \/ s \in Uncatchable
    \/ s \notin r.mask /\ ~Ignored(s, d) /\ (Caught(s, d) \/ DefaultAction(s) # "ignore")

\* signal_post on the thread r.
Posted(r, s) ==
    LET forgotten == CASE s = SIGCONT -> {SIGSTOP, SIGTSTP}
                       [] s \in {SIGSTOP, SIGTSTP} -> {SIGCONT}
                       [] OTHER -> {}
    IN  [r EXCEPT !.stopped = IF s = SIGCONT THEN FALSE ELSE @,
                  !.pending = (@ \ forgotten) \cup {s},
                  !.st = IF @ = "blocked" /\ Wakes(r, s, disp) THEN "woken" ELSE @,
                  !.unwanted = IF Ignored(s, disp) THEN (@ \ forgotten) \cup {s}
                               ELSE @ \ (forgotten \cup {s})]

\* signal_send, by another program, the window manager (Ctrl+C) or the kernel.
Send(t, s) ==
    /\ Live(t)
    /\ Set(t, Posted(th[t], s))
    /\ UNCHANGED disp

\* signal_tick: the alarm has come round.
AlarmRings(t) ==
    /\ th[t].alarm
    /\ Set(t, [Posted(th[t], SIGALRM) EXCEPT !.alarm = FALSE])
    /\ UNCHANGED disp

----------------------------------------------------------------------------
(* The safe points: signal_check.                                          *)

\* The pending signals signal_check acts on.  It takes them lowest first; the
\* outcome depends on the order only between CONT and the stops above it.
Acted(r) == {s \in r.pending \ r.mask : ~Caught(s, disp)}
ActedTo(r, a) == \E s \in Acted(r) : ~Ignored(s, disp) /\ DefaultAction(s) = a

Ends(r) == ActedTo(r, "term")
Checked(r) ==
    [r EXCEPT !.pending = @ \ Acted(r),
              !.unwanted = @ \ Acted(r),
              !.stopped = IF ActedTo(r, "stop") THEN TRUE
                          ELSE IF ActedTo(r, "cont") THEN FALSE ELSE @]

----------------------------------------------------------------------------
(* Delivery, on the way out to ring 3.                                     *)

Handled(r, d) == {s \in r.pending \ r.mask : Caught(s, d)}

\* deliver: the context goes into a frame on the user's stack.
Deliver(r, from, d) ==
    IF Handled(r, d) = {} THEN r
    ELSE LET s == Lowest(Handled(r, d))
             f == [sig |-> s, mask |-> r.mask, from |-> from, call |-> r.call,
                   did |-> r.did, redo |-> r.redo, unwanted |-> s \in r.unwanted]
         IN  [r EXCEPT !.frames = <<f>> \o @, !.pending = @ \ {s}, !.unwanted = @ \ {s},
                       !.mask = @ \cup {s},
                       !.call = "none", !.did = FALSE, !.redo = FALSE]

\* The frame fits on the stack, or the program ends (deliver_failed).
Out(t, r, from, d) ==
    \/ /\ Handled(r, d) = {} \/ Len(r.frames) < MaxFrames
       /\ Set(t, Deliver([r EXCEPT !.st = "user"], from, d))
    \/ Handled(r, d) # {} /\ Gone(t)

\* signal_on_syscall_return, the end of syscall_dispatch: the call made by r
\* is over, or is put back for after the handler.
SyscallOut(t, r, d) ==
    LET back == r.restart /\ Handled(r, d) # {}
        r1 == [r EXCEPT !.restart = FALSE, !.redo = @ \/ back]
    IN  Out(t, IF Handled(r, d) = {} /\ ~r1.redo
               THEN [r1 EXCEPT !.call = "none", !.did = FALSE] ELSE r1, "syscall", d)

\* syscall_dispatch up to the call: the safe point at its entry.  A thread that
\* was put back on its SYSCALL instruction can only make that call.
Enters(t, k) ==
    /\ th[t].st = "user"
    /\ k \in Calls
    /\ th[t].redo => th[t].call = k
    /\ ~Ends(th[t])

\* A call that does not block, on the thread r as the entry left it.
Made(t, k) == [Checked(th[t]) EXCEPT !.call = k, !.did = TRUE]

----------------------------------------------------------------------------
(* The program's calls.                                                    *)

\* signal_set_handler, with the trampoline libc has set before.
SetHandler(t, s, h) ==
    LET r == Made(t, "handler")
        cleared == IF disp[s] = "ign" THEN {s} ELSE {}
    IN  /\ Enters(t, "handler")
        /\ s \notin Uncatchable
        /\ disp' = [disp EXCEPT ![s] = h]
        /\ SyscallOut(t, [r EXCEPT !.pending = @ \ cleared, !.unwanted = @ \ cleared], disp')

\* signal_mask: replaced, extended or cut down, m is what comes of it.
SetMask(t, m) ==
    /\ Enters(t, "mask")
    /\ SyscallOut(t, [Made(t, "mask") EXCEPT !.mask = m \ Uncatchable], disp)
    /\ UNCHANGED disp

\* signal_alarm: set, or cancelled.
SetAlarm(t, on) ==
    /\ Enters(t, "alarm")
    /\ SIGALRM \in Sigs
    /\ SyscallOut(t, [Made(t, "alarm") EXCEPT !.alarm = on], disp)
    /\ UNCHANGED disp

\* signal_send to oneself: raise().
Raise(t, s) ==
    /\ Enters(t, "kill")
    /\ SyscallOut(t, Posted(Made(t, "kill"), s), disp)
    /\ UNCHANGED disp

\* The thread ends at the entry of any call: signal_check.
EndAtEntry(t) ==
    /\ th[t].st = "user"
    /\ Ends(th[t])
    /\ Gone(t)
    /\ UNCHANGED disp

\* A blocking call: it has what it needs, or the thread goes to sleep.
\* block_current does not look at the signals on the way in.
Block(t, k) ==
    LET r == [Checked(th[t]) EXCEPT !.call = k, !.redo = FALSE, !.did = FALSE]
    IN  /\ Enters(t, k)
        /\ k \in Blocking
        /\ \/ Set(t, [r EXCEPT !.st = "blocked"])
           \/ k = "write" /\ Set(t, [r EXCEPT !.st = "blocked", !.did = TRUE])
           \/ k # "sleep" /\ SyscallOut(t, [r EXCEPT !.did = TRUE], disp)
        /\ UNCHANGED disp

\* A key, the clock, the other end of the pipe, a child's end.
Event(t) ==
    /\ th[t].st = "blocked"
    /\ Set(t, [th[t] EXCEPT !.st = "woken"])
    /\ UNCHANGED disp

\* Mutant: a sleep is put back like any other call.
RestartsAll(k, did) == TRUE

\* Is a call of kind k, with or without some of its effect, put back when a
\* handler is waiting?  process_sleep_ms, pipe_write and the terminal's line
\* clear sig_restart.
Restarts(k, did) == k = "read" \/ (k = "write" /\ ~did)

\* The rest of block_current and of the call around it, for a thread woken in
\* a call: it ends, gives up for a handler, goes back to sleep or is done.
Resume(t) ==
    LET r == Checked(th[t])
        k == r.call
        gaveUp == [r EXCEPT !.restart = Restarts(k, r.did),
                            !.did = @ \/ k = "sleep"]
        done == [r EXCEPT !.did = TRUE]
    IN  /\ th[t].st = "woken"
        /\ ~th[t].stopped
        /\ \/ Ends(th[t]) /\ Gone(t)
           \/ /\ ~Ends(th[t]) /\ Handled(r, disp) # {} /\ k # "line"
              /\ SyscallOut(t, gaveUp, disp)
           \/ /\ ~Ends(th[t]) /\ (Handled(r, disp) = {} \/ k = "line")
              /\ SyscallOut(t, done, disp)
           \/ /\ ~Ends(th[t]) /\ (Handled(r, disp) = {} \/ k = "line")
              /\ k # "sleep"
              /\ Set(t, [r EXCEPT !.st = "blocked", !.did = @ \/ k = "write"])
        /\ UNCHANGED disp

----------------------------------------------------------------------------
(* Ring 3.                                                                 *)

\* Mutant: a tick is no safe point.
BlindTick(t) ==
    /\ th[t].st = "user"
    /\ \/ Set(t, [th[t] EXCEPT !.st = "ready"])
       \/ ~th[t].stopped /\ Out(t, th[t], "interrupt", disp)
    /\ UNCHANGED disp

\* sched_on_tick: the safe point, and then the thread is put down, or stays
\* and goes back through a handler.  A stopped one does not stay.
Tick(t) ==
    LET r == Checked(th[t])
    IN  /\ th[t].st = "user"
        /\ \/ Ends(th[t]) /\ Gone(t)
           \/ ~Ends(th[t]) /\ Set(t, [r EXCEPT !.st = "ready"])
           \/ ~Ends(th[t]) /\ ~r.stopped /\ Out(t, r, "interrupt", disp)
        /\ UNCHANGED disp

\* Picked up again: by a tick on some core, through the way out to ring 3, or
\* by a core's loop, straight.
Run(t) ==
    /\ th[t].st = "ready"
    /\ ~th[t].stopped
    /\ \/ Out(t, th[t], "interrupt", disp)
       \/ Set(t, [th[t] EXCEPT !.st = "user"])
    /\ UNCHANGED disp

\* signal_from_fault, or the end of the program (isr_handler).
Fault(t) ==
    LET r == [th[t] EXCEPT !.pending = @ \cup {SIGSEGV}, !.unwanted = @ \ {SIGSEGV}]
    IN  /\ th[t].st = "user"
        /\ "fault" \in Calls /\ SIGSEGV \in Sigs
        /\ IF Caught(SIGSEGV, disp) /\ SIGSEGV \notin th[t].mask
           THEN Out(t, r, "interrupt", disp)
           ELSE Gone(t)
        /\ UNCHANGED disp

\* Mutant: the mask of the handler stays.
MaskAfter(r, f) == r.mask

\* The mask signal_return puts back.
ReturnMask(r, f) == f.mask

\* signal_return, from the trampoline under the handler: the context in the
\* frame is back.  One that came from a system call goes out as one does, and
\* may meet the next handler there; the other is resumed as it was.
SigReturn(t) ==
    LET c == Checked(th[t])
        f == Head(c.frames)
        r == [c EXCEPT !.frames = Tail(@), !.mask = ReturnMask(c, f),
                       !.call = f.call, !.did = f.did, !.redo = f.redo]
    IN  /\ th[t].st = "user" /\ th[t].frames # <<>> /\ ~th[t].redo
        /\ ~Ends(th[t])
        /\ IF f.from = "syscall" THEN SyscallOut(t, r, disp) ELSE Set(t, r)
        /\ UNCHANGED disp

\* process_suspend and process_resume: the task manager.
Suspend(t, on) ==
    /\ "suspend" \in Calls
    /\ Live(t)
    /\ Set(t, [th[t] EXCEPT !.stopped = on])
    /\ UNCHANGED disp

----------------------------------------------------------------------------

Init ==
    /\ prog \in Programs
    /\ th = [t \in Threads |-> Thread0]
    /\ disp = [s \in Sigs |-> "dfl"]

Runs(t) == Tick(t) \/ Run(t) \/ Resume(t) \/ EndAtEntry(t)

Next ==
    /\ UNCHANGED prog
    /\ \E t \in Threads :
        \/ Runs(t) \/ SigReturn(t) \/ Event(t) \/ AlarmRings(t) \/ Fault(t)
        \/ \E s \in Sigs :
             \/ Send(t, s) \/ Raise(t, s)
             \/ \E h \in {"dfl", "ign", "handler"} : SetHandler(t, s, h)
        \/ \E m \in SUBSET Sigs : SetMask(t, m)
        \/ \E k \in Blocking : Block(t, k)
        \/ \E on \in BOOLEAN : SetAlarm(t, on) \/ Suspend(t, on)

Spec == Init /\ [][Next]_<<prog, vars>>

\* The timer ticks and the scheduler runs what it may (Process, NoStarvation).
FairSpec == Spec /\ \A t \in Threads : WF_vars(Tick(t)) /\ WF_vars(Run(t)) /\ WF_vars(Resume(t))

----------------------------------------------------------------------------
(* Properties.                                                             *)

Context == [call : AllCalls \cup {"none"}, did : BOOLEAN, redo : BOOLEAN]
ContextOf(r) == [call |-> r.call, did |-> r.did, redo |-> r.redo]

\* The types, SIGKILL and SIGSTOP never in a mask, and sig_restart only set
\* inside a call.
TypeOK ==
    /\ disp \in [Sigs -> {"dfl", "ign", "handler"}]
    /\ \A t \in Threads :
         LET r == th[t]
         IN  /\ r.st \in {"user", "ready", "blocked", "woken", "dead"}
             /\ r.pending \subseteq Sigs /\ r.unwanted \subseteq r.pending
             /\ r.mask \subseteq Sigs \ Uncatchable
             /\ ContextOf(r) \in Context
             /\ ~r.restart
             /\ Len(r.frames) <= MaxFrames
             /\ \A i \in DOMAIN r.frames :
                  r.frames[i].sig \in Sigs /\ ContextOf(r.frames[i]) \in Context

\* A call that a handler broke into is put back exactly if nothing of it has
\* happened: no effect twice, and no call lost (sig_restart, signal_return
\* through any nest of handlers).
RedoneIffUndone ==
    \A t \in Threads :
        LET contexts == {ContextOf(th[t].frames[i]) : i \in DOMAIN th[t].frames}
                          \cup (IF th[t].st \in {"user", "ready"} THEN {ContextOf(th[t])} ELSE {})
        IN  \A x \in contexts : IF x.call = "none" THEN ~x.redo ELSE x.redo = ~x.did

\* In a program that leaves its mask alone, what is held off is exactly what
\* has a handler running, each once: no handler is entered twice, and none
\* leaves its signal blocked behind it (deliver, signal_return).
HeldWhileHandled ==
    "mask" \notin Calls =>
        \A t \in Threads :
            LET f == th[t].frames
            IN  /\ th[t].mask = {f[i].sig : i \in DOMAIN f}
                /\ \A i, j \in DOMAIN f : f[i].sig = f[j].sig => i = j

\* "leaving it pending would fire the new handler for something the program
\* had already said it did not care about" (signal_set_handler).
IgnoredStaysIgnored ==
    \A t \in Threads : \A i \in DOMAIN th[t].frames : ~th[t].frames[i].unwanted

\* Through any nest of handlers, masks and dispositions a handler runs only
\* for what it was asked for, once at a time, and leaves the mask as it found it.
HandlersInOrder == TypeOK /\ HeldWhileHandled /\ IgnoredStaysIgnored

\* Nobody sleeps on a signal that would end, stop or continue it (wakes,
\* signal_check at every block's two ends).
DefaultsNotSleptOn ==
    \A t \in Threads : th[t].st = "blocked" => ~\E a \in {"term", "stop", "cont"} : ActedTo(th[t], a)

\* SIGKILL ends a thread whatever it has caught, ignored or held off, unless
\* it is stopped.
KillEnds ==
    \A t \in Threads :
        (SIGKILL \in th[t].pending) ~> (th[t].st = "dead" \/ th[t].stopped)
=============================================================================
