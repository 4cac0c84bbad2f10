# xyuOS Neo: a verification project

TLA+ models of the core of xyuOS Neo (its kernel lock, scheduler, signals, pipes,
memory, file systems and TCP), the TLC runs that check them on small instances, and TLAPS proofs of what holds for every instance. The code is
the reference; every definition that models code is listed in `PROJECT.json`
(`map`) with the lines it stands for.

## The system

xyuOS Neo is an x86_64 operating system with its own kernel, C library, window
manager, network stack and programs. Programs run on every core. The kernel
runs on one: a single lock, the big kernel lock, is taken on every way in and
given back on every way out.

| Part | State it keeps | Operations | Meets |
|---|---|---|---|
| Big kernel lock (`kernel/bkl.c`) | `owner`; per core `bkl_depth` | enter, try, exit, exit to user, wait for an interrupt | every entry into the kernel |
| Entry paths (`idt.c`, `isr.S`, `syscall_entry.S`, `sched_switch.S`) | per core `in_timer`, the stack of contexts | system call, exception, device interrupt, two kinds of tick, two lock-free interrupts | lock, scheduler |
| SMP (`smp.c`) | `tlb_acks`, `scheduling`, `core_halted`, the compute job | bring-up, tick broadcast, TLB shootdown, `smp_run` | lock, scheduler loop, VM |
| Processes and scheduler (`process.c`) | `proc_table`, `next_pid`, `rr_last`; per core `current_proc`, `idle_ctx` | spawn, exit, wait, thread create/exit/join, sleep, yield, key wait, suspend, resume, kill, pick, tick | lock, signals, address spaces, window manager |
| Signals (`signal.c`) | per process `sig_pending`, `sig_blocked`, `sig_restart`, `alarm_at`; per address space `sig_handler`, `sig_tramp` | send, handler, mask, alarm, safe points, delivery, return, fault | every blocking call |
| Pipes and streams (`process.c`) | `pipes[16]`: ring, two open flags, two pids | create, attach, close, read, write, release | scheduler, signals, shells |
| Shell (`userland/sh.c`) | jobs, variables | pipelines | pipes, spawn, wait, kill |
| System calls (`syscall.c`) | descriptor tables | about a hundred calls | everything |
| Memory (`mm/vmm.c`, `pmm.c`, `heap.c`, `kernel/shm.c`) | regions and holders of a space, frame bitmap, block list, segments | fault, map, unmap, protect, alloc, free, attach, detach | processes, shootdown |
| Files (`fs/`) | open files, block and inode bitmaps, caches | open, read, write, truncate, rename, unlink | block drivers |
| Network (`net/`) | connections, sockets, ARP and DNS caches, TLS sessions | poll, connect, accept, send, receive, timers | scheduler (waits that give way), NICs |
| Window manager (`wm/`), graphics, drivers | windows, panes, device rings | frames, keys, mouse | scheduler loop on the bootstrap core |
| libc, librast, libtext, userland, ported programs | per program | - | system calls |

What is hard in it: a lock that is taken in one context and given back in
another, after a change of stack; a core that waits for all the others while it
holds that lock; processes resumed on another core than the one they blocked on;
kernel stacks and page tables that one core gives up while another may stand on
them; signals that arrive at any point of a call that may have to be made again;
pipes known by a reusable index to several processes and a shell; a clock that
moves without the lock and a handler that waits for it; work handed out to cores
without any lock; translations that other cores have cached; calls that sleep
holding a pointer into a table; drives that are pulled out, and power that is
cut, between two writes; a stream put together from lost, repeated and late
segments.

What makes each part correct is stated as properties below; the hazards behind
them, with their lines, are in `PROJECT.json` (`hazards`).

## The modules

| Module | Models |
|---|---|
| `Bkl` | the lock and every way in and out of the kernel, the shootdown |
| `Process` | the process table, scheduler, threads, waiting, ending |
| `Signal` | signals of the threads of one program |
| `Pipe` | the pipe table, the two ends, shells running pipelines |
| `Smp` | bringing the cores up, the idle cores, the pool that shares out a computation |
| `Vm` | address spaces, the break, shared segments, frames, what the cores have cached |
| `Heap` | the kernel heap over the frame allocator |
| `Alloc` | what an allocator promises, which `Heap` implements |
| `Tcp` | one connection, both ends, and the network between them |
| `Sock` | the sockets of programs over the tables of connections, listeners and ports |
| `Fat` | files on FAT and exFAT drives that come and go |
| `Ext2` | the root file system and the power going off |
| `MC...` | the same modules, instantiated by the `.cfg` files |
| `BklProofs`, `ProcessProofs`, `SmpProofs`, `SignalProofs`, `PipeProofs`, `VmProofs`, `HeapProofs`, `SockProofs` | the inductive invariant of the module and its theorems |

The models stack. `Bkl` shows that kernel code runs on one core at a time and
says where a core can lose the lock. The others use that: what a core does from
taking the lock to giving it up is one step there, and the points where it gives
it up (return to ring 3, `hlt` in `cpu_loop`, a blocked call) are where steps
end. `Smp` is the exception, because the pool works beside the lock: its steps
are single loads and stores. `Signal` sees of the scheduler only what it does to
one thread, `Pipe` of a signal only that it ends a process, `Sock` of a
connection only what `Tcp` lets a socket see of it.

`Process`, `Signal`, `Pipe`, `Sock` and `Fat` have a variable that `Init` chooses and
nothing changes (`setup`; `prog` in `Signal`): which calls the programs make and how many
of what there are. So one run holds several small instances instead of one large
one.

A property that is a conjunction, like `Exclusive` of `Process`, has its parts as
definitions with a comment of their own; the type invariant `TypeOK` is one of
them in every module but `Bkl`, where it is proved.

### Bkl

A core is a stack of contexts: at the bottom ring 3 or the core's own loop, and
above it one context per system call, exception or interrupt that is being
served. A context has a kind and a place: about to try the
compare-and-exchange (`cas`), in the one-instruction window with interrupts open
(`spin`), in the kernel with interrupts off (`in`) or on (`ion`), in
`sched_on_tick` (`sched`), waiting for shootdown answers (`shoot`), halted, or in
ring 3 (`run`). `owner`, `depth` and `inTimer` are the code's variables; `saved`
is the local of `bkl_wait_interrupt`; `tlbPend` is the interrupt controller's
pending bit, `stale` the ghost the shootdown is for: cores that may still use a
translation that was taken away. `panicked` records a call of `panic`.

What the kernel does under the lock is left out, except that it may open
interrupts for a while (`net_give_way`), start a shootdown, leave through the
scheduler, or return.

### Process

`proc` is `proc_table`, with the fields the scheduler reads. An address space is
named by the pid it was made for and `refs` counts its holders. `current`, `on`,
`cr3` and `mode` are per core: the process it runs, the kernel stack it stands
on, the page tables it has loaded, and where it is. `on` outlives `current`: a
core stands on a blocked or dead process's stack until it jumps to its own.

`Wait`, `Join`, `Sleep` and `KeyWait` each have a first half, which may block,
and a second, when the process is picked up inside the call (`mode` is
`kernel`). `Clock` is `pit_tick_fast`, without the lock; `WakeSleepers` is
`process_tick`, with it. Of signals only the end of a process is here (`killed`),
and the suspended flag. `cpu_loop`'s return when nothing is alive and no window
manager runs is left out: the desktop is up.

### Signal

One program: its handlers (`disp`) are shared by its threads, everything else is
a thread's. `call`, `did` and `redo` describe the context the thread is in: the
call the program is making, whether it has had an effect, and whether the saved
instruction pointer is back on the `SYSCALL` instruction. A handler's frame keeps
the context it broke into, as the frame on the user's stack does. Blocking calls
come in the four kinds the code tells apart (put back whole; put back unless
part is done; cut short; not put back).

### Pipe

A pipe is a slot with its ring, the open flags and the two pids. A byte is named
by its writer and its number, so order, loss and duplication can be seen. A shell
is at one step of `run_pipe`: making pipes, starting stages, closing, killing,
waiting. Background jobs and redirections to files are left out.

### Smp

`pc` says where each core is, from `off` through the trampoline and `ap_entry` to
the idle loop, and inside `smp_run` for the one that has the lock. `job` is the
six globals of the pool; the owner fills them one store at a time, and cores that
woke for this job or an earlier one claim a share (`job_next`), read the function
and the argument, run it and count it (`job_done`). `core_halted` and the pending
interrupt are kept apart, so a core can be between its last look and its `hlt`.
`Late = TRUE` lets a core report in after `smp_init` has given it up.

### Vm

A space has its break, its holders and its regions; `pt` is the page table as a
map, `free` the frame bitmap, `segs` the table of segments. `tlb` is what a core
has cached of the tables it has loaded, filled by the processor and emptied by
`invlpg`, a change of tables or the shootdown. A fault is raised in one step and
handled in another, with anything in between. Kept small: the user window is four
pages, the main stack and the frames of the page tables themselves are left out
(that one is missing is a choice wherever a page is put in).
`Leftovers = TRUE` lets a program give back heap it has touched. An attach that
fails half way is one step: the pages it had put in are out again, and with
`Halfway = TRUE` any core that runs a thread of the program may have reached them
meanwhile and keeps what it cached, because nobody tells it (`shm.c:124`).

### Heap and Alloc

`blocks` is the block list in the order of the list, in units of 16 bytes; a block
has an address, a size and a free flag, with a header of its own in front. A
`kmalloc` that grows the heap takes several steps, one per call of the frame
allocator, because that has a lock of its own and others take and give back
frames meanwhile. `krealloc` is an allocation, a copy and a free, and holds two
blocks between them.

`Alloc` is what a caller may rely on: a block handed out is nobody else's memory
and no frame's, and what is held stays where and as long as it is. `Heap` is
shown to implement it (`Allocates`), with the blocks as their holders see them for
`held` and the frames of others for `taken`.

### Tcp

`conn[e]` is the connection of each end with the fields of the code: `snd_una`,
`snd_nxt`, `snd_max`, `rcv_nxt`, the two windows, the receive buffer with its head
and what is held past a gap, the transmit queue, timers as armed or not. `net` is
what is on its way; a fault loses, repeats or lets overtake a segment, or lets a
timer run out early. The bytes of the stream are numbered, and sequence numbers
wrap (`Mod`), so a byte at the wrong place shows. Checksums, addresses and ports
are left out: there is one connection.

### Sock

`sk` is the socket table, `conn`, `lsn` and `usk` the tables of the network under
it, `th` what each thread is doing. A call runs until it returns or sleeps; a
sleeping one keeps the index of its slot and goes on with whatever is there when
it wakes. Addresses, and the network not being up yet, are left out.

### Fat and Ext2

A call is the list of what the disk holds after each of its writes, in the order
of the code's writes; the call happens whole, or up to one of them, when the
drive is pulled out (`Fat`) or the power goes (`Ext2`). `kept` is what each file
ought to hold. A cell of a file holds the name of the file it was written for, so
a block in the wrong file shows.

`Fat` has the volume layer with its generation, the FAT and the exFAT bitmap,
entries with first cluster, size, valid length and "in a row", and the open files
with their copy of the entry, what they have counted of their clusters and their
cursor into the chain (`file_clus`). A rename that finds no room for the new entry
puts the old one back. One volume, files in its root. `Ext2` has the block
and inode bitmaps, the free counts, inodes with direct, single and double
indirect blocks, directories with `..`, and the open files with their copy of the
inode. One block group; paths go through the root and the directories in it.

## The runs

| Run | Instance | Shows |
|---|---|---|
| `bkl` | 3 cores, 4 contexts deep | `KernelExclusive`, `DepthCounts`, `NoPanic`, `NoStaleTranslation`, `TicksDoNotStack`; `ShootdownAnswered` under fairness |
| `proc` | 2 cores, 3 slots, 4 pids; spawn, exit, wait, kill, threads, join | `Exclusive` (one core to a process, one process to a stack), `SpacesHeld` (page tables live as long as they are held), `NoLostWake` |
| `proc_live` | waiters (2 slots, 3 pids), 4 runners on 2 cores, panes | `SleepEnds`, `KilledDies`, `NoStarvation` under fairness |
| `signal` | SIGSEGV and SIGALRM with handlers 3 deep over all calls; SIGKILL, SIGCONT, SIGTSTP with mask and suspension | `RedoneIffUndone`, `HandlersInOrder`, `DefaultsNotSleptOn`; `KillEnds` under fairness |
| `pipe` | 3 shells and 2 pipes of 2 bytes; 1 shell, 3 stages, commands that are missing | `Carried` (every byte once and in order), `NoStuck`, `NoLeak` |
| `smp` | 2 application processors, 2 jobs | `EachItsOwn` (own block and stack, every share once and for its own job); `JobEnds`, `AllJoin` under fairness |
| `vm` | 2 spaces, 2 cores, 2 frames, 2 regions, 1 segment of up to 2 pages | `TlbTrue`, `FramesHeld` (no frame twice, freed while mapped, or lost), `LaidOut` |
| `heap` | 3 owners, 5 frames of 6 units, sizes 1, 2 and 10 | `ListSound`, `NullOnlyIfFull`, and `Allocates`: it implements `Alloc` |
| `tcp` | 4 bytes, a window of 3, numbers modulo 20, 1 fault | `StreamKept`, `WholeAtEnd`; `Delivered` under fairness |
| `fat` | a FAT and an exFAT drive of 4 clusters, files of up to 3: two drives in turn with 2 open files and 2 calls; one drive with 2 open files and 3 calls; the exFAT drive with 1 and 5 | `HoldsClosed`, `FilesSound` |
| `ext2` | 8 blocks of 2 bytes, 3 inodes, 1 direct block, tables of 2, 5 calls | `Clean` (bitmaps, counts and names agree between calls), `HoldsOthers` (after a power cut), `ReadsOwn` |
| `sock` | 2 programs with 3 threads, 2 slots, 2 connections; readers, writers, watchers, servers, posters | `Accounted`, `ActsOnOwn`, `EndOrReason`; `WaitEnds` under fairness |

Why these bounds are enough to meet the interesting cases: three cores give a
holder, a waiter and a third that answers a shootdown; four contexts are a system
call, a fault in it, a timer in its window and one tick more. Three slots with
four pids let a slot be used again under a new pid. Four programs on two cores
are the fewest for which a fixed order of preference starves one. Three frames
let a handler break into a handler that broke into a call, with a third signal on
the way out. A ring of two with three bytes per writer goes round its end and
fills; three shells for two pipes make one of them fail. Two jobs let a core that
woke for the first claim in the second. Two frames make memory run out between a
fault and its handling, and make a frame that is freed too early be somebody
else's at once. The heap's sizes split a block with a rest of one unit, with no
room for a rest, and need two frames in a row. Four bytes through a window of
three slide the buffer, and starting at 17 and 19 modulo 20 makes both ends'
numbers wrap within the connection. Four clusters let an exFAT file of
three stop being a row in the third call; with five calls it is then shortened,
grown again, moved or removed, its cursor in any of the three. Two drives in one
place are mistaken for one another if a generation is not looked at. Eight blocks with one direct block and tables of two
take a file into its double indirect tables and the disk to its end. Two
programs, one with two threads, close a socket under a sleeping call and give its
connection to the other program (its slot only after the call has looked: `"reuse"`
below). A segment of TCP carries one byte, so resends that are cut differently and
overlap in part (`net.c:967`) are not met.

The runs of `Bkl` and `Process` check for deadlock. The other runs are not: there all
programs may have ended, or all the calls of the bound been made.

Each property of a run has a mutant in `PROJECT.json`: a definition of the model
changed as a plausible mistake in the code would change it, under which TLC finds
the property violated.

### What the runs do not bring about

Some sequences lead the code where a property no longer holds. They are in the
models behind constants, so that the rest can be checked without them and each
can be looked at with them. With the constant set as given, TLC shows the
property violated.

| Constant | Brings about | Then fails |
|---|---|---|
| `Late = TRUE` (`Smp`) | a core reports in after `smp_init` gave it up, and takes the next core's block and stack (`smp.c:357`) | `OwnBlock` of `EachItsOwn` |
| `Leftovers = TRUE` (`Vm`) | the break is moved down; its pages stay in the tables, in what `vmm.c` calls a guard (`process.c:1397`) | `GapIsGuard` of `LaidOut` |
| `Halfway = TRUE` (`Vm`) | an attach fails half way after another core reached its pages (`shm.c:124`) | `TlbTrue` |
| `"two fds"` in `Risky` (`Fat`) | two open files on one file, each with its own copy of the entry | `ReadsBack` of `FilesSound` |
| `"stale"` (`Fat`) | a rename on the new drive changes an open file of the old one: `same_file` does not compare the generation (`vfs.c:60`) | `HoldsClosed` |
| `"eject"` (`Fat`) | `vol_eject` with a file written to and not closed (`vol.c:347`) | `HoldsClosed` |
| `"length"` (`Fat`) | an exFAT rename of a file whose valid length is less than its size | `HoldsClosed` |
| `"replug"` (`Fat`, with a setup of 1 fd, 2 plugs and 4 calls) | a drive is used again after it was pulled out in the middle of a call: an entry may lead to clusters that were freed before it was written | `HoldsClosed` |
| `"ftruncate"`, `"unlink"` (`Ext2`) | another open file keeps its copy of an inode that was cut or freed; `vfs_truncate` refreshes the copies, `vfs_ftruncate` and `vfs_unlink` do not (`vfs.c:259`, `vfs.c:389`) | `ReadsOwn`; `BlocksOnce` of `Clean` |
| `"full"` (`Ext2`) | making a file or directory on a full disk: the parent keeps a link or a block (`ext2.c:1098`) | `BlocksOnce`, `CountsTrue` of `Clean` |
| `"inside"` (`Ext2`) | a directory moved into itself | `NamesTree` of `Clean` |
| `"bigdir"` (`Ext2`) | a power cut while a rename makes its directory grow past its direct blocks: the inode leads to a table that is not on the disk yet | `HoldsOthers` |
| `"reuse"` (`Sock`) | a slot closed and taken by the other program within one sleep of a call (`sock.c:121`) | `ActsOnOwn` |
| `"outlive"` (`Sock`) | a thread that outlives its program opens a socket that nothing closes | `ClosedWithProgram` of `Accounted` |

Two exceptions are stated inside the properties. `Delivered` excepts runs that
end in `ShutOut` for ever: the reader has made room and its window is open, but
what it said of that was lost, the sender still takes the window to be shut with
bytes to send, nothing is in flight, and there is no persist timer (`net.c:1238`).
A window that is only full, and opens when the reader reads, is no exception. `Accounted` excepts `Forgotten`: a handshake that gave up
before it was queued keeps its connection slot (`net.c:771`).

### Where the code and its words part

Met while modelling; the models have the behaviour. Some are excluded from the runs
by the constants above, the first two among them, and the properties are stated so
that they hold of the others. One property holds for
the instance and not for every one: `HoldsOthers` of `ext2`, because the lengths a
file is cut to (`Lens`) are whole blocks. With a length inside a block, the old
bytes of a file that is cut and made longer again (the last point below) break it
without any power cut.

- `shm_attach` that fails half way takes its pages out with `paging_detach` and
  tells no other core (`shm.c:124`), against the comment on `shootdown_if_shared`
  (`vmm.c:9`): a thread elsewhere may keep a translation to a frame of the segment
  (`Halfway`).
- `vfs_ftruncate` refreshes its own fd's copy of the inode only (`vfs.c:259`);
  `vfs_truncate` says why every fd must be (`vfs.c:236`). Another fd reads blocks
  that are free for other files (`"ftruncate"`).
- A suspended process that is killed is never scheduled and so never dies; only
  SIGCONT takes the suspension away (`process.c:664`, against `process.h:239`).
- `wake_parent_of` reads `waiting_for` without `wait_reason`, so a parent that
  waited for any child before and is now asleep is woken early by the end of a
  child (`process.c:1023`).
- `block_current` looks for a handler to run only after the sleep, so a signal
  with a handler that came before it is slept on (`process.c:765`, `signal.c:74`).
- A SIGCONT stays pending after it has acted, and continues a program that the
  task manager has suspended since (`signal.c:91`).
- A shell that gives up a pipeline closes pipes by index; one that both its
  stages had left is free by then and may be another shell's (`sh.c:1257`,
  against `process.h:201`). A stage of that pipeline still has the index.
- A thread copies its creator's stream handles and may outlive the program that
  closes them (`process.c:1296`).
- `signal_set_handler` forgets an ignored signal for the calling thread only
  (`signal.c:133`), although the handler is the whole program's. With two threads,
  one that takes the ignoring away leaves what arrived meanwhile pending for the
  other, and it fires after all, which the comment at `signal.c:130` means to
  prevent: `IgnoredStaysIgnored` of `HandlersInOrder` and `DefaultsNotSleptOn` then
  fail. They are checked and proved for a program of one thread.
- `process_notify_exit` reaps a process without a parent while the core stands on
  its stack, which the comment on `proc_reap` forbids; `StackExclusive` shows why
  nothing comes of it: nobody can take the slot before the core is off the stack,
  because it holds the lock.
- After a timeout the FIN may be sent before the bytes that the timer took back
  are (`net.c:490` says it goes after the last queued byte); the receiver does not
  take it early, as `WholeAtEnd` shows.
- A connection whose death was noted before reads as the end of the stream
  (`sock.c:355`), and so does one that times out in the poll of the call itself; the
  reason is there to be asked for, in the second case only once `refresh` has looked
  again. Only a reset in that poll is told at once. One that opened and died before anybody looked
  is reported as a failed connect, and what it carried is lost.
- A FAT rename drops the old entries before it writes the new (`fatfs.c:1252`):
  pulled out between, the file has no name. A truncate frees clusters before the
  entry says so. On a full exFAT volume a reservation that fails, and an unlink of
  a file with unsynced clusters, leave clusters marked that no file has.
- On ext2, inodes and entries are on the disk before the bitmaps (the models end
  with the power cut: what a mount makes of such bitmaps is not looked at); a file
  cut and made longer again shows its old bytes within the last block.

### Fairness

`Bkl`: a core executes its next instruction and takes an interrupt that is
pending and enabled. Nothing is assumed of who wins the lock, and
`ShootdownAnswered` needs nothing: the waiting cores answer from their windows.

`Process`: a core in the kernel goes on (weak fairness); the clock ticks; and a
core whose tick, halt or timer handler keeps finding the lock free gets it in the
end (strong fairness). The last is an assumption on the hardware and the load,
not something the code ensures: the lock is a compare-and-exchange without a
queue, and the application processors' ticks give up if it is taken. Programs
owe nothing: no system call is assumed to be made.

`Signal`: a tick comes, a runnable thread is picked up, a woken call goes on.

`Smp`: a core that has begun something goes on, and a core in `hlt` with a wake-up
pending leaves it (`Roused`). Nothing is assumed of the lock or of timer ticks
(`Ticked` is not fair), so `AllJoin` rests on the one interrupt of
`smp_start_scheduling` alone.

`Tcp`: what the network has and does not lose it delivers, an armed timer runs
out, and B's program accepts and reads. The faults are bounded, so loss does not
go on for ever.

`Sock`: a sleeping call wakes (the code sleeps for 10 ms at a time) and a
handshake is answered or given up.

## What is proved

Each `...Proofs` module proves that the properties below hold of every instance:
any finite sets of cores, slots, pids, threads, shells, pages, frames, regions,
segments, owners, sockets, connections and ports, any bounds. The assumptions on the constants are those of the modules
(`...Assumption`), plus the six named here. In each, one lemma per action shows
that it keeps the inductive invariant, and what the helpers of the model do is
stated once, in the lemmas before them.

| Theorem | States | Assuming |
|---|---|---|
| `LockInvariant`, `BklTypeOK`, `BklKernelExclusive`, `BklDepthCounts`, `BklNoPanic`, `BklTicksDoNotStack`, `BklNoStaleTranslation` | the invariants of run `bkl` | - |
| `ProcessInvariant`, `ProcessExclusive`, `ProcessSpacesHeld`, `ProcessNoLostWake` | those of `proc` | - |
| `SmpPool`, `SmpShares` | every share is run in the job it was claimed in, and what is over was run whole | - |
| `SmpEachItsOwn` | `EachItsOwn` of `smp` | `~Late` |
| `SignalInvariant`, `SignalRedoneIffUndone`, `SignalHeld` | `RedoneIffUndone` of `signal`; masks follow handlers | - |
| `SignalHandlersInOrder`, `SignalDefaultsNotSleptOn` | the other two of `signal` | `OneThread` |
| `PipeWiring`, `PipeNoStuck`, `PipeNoLeak`, `PipeCarried` | those of `pipe` | `OneFails` |
| `VmInvariant`, `VmLaidOut`, `VmFramesHeld` | `LaidOut` and `FramesHeld` of `vm` | `~Leftovers` |
| `VmTlbTrue` | `TlbTrue` of `vm` | `~Leftovers`, `~Halfway` |
| `HeapInvariant`, `HeapListSound`, `HeapNullOnlyIfFull`, `HeapAllocates` | the properties of `heap`, the refinement of `Alloc` included | - |
| `SockInvariant`, `SockAccounted`, `SockActsOnOwn`, `SockEndOrReason` | those of `sock` but for liveness | `Risky = {}` |

The six assumptions exclude what the section on what the runs do not bring about
and the list after it describe: a core that reports in late (`~Late`), heap given
back that was touched (`~Leftovers`), pages of an attach that is undone being
reached meanwhile by another core (`~Halfway`), a change of handler that another
thread has a signal pending for (`OneThread`), a command that is missing while other shells
make pipes, where closing by index hits the wrong pipe (`OneFails`: in a setup
with missing commands there is one shell), and a socket slot given out again under
a sleeping call, or a socket opened by a thread whose program has ended
(`Risky = {}`). The runs make the same ones.

**Bkl.** A core that returns from a context gives back one level of the lock, and
whether that was its last depends on all the contexts below; so `IInv` says, for
every core, that the stack has the shape the entry paths give it (a program or a
loop at the bottom and only there, a system call directly on its program), that
the contexts inside the kernel are the innermost ones and `depth` is their number
(`Counted`), that `depth` is positive exactly at the owner, and that the depth
`bkl_wait_interrupt` remembers is at most one. `TicksDoNotStack` adds where
`inTimer` is set and which contexts may be above such a one; `NoStaleTranslation`
that, while a core waits for its shootdown, the answers counted, the pending
interrupts and the cores still stale add up to the other cores.

**Process.** `PInv` adds to the three properties what each core stands on in each
mode (`Cpus`), that one core at a time has the lock (`OneLock`), and what the
identities in the table mean (`Ids`): pids and spaces are handed out once, and a
dead process that was no thread has given up its space. The count of a space's
holders needs the last two: it is kept only because whoever ends is counted out
once.

**Smp.** `JInv` follows a job through the six globals: a core between its reads
has claimed in the job that is described (`Described`), and the shares claimed,
run and counted add up (`Shared`), although a core may have woken for an earlier
job. `OwnInv` says who has which block and stack during bring-up.

**Signal.** `Good` says of one thread that what it was doing, in its context and in
every frame on its stack, is whole: a call put back has done nothing, one that is
not has. `Kept` and `Wakeful` say of a thread alone in its program that a signal
it ignores is not pending and that it does not sleep on one whose default acts.

**Pipe.** The processes and shells know a pipe by an index that is used again, so
`Wiring` says which shells own which slots (`Owned`, `Links`), that an end is open
exactly while its process lives or its shell has still to start it (`EndsOK`,
`Seats`), and what a waiting shell waits for. `Carried` needs a second invariant
over it, `Flows`: the ring holds what its writer has written and its reader has
not read, in order, at the positions of head and tail.

**Vm.** The other cores are told of a change only if a space has more than one
holder, so `TlbTrue` needs `Counted`: the cores in a space and its threads that
ended and were not reaped are among its holders. A mapping, or a page in one, is
put in without telling anybody, so it also needs the page to have been absent:
`Laid`, which says that outside the heap and the mappings there is nothing, is
`LaidOut` of one space. `Unheld` and `Faulting` say what a space without holders
and a core with a fault are. `FramesHeld` needs a second invariant over it, `FInv`:
`Once` says where every frame is, with each space's own pages and each segment's
frames as parameters, so that one lemma each serves the steps that take frames, make
a segment, and give up pages and segments; `MapsCounted` and `SegIds` that a segment
counts its regions, by an id no other segment ever had; and `StacksOwn` that a
thread's stack, whose frames are freed when it ends, is no shared memory. Whose page
is freed is decided by the regions it lies in, which is why `Laid` is needed.

**Heap.** `HInv` says that the blocks of the list are in order, no two of them
overlap and no two free ones could be joined (`Ordered`), that their units are
exactly those of the frames the heap has been given, that the used blocks and the
places the owners hold are the same, one to one (`Holding`), and that while
`grow_heap` runs nothing free is large enough for the `kmalloc` that is growing, and
the block of a `krealloc` is still where it was (`Growing`). The argument turns on a
relation between lists, `Cut`: the second is the first with one block cut in two.
`split` makes a cut; `coalesce` and the end of `grow_heap` undo one, so the same
lemmas serve all three. After joining with the next and the previous block there is nothing further to
join, which is why one look to each side is enough in `kfree`. For the refinement, every step
is one of five as `Alloc` sees it: nothing happens, an owner gets a block, an owner
loses one, or somebody else takes or gives back a frame.

**Sock.** The four tables refer to each other by number, and only together say who
has what; `TInv` says it. A socket that is used has what its state says (`SockOK`),
no two have the same (`Apart`); the connections in a listener's queue are there once,
up or dead, and are for the program that listens (`QueueOK`), those half open likewise
(`Halves`); and whatever is in use is some socket's or queue's (`AllHeld`). Most
steps do not change who has what, and one lemma (`TouchKeeps`) serves them; one more
serves the steps that give a socket something free (`SeatKeeps`), and each of
accepting, closing and the steps of a handshake has its own. `SInv` adds what a call
that sleeps finds when it wakes: its socket closed, or one of its own program in a
state the call can go on from (`Sleepers`). This is where `Risky = {}` is
used: `wait_until` looks only whether the slot is used. `EndOrReason` needs
`Reasons`, that a connection has a reason only when it is dead, so that
`refresh`, which `sock_recv` begins with, has put it into the socket; of a
connection that dies in the poll of the call itself, the next `refresh` will
(`Explained`).

Left to TLC: liveness (`ShootdownAnswered`, `SleepEnds`, `KilledDies`,
`NoStarvation`, `KillEnds`, `JobEnds`, `AllJoin`, `Delivered`, `WaitEnds`), which
the prover does not reach; what the folds over files and disks of `Fat` and `Ext2`
compute, and so their properties, which would need induction over data; and the
invariants of `Tcp`: an inductive one would have to say, of every segment that is
delayed or doubled in the network, what the windows of both ends were when it was
sent, and is not worked out.

## Not modelled

Most of the repository's lines are not control that a model checker could reach:
font and root-certificate tables, drawing and layout (`wm.c`, `gfx/`, librast,
libtext), device registers (drivers), cryptography and byte-level protocol
parsing (TLS, HTTP, X.509, DNS, DHCP), the browser, the file manager and the other
applications, ported programs and build tools. They are listed in `PROJECT.json`
with the reason. In the parts that are modelled: IDT setup, boot, argument
passing, the shell's parser and job table, redirection to files, the main stack
and the frames of page tables, ARP and IP, FAT subdirectories and long names,
ext2's further block groups, times and permissions.

## Plan

Theorems to come: the invariants of `Tcp`.

Models to come: an abstract life of a process (spawned, running or not, ended,
reaped) that `Process` implements; threads in `Pipe`; the C library's locks and
condition variables over the kernel's thread calls.
