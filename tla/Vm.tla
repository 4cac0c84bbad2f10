--------------------------------- MODULE Vm ---------------------------------
(***************************************************************************)
(* The memory of programs: address spaces with their regions and page      *)
(* tables (mm/vmm.c, mm/paging.c), the break (process_sbrk), shared        *)
(* segments (kernel/shm.c), the frames they are built from (mm/pmm.c), and *)
(* what each core has cached of a page table.                              *)
(*                                                                         *)
(* Every handler runs under the kernel lock and is one step.  What happens *)
(* without it are the program's own accesses: the processor fills its TLB  *)
(* from the tables, or raises a fault, and another thread may get into the *)
(* kernel before the fault is handled.                                     *)
(*                                                                         *)
(* The user window is scaled down: the heap starts at page HeapBase and    *)
(* grows up, mappings are placed down from MmapTop.  The stack above them  *)
(* is left out: its pages are built as the heap's are, and nothing moves   *)
(* it.  The frames of the page tables themselves are left out; that one    *)
(* may be missing is a choice wherever a page is put in.                   *)
(***************************************************************************)
EXTENDS Integers, Sequences, FiniteSets, FiniteSetsExt

CONSTANTS
    Spaces,     \* address spaces, one per program
    Cores,
    NoSpace,    \* a core on the kernel's own tables
    MmapTop,    \* USER_MMAP_TOP, as a page number
    NFrames,    \* frames in the machine
    NRegions,   \* VM_REGIONS_MAX
    NSegs,      \* SHM_SEGMENTS
    MaxId,      \* bound: segments made
    MaxRefs,    \* bound: holders of each space, a program and its threads
    MaxLen,     \* bound: pages of one mapping or one sbrk, for each space
    MaxSeg,     \* bound: pages of a segment
    MapProts,   \* the protections mappings are made with, subsets of Rights
    Prots,      \* and those they are given later
    Kinds,      \* the kinds of access that fault in each space, of "r", "w" and "x"
    Leftovers,  \* whether programs give back heap they have touched
    Halfway,    \* whether a core caches a page of a segment whose attaching then fails
    Keys        \* the keys segments are asked for by

Rights == {"w", "x"}
HeapBase == 1
Pages == HeapBase..(MmapTop - 1)
Frames == 1..NFrames
Private == 0                    \* IPC_PRIVATE, and the key of a removed segment

ASSUME VmAssumption ==
    /\ NoSpace \notin Spaces /\ IsFiniteSet(Spaces) /\ IsFiniteSet(Cores)
    /\ MmapTop \in Nat /\ MmapTop > HeapBase
    /\ NFrames \in Nat /\ NRegions \in Nat /\ NSegs \in Nat /\ MaxId \in Nat
    /\ MaxRefs \in [Spaces -> Nat] /\ MaxLen \in [Spaces -> Nat] /\ MaxSeg \in Nat
    /\ MapProts \subseteq Prots /\ Prots \subseteq SUBSET Rights
    /\ Kinds \in [Spaces -> SUBSET ({"r"} \cup Rights)]
    /\ Leftovers \in BOOLEAN /\ Halfway \in BOOLEAN

VARIABLES
    as,         \* as[s]: brk, refs (0: there is no such space) and regions vm
    pt,         \* pt[s][v]: frame and rights of page v, or Absent
    free,       \* pmm.c: the frames whose bit is set
    segs,       \* shm.c: segs
    nextId,     \* shm.c: next_id
    dead,       \* dead[s]: ended threads that still hold the space
    run,        \* run[c]: the space core c has loaded
    tlb,        \* tlb[c][v]: what core c has cached of page v, or Absent
    fault       \* fault[c]: a fault raised at core c and not handled yet

vars == <<as, pt, free, segs, nextId, dead, run, tlb, fault>>

Absent == [frame |-> 0, prot |-> {}]
NoRegion == [base |-> 0, len |-> 0, prot |-> {}, shm |-> 0, stack |-> FALSE]
NoSeg == [used |-> FALSE, id |-> 0, key |-> Private, removed |-> FALSE,
          frames |-> <<>>, maps |-> 0]
NoFault == [page |-> 0, kind |-> "r", present |-> FALSE]
NoTlb == [v \in Pages |-> Absent]
NoAs == [brk |-> HeapBase, refs |-> 0, vm |-> [i \in 1..NRegions |-> NoRegion]]

Span(r) == r.base..(r.base + r.len - 1)
Regions == 1..NRegions
Used(s) == {i \in Regions : as[s].vm[i].base # 0}

----------------------------------------------------------------------------
(* What the handlers are made of.                                          *)

\* flags_of: present and user are implied; no right to execute is PAGE_NX.
FlagsOf(prot) == prot

\* vmm_mmap_floor
MmapFloor(s) ==
    IF Used(s) = {} THEN MmapTop ELSE Min({as[s].vm[i].base : i \in Used(s)})

\* place: walking down from the top past every mapping in the way ends at the
\* highest place that is free, or below the break.
Place(s, len) ==
    LET At(v) == /\ v >= as[s].brk + 1 /\ v + len <= MmapTop
                 /\ \A i \in Used(s) : v..(v + len - 1) \cap Span(as[s].vm[i]) = {}
    IN  IF \E v \in Pages : At(v) THEN Max({v \in Pages : At(v)}) ELSE 0

\* vmm_reserve: the slot and the place, where there are both.
CanReserve(s, len) == Used(s) # Regions /\ Place(s, len) # 0
Reserved(s, len, prot, id, stack) ==
    [as EXCEPT ![s].vm[Min(Regions \ Used(s))] =
        [base |-> Place(s, len), len |-> len, prot |-> prot, shm |-> id, stack |-> stack]]

\* region_at
RegionAt(s, v) == {i \in Used(s) : v \in Span(as[s].vm[i])}

\* pmm_alloc_frame: the lowest bit that is set.
AllocFrame == Min(free)

\* n calls of it, one after the other.
Lowest(n) == [i \in 1..n |-> CHOOSE f \in free : Cardinality({g \in free : g < f}) = i - 1]

\* The pages of a span go out of a table; paging_unmap gives their frames
\* back as well, paging_detach does not.
Cleared(s, span) == [pt EXCEPT ![s] = [v \in Pages |-> IF v \in span THEN Absent ELSE @[v]]]
FramesIn(s, span) == {pt[s][v].frame : v \in span} \ {0}

\* Mutant: another core is told only if two others hold the space.
FewShootdown(c, s, span) ==
    tlb' = [d \in Cores |->
        IF d # c /\ as[s].refs > 2 THEN NoTlb
        ELSE IF d = c THEN [v \in Pages |-> IF v \in span THEN Absent ELSE tlb[d][v]]
        ELSE tlb[d]]

\* invlpg of the span on this core, and shootdown_if_shared: every other core
\* forgets everything, if somebody else holds the space.
Shootdown(c, s, span) ==
    tlb' = [d \in Cores |->
        IF d # c /\ as[s].refs > 1 THEN NoTlb
        ELSE IF d = c THEN [v \in Pages |-> IF v \in span THEN Absent ELSE tlb[d][v]]
        ELSE tlb[d]]

----------------------------------------------------------------------------
(* Segments.                                                               *)

\* How many of the regions I of space s map the segment in slot k.
Mapping(s, I, k) == Cardinality({i \in I : as[s].vm[i].shm = segs[k].id + 1})

\* shm_dropped for each of the regions I: so many mappings fewer, and a removed
\* segment goes with its last one.
Dropped(s, I) ==
    [k \in 1..NSegs |->
        LET n == Mapping(s, I, k)
            left == IF segs[k].maps > n THEN segs[k].maps - n ELSE 0
        IN  IF ~segs[k].used \/ n = 0 THEN segs[k]
            ELSE IF left = 0 /\ segs[k].removed THEN NoSeg
            ELSE [segs[k] EXCEPT !.maps = left]]

\* What seg_free gives back, going from S to T.
SegFrames(S) == UNION {{S[k].frames[i] : i \in DOMAIN S[k].frames} : k \in 1..NSegs}
SegFreed(S, T) == SegFrames(S) \ SegFrames(T)

\* shm_get that makes a segment: every frame now, or none.
ShmGet(key, n) ==
    /\ nextId <= MaxId
    /\ key = Private \/ ~\E k \in 1..NSegs : segs[k].used /\ ~segs[k].removed /\ segs[k].key = key
    /\ \E k \in 1..NSegs : ~segs[k].used
    /\ Cardinality(free) >= n
    /\ LET k == Min({j \in 1..NSegs : ~segs[j].used})
           fs == Lowest(n)
       IN  /\ segs' = [segs EXCEPT ![k] = [used |-> TRUE, id |-> nextId, key |-> key,
                            removed |-> FALSE, frames |-> fs, maps |-> 0]]
           /\ free' = free \ {fs[i] : i \in 1..n}
    /\ nextId' = nextId + 1
    /\ UNCHANGED <<as, pt, dead, run, tlb, fault>>

\* The other cores in the space of core c: they run programs meanwhile.
Others(c) == {d \in Cores \ {c} : run[d] = run[c] /\ fault[d] = NoFault}

\* What the cores have cached when i pages from page at on were put in for core
\* c, reached by the cores seen, and taken out with an invlpg on c.
LeftIn(c, at, i, fs, prot, seen) ==
    [d \in Cores |-> [v \in Pages |->
        IF v \notin at..(at + i - 1) THEN tlb[d][v]
        ELSE IF d \in seen /\ tlb[d][v] = Absent THEN [frame |-> fs[v - at + 1], prot |-> prot]
        ELSE IF d = c THEN Absent ELSE tlb[d][v]]]

\* shm_attach: the region, then the pages one by one; if a table is missing
\* what was put in is taken out again, and this core forgets it.  No other is
\* told: those that reached a page meanwhile (seen) keep it.
ShmAttach(c, k, prot) ==
    LET s == run[c]
        n == Len(segs[k].frames)
        at == Place(s, n)
    IN  /\ s # NoSpace /\ fault[c] = NoFault
        /\ segs[k].used /\ ~segs[k].removed
        /\ CanReserve(s, n)
        /\ \/ /\ as' = Reserved(s, n, prot, segs[k].id + 1, FALSE)
              /\ pt' = [pt EXCEPT ![s] = [v \in Pages |->
                     IF v \in at..(at + n - 1)
                     THEN [frame |-> segs[k].frames[v - at + 1], prot |-> FlagsOf(prot)]
                     ELSE @[v]]]
              /\ segs' = [segs EXCEPT ![k].maps = @ + 1]
              /\ UNCHANGED tlb
           \/ \E i \in 0..(n - 1), seen \in SUBSET Others(c) :
              /\ seen # {} => Halfway
              /\ pt' = Cleared(s, at..(at + i - 1))
              /\ tlb' = LeftIn(c, at, i, segs[k].frames, FlagsOf(prot), seen)
              /\ UNCHANGED <<as, segs>>
        /\ UNCHANGED <<free, nextId, dead, run, fault>>

\* shm_ctl(IPC_RMID)
ShmCtl(k) ==
    /\ segs[k].used
    /\ segs' = [segs EXCEPT ![k] = IF @.maps = 0 THEN NoSeg
                                   ELSE [@ EXCEPT !.removed = TRUE, !.key = Private]]
    /\ free' = free \cup SegFreed(segs, segs')
    /\ UNCHANGED <<as, pt, nextId, dead, run, tlb, fault>>

----------------------------------------------------------------------------
(* Mappings and the break.                                                 *)

InCall(c) == run[c] # NoSpace /\ fault[c] = NoFault

\* vmm_mmap: no pages.
Mmap(c, n, prot) ==
    /\ InCall(c) /\ CanReserve(run[c], n)
    /\ as' = Reserved(run[c], n, prot, 0, FALSE)
    /\ UNCHANGED <<pt, free, segs, nextId, dead, run, tlb, fault>>

\* vmm_munmap of region i; for a shared one vmm_munmap_shared.
UnmapRegion(c, s, i) ==
    LET r == as[s].vm[i]
    IN  /\ as' = [as EXCEPT ![s].vm[i] = NoRegion]
        /\ pt' = Cleared(s, Span(r))
        /\ Shootdown(c, s, Span(r))
        /\ IF r.shm # 0
           THEN /\ segs' = Dropped(s, {i})
                /\ free' = free \cup SegFreed(segs, segs')
           ELSE /\ free' = free \cup FramesIn(s, Span(r))
                /\ UNCHANGED segs

Munmap(c, i) ==
    /\ InCall(c) /\ i \in Used(run[c])
    /\ UnmapRegion(c, run[c], i)
    /\ UNCHANGED <<nextId, dead, run, fault>>

\* Mutant: the pages that are there keep their rights.
LazyMprotect(c, i, prot) ==
    /\ InCall(c) /\ i \in Used(run[c])
    /\ as' = [as EXCEPT ![run[c]].vm[i].prot = prot]
    /\ UNCHANGED <<pt, tlb, free, segs, nextId, dead, run, fault>>

\* vmm_mprotect
Mprotect(c, i, prot) ==
    /\ InCall(c) /\ i \in Used(run[c])
    /\ LET s == run[c]
           span == Span(as[s].vm[i])
       IN  /\ as' = [as EXCEPT ![s].vm[i].prot = prot]
           /\ pt' = [pt EXCEPT ![s] = [v \in Pages |->
                  IF v \in span /\ @[v] # Absent THEN [@[v] EXCEPT !.prot = FlagsOf(prot)]
                  ELSE @[v]]]
           /\ Shootdown(c, s, span)
    /\ UNCHANGED <<free, segs, nextId, dead, run, fault>>

\* process_sbrk upwards: as far as one page below the lowest mapping.
Grow(c, n) ==
    /\ InCall(c)
    /\ as[run[c]].brk + n <= MmapFloor(run[c]) - 1
    /\ as' = [as EXCEPT ![run[c]].brk = @ + n]
    /\ UNCHANGED <<pt, free, segs, nextId, dead, run, tlb, fault>>

\* process_sbrk downwards: the break moves, the pages stay.
Shrink(c, n) ==
    /\ InCall(c)
    /\ n <= as[run[c]].brk - HeapBase
    /\ Leftovers \/ \A v \in (as[run[c]].brk - n)..(as[run[c]].brk - 1) : pt[run[c]][v] = Absent
    /\ as' = [as EXCEPT ![run[c]].brk = @ - n]
    /\ UNCHANGED <<pt, free, segs, nextId, dead, run, tlb, fault>>

----------------------------------------------------------------------------
(* Accesses and faults.                                                    *)

Allows(e, kind) == e # Absent /\ (kind = "r" \/ kind \in e.prot)

\* The processor remembers what the tables say.  It may do so for any page at
\* any time; here for all of them, which is the worst for what comes later.
Walk(c) ==
    /\ InCall(c)
    /\ tlb' = [tlb EXCEPT ![c] = [v \in Pages |-> IF @[v] # Absent THEN @[v] ELSE pt[run[c]][v]]]
    /\ UNCHANGED <<as, pt, free, segs, nextId, dead, run, fault>>

\* An access the tables do not allow, with the bit that says whether the page
\* was there.
Trap(c, v, kind) ==
    /\ InCall(c)
    /\ ~Allows(pt[run[c]][v], kind) /\ ~Allows(tlb[c][v], kind)
    /\ fault' = [fault EXCEPT ![c] =
           [page |-> v, kind |-> kind, present |-> pt[run[c]][v] # Absent]]
    /\ UNCHANGED <<as, pt, free, segs, nextId, dead, run, tlb>>

\* The rights vmm_fault would build page v with; the empty set if the page is
\* none that is built on demand.
BuildsAs(s, v, kind) ==
    IF v >= HeapBase /\ v < as[s].brk THEN {{"w", "x"}}
    ELSE {as[s].vm[i].prot : i \in {j \in RegionAt(s, v) :
              /\ as[s].vm[j].shm = 0
              /\ kind = "r" \/ kind \in as[s].vm[j].prot}}

\* vmm_fault on a page that was not there, where it returns 1: a frame is put
\* in, unless somebody did so since.
Build(s, v, kind) ==
    \E prot \in BuildsAs(s, v, kind) :
        \/ /\ pt[s][v] # Absent
           /\ UNCHANGED <<pt, free>>
        \/ /\ pt[s][v] = Absent /\ free # {}
           /\ pt' = [pt EXCEPT ![s][v] = [frame |-> AllocFrame, prot |-> FlagsOf(prot)]]
           /\ free' = free \ {AllocFrame}

\* isr_handler, where vmm_fault answers 1.
Fault(c) ==
    /\ fault[c] # NoFault /\ ~fault[c].present
    /\ Build(run[c], fault[c].page, fault[c].kind)
    /\ tlb' = [tlb EXCEPT ![c][fault[c].page] = Absent]
    /\ fault' = [fault EXCEPT ![c] = NoFault]
    /\ UNCHANGED <<as, segs, nextId, dead, run>>

\* vmm_fault answers 0 (also for want of a frame) and the program has a
\* handler for SIGSEGV; without one it ends, which is Exit.
Refused(c) ==
    /\ fault[c] # NoFault
    /\ fault' = [fault EXCEPT ![c] = NoFault]
    /\ \/ fault[c].present
       \/ BuildsAs(run[c], fault[c].page, fault[c].kind) = {}
       \/ pt[run[c]][fault[c].page] = Absent
    /\ UNCHANGED <<as, pt, free, segs, nextId, dead, run, tlb>>

\* vmm_touch_write, for a page the kernel is about to write.
TouchWrite(c, v) ==
    /\ InCall(c) /\ pt[run[c]][v] = Absent
    /\ Build(run[c], v, "w")
    /\ tlb' = [tlb EXCEPT ![c][v] = Absent]
    /\ UNCHANGED <<as, segs, nextId, dead, run, fault>>

----------------------------------------------------------------------------
(* Programs and threads, and where they run.                               *)

OnCores(s) == Cardinality({c \in Cores : run[c] = s})

\* vmm_space_new
SpaceNew(s) ==
    /\ as[s].refs = 0
    /\ as' = [as EXCEPT ![s] = [NoAs EXCEPT !.refs = 1]]
    /\ UNCHANGED <<pt, free, segs, nextId, dead, run, tlb, fault>>

\* resume_process: the tables are loaded, and with them the TLB is empty.
Resume(c, s) ==
    /\ run[c] = NoSpace
    /\ OnCores(s) < as[s].refs - dead[s]
    /\ run' = [run EXCEPT ![c] = s]
    /\ tlb' = [tlb EXCEPT ![c] = NoTlb]
    /\ UNCHANGED <<as, pt, free, segs, nextId, dead, fault>>

\* The process blocks or is taken off the core.
Leave(c) ==
    /\ InCall(c)
    /\ run' = [run EXCEPT ![c] = NoSpace]
    /\ tlb' = [tlb EXCEPT ![c] = NoTlb]
    /\ UNCHANGED <<as, pt, free, segs, nextId, dead, fault>>

\* process_thread_create: a holder more, and its stack as a mapping.
ThreadCreate(c, n) ==
    /\ InCall(c) /\ as[run[c]].refs < MaxRefs[run[c]]
    /\ CanReserve(run[c], n)
    /\ as' = [Reserved(run[c], n, {"w"}, 0, TRUE) EXCEPT ![run[c]].refs = @ + 1]
    /\ UNCHANGED <<pt, free, segs, nextId, dead, run, tlb, fault>>

\* Mutant: the pages of a space are freed without looking for shared memory.
GreedyUnref(s) ==
    IF as[s].refs > 1
    THEN /\ as' = [as EXCEPT ![s].refs = @ - 1]
         /\ UNCHANGED <<pt, segs, free>>
    ELSE /\ as' = [as EXCEPT ![s] = NoAs]
         /\ pt' = [pt EXCEPT ![s] = NoTlb]
         /\ segs' = Dropped(s, Used(s))
         /\ free' = free \cup SegFreed(segs, segs') \cup FramesIn(s, Pages)

\* vmm_space_unref: with the last holder shared memory is detached first, then
\* paging_free_address_space frees every page it finds.
Unref(s) ==
    IF as[s].refs > 1
    THEN /\ as' = [as EXCEPT ![s].refs = @ - 1]
         /\ UNCHANGED <<pt, segs, free>>
    ELSE LET shared == {i \in Used(s) : as[s].vm[i].shm # 0}
             own == Pages \ UNION {Span(as[s].vm[i]) : i \in shared}
         IN  /\ as' = [as EXCEPT ![s] = NoAs]
             /\ pt' = [pt EXCEPT ![s] = NoTlb]
             /\ segs' = Dropped(s, shared)
             /\ free' = free \cup SegFreed(segs, segs') \cup FramesIn(s, own)

\* process_notify_exit for a program: off its tables, then one holder fewer.
\* Also the end of a program whose fault was refused.
Exit(c) ==
    /\ run[c] # NoSpace
    /\ as[run[c]].refs - dead[run[c]] >= 1
    /\ run' = [run EXCEPT ![c] = NoSpace]
    /\ tlb' = [tlb EXCEPT ![c] = NoTlb]
    /\ fault' = [fault EXCEPT ![c] = NoFault]
    /\ Unref(run[c])
    /\ UNCHANGED <<nextId, dead>>

\* For a thread: its stack is unmapped while it is still the one running, and
\* its hold on the space stays until it is reaped.
ThreadExit(c, i) ==
    /\ run[c] # NoSpace
    /\ LET s == run[c]
           r == as[s].vm[i]
       IN  /\ i \in Used(s) /\ r.stack
           /\ as' = [as EXCEPT ![s].vm[i] = NoRegion]
           /\ pt' = Cleared(s, Span(r))
           /\ tlb' = [d \in Cores |-> IF d = c \/ as[s].refs > 1 THEN NoTlb ELSE tlb[d]]
           /\ free' = free \cup FramesIn(s, Span(r))
           /\ dead' = [dead EXCEPT ![s] = @ + 1]
    /\ run' = [run EXCEPT ![c] = NoSpace]
    /\ fault' = [fault EXCEPT ![c] = NoFault]
    /\ UNCHANGED <<segs, nextId>>

\* reap_dead_threads
Reap(s) ==
    /\ dead[s] > 0
    /\ dead' = [dead EXCEPT ![s] = @ - 1]
    /\ Unref(s)
    /\ UNCHANGED <<nextId, run, tlb, fault>>

----------------------------------------------------------------------------

Init ==
    /\ as = [s \in Spaces |-> NoAs]
    /\ pt = [s \in Spaces |-> NoTlb]
    /\ free = Frames
    /\ segs = [k \in 1..NSegs |-> NoSeg]
    /\ nextId = 1
    /\ dead = [s \in Spaces |-> 0]
    /\ run = [c \in Cores |-> NoSpace]
    /\ tlb = [c \in Cores |-> NoTlb]
    /\ fault = [c \in Cores |-> NoFault]

Lens(c) == IF run[c] = NoSpace THEN {} ELSE 1..MaxLen[run[c]]
KindsOf(c) == IF run[c] = NoSpace THEN {} ELSE Kinds[run[c]]

Calls(c) ==
    \/ \E n \in Lens(c) : ThreadCreate(c, n) \/ Grow(c, n) \/ Shrink(c, n)
    \/ \E n \in Lens(c), prot \in MapProts : Mmap(c, n, prot)
    \/ \E i \in Regions : Munmap(c, i)
    \/ \E i \in Regions, prot \in Prots : Mprotect(c, i, prot)
    \/ \E k \in 1..NSegs, prot \in MapProts : ShmAttach(c, k, prot)
    \/ \E v \in Pages : TouchWrite(c, v)

Runs(c) ==
    \/ Walk(c)
    \/ \E v \in Pages, kind \in KindsOf(c) : Trap(c, v, kind)
    \/ Fault(c) \/ Refused(c)
    \/ \E s \in Spaces : Resume(c, s)
    \/ Leave(c) \/ Exit(c)
    \/ \E i \in Regions : ThreadExit(c, i)

Next ==
    \/ \E c \in Cores : Calls(c) \/ Runs(c)
    \/ \E s \in Spaces : SpaceNew(s) \/ Reap(s)
    \/ \E key \in Keys, n \in 1..MaxSeg : ShmGet(key, n)
    \/ \E k \in 1..NSegs : ShmCtl(k)

Spec == Init /\ [][Next]_vars

----------------------------------------------------------------------------
(* Properties.                                                             *)

Entry == [frame : Frames \cup {0}, prot : SUBSET Rights]
Region == [base : {0} \cup Pages, len : Nat, prot : SUBSET Rights,
           shm : 0..(MaxId + 1), stack : BOOLEAN]

\* The variables have their types.
TypeOK ==
    /\ as \in [Spaces -> [brk : HeapBase..MmapTop, refs : Nat, vm : [Regions -> Region]]]
    /\ pt \in [Spaces -> [Pages -> Entry]]
    /\ free \subseteq Frames
    /\ \A k \in 1..NSegs : /\ segs[k].used \in BOOLEAN /\ segs[k].removed \in BOOLEAN
                            /\ segs[k].id \in 0..MaxId /\ segs[k].maps \in Nat
                            /\ segs[k].key \in Keys \cup {Private}
                            /\ segs[k].frames \in Seq(Frames)
    /\ nextId \in 1..(MaxId + 1)
    /\ dead \in [Spaces -> Nat]
    /\ run \in [Cores -> Spaces \cup {NoSpace}]
    /\ tlb \in [Cores -> [Pages -> Entry]]
    /\ fault \in [Cores -> [page : {0} \cup Pages, kind : {"r"} \cup Rights, present : BOOLEAN]]

\* The pages of space s that shared memory is behind.
SharedPages(s) == UNION {Span(as[s].vm[i]) : i \in {j \in Used(s) : as[s].vm[j].shm # 0}}
OwnPages(s) == {v \in Pages \ SharedPages(s) : pt[s][v] # Absent}

\* What a core has cached of a page table is what the table says: no core
\* reaches a page that was unmapped, writes one that was made read-only, or
\* trips over one that was made writable, once the call that did so is over.
\* The cores are told only if a space has more than one holder.
TlbTrue ==
    \A c \in Cores, v \in Pages : tlb[c][v] # Absent =>
        /\ run[c] # NoSpace
        /\ tlb[c][v] = pt[run[c]][v]

\* A frame is in one place: free, behind one page of one program, or in one
\* segment; and none is nowhere.
FramesOnce ==
    /\ \A s \in Spaces : \A v \in OwnPages(s) :
           /\ pt[s][v].frame \notin free \cup SegFrames(segs)
           /\ \A t \in Spaces : \A w \in OwnPages(t) :
                  pt[s][v].frame = pt[t][w].frame => <<s, v>> = <<t, w>>
    /\ free \cap SegFrames(segs) = {}
    /\ \A j, k \in 1..NSegs : j # k =>
           {segs[j].frames[i] : i \in DOMAIN segs[j].frames} \cap
           {segs[k].frames[i] : i \in DOMAIN segs[k].frames} = {}
    /\ Frames = free \cup SegFrames(segs)
                 \cup UNION {{pt[s][v].frame : v \in OwnPages(s)} : s \in Spaces}

\* A region that shares a segment has every page of it, in order, for as long
\* as it exists; the segment counts its regions, and is there while it has any
\* or has a name.
SegmentsHeld ==
    /\ \A s \in Spaces : \A i \in Used(s) : as[s].vm[i].shm # 0 =>
           \E k \in 1..NSegs :
               /\ segs[k].used /\ segs[k].id = as[s].vm[i].shm - 1
               /\ as[s].vm[i].len = Len(segs[k].frames)
               /\ \A v \in Span(as[s].vm[i]) :
                      pt[s][v].frame = segs[k].frames[v - as[s].vm[i].base + 1]
    /\ \A k \in 1..NSegs : segs[k].used =>
           /\ segs[k].maps = Cardinality({p \in Spaces \X Regions :
                  p[2] \in Used(p[1]) /\ as[p[1]].vm[p[2]].shm = segs[k].id + 1})
           /\ segs[k].removed => segs[k].maps > 0

\* No frame is used in two places, freed while it is mapped, or lost.
FramesHeld == FramesOnce /\ SegmentsHeld

\* Mappings do not overlap, the heap stays a page below them, and a page that
\* is built in a mapping has the rights the mapping has now.
Apart ==
    \A s \in Spaces : as[s].refs > 0 =>
        \A i \in Used(s) :
            /\ Span(as[s].vm[i]) \subseteq (as[s].brk + 1)..(MmapTop - 1)
            /\ \A j \in Used(s) : i # j => Span(as[s].vm[i]) \cap Span(as[s].vm[j]) = {}
            /\ \A v \in Span(as[s].vm[i]) :
                   pt[s][v] # Absent => pt[s][v].prot = FlagsOf(as[s].vm[i].prot)

\* Outside the heap and the mappings there is no page: what is
\* between the break and the lowest mapping is a guard.
GapIsGuard ==
    \A s \in Spaces, v \in Pages : pt[s][v] # Absent =>
        \/ v < as[s].brk
        \/ RegionAt(s, v) # {}

\* The window of a program is a heap, mappings and nothing else, each page with
\* the rights it was last given.
LaidOut == TypeOK /\ Apart /\ GapIsGuard

=============================================================================
