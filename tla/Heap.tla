-------------------------------- MODULE Heap --------------------------------
(***************************************************************************)
(* The kernel heap (mm/heap.c) and the frame allocator under it            *)
(* (mm/pmm.c).                                                             *)
(*                                                                         *)
(* Memory is counted in units of 16 bytes, to which every size is rounded. *)
(* The heap's lock is held for the whole of a kmalloc or kfree; the frame  *)
(* allocator's own lock only for one call of it, so frames come and go     *)
(* between the attempts of a kmalloc that has to grow the heap.            *)
(***************************************************************************)
EXTENDS Integers, Sequences, FiniteSets, SequencesExt, FiniteSetsExt

CONSTANTS
    Owners,     \* who asks for blocks
    NFrames,    \* MAX_FRAMES; frame 0 is never handed out
    PageSize,   \* PAGE_SIZE, in units
    Sizes,      \* the sizes asked for, in units
    PreWarm,    \* the megabyte heap_init starts with, in units
    Tries       \* how often a kmalloc that got too little asks again: 16

Header == 2         \* HEADER_SIZE
Frames == 1..(NFrames - 1)

ASSUME HeapAssumption ==
    /\ NFrames \in Nat /\ PageSize \in Nat /\ PageSize > Header
    /\ Sizes \subseteq Nat \ {0} /\ PreWarm \in Nat \ {0} /\ Tries \in Nat

VARIABLES
    blocks,     \* the block list, in the order of the list
    bitmap,     \* the frames that are free
    others,     \* the frames others have taken or reserved
    ptr,        \* ptr[o]: the block owner o holds; 0 for none
    old,        \* old[o]: the block a krealloc of o has yet to free
    grow        \* the kmalloc that is growing the heap, which holds its lock

vars == <<blocks, bitmap, others, ptr, old, grow>>

NoGrow == [own |-> FALSE, want |-> 0, count |-> 0, tries |-> 0, from |-> 0]

----------------------------------------------------------------------------
(* Frames.                                                                 *)

\* The runs of n free frames, by their first frame.
Runs(free, n) == {f \in Frames : f..(f + n - 1) \subseteq free}

\* pmm_alloc_contig, and pmm_alloc_frame for one: the lowest run.
AllocContig(free, n) == IF Runs(free, n) = {} THEN 0 ELSE Min(Runs(free, n))

\* pmm_alloc_frame for somebody else.
Take ==
    /\ bitmap # {}
    /\ LET f == AllocContig(bitmap, 1)
       IN  bitmap' = bitmap \ {f} /\ others' = others \cup {f}
    /\ UNCHANGED <<blocks, ptr, old, grow>>

\* pmm_free_frame
Give(f) ==
    /\ f \in others
    /\ bitmap' = bitmap \cup {f} /\ others' = others \ {f}
    /\ UNCHANGED <<blocks, ptr, old, grow>>

----------------------------------------------------------------------------
(* The block list.                                                         *)

End(b) == b.at + Header + b.size

\* phys_adjacent
PhysAdjacent(lo, hi) == End(lo) = hi.at

\* Mutant: the rest forgets that it has a header of its own.
SplitFat(list, i, want) ==
    LET b == list[i]
        rest == [at |-> b.at + Header + want, size |-> b.size - want, free |-> TRUE]
    IN  IF b.size - want <= Header + 1 THEN list
        ELSE InsertAt([list EXCEPT ![i].size = want], i + 1, rest)

\* split_block: the rest becomes a block if it has room for more than a header
\* and a unit.
Split(list, i, want) ==
    LET b == list[i]
        rest == [at |-> b.at + Header + want, size |-> b.size - want - Header, free |-> TRUE]
    IN  IF b.size - want <= Header + 1 THEN list
        ELSE InsertAt([list EXCEPT ![i].size = want], i + 1, rest)

\* Block i of the list swallows the next one.
Swallow(list, i) ==
    RemoveAt([list EXCEPT ![i].size = @ + Header + list[i + 1].size], i + 1)

MergesNext(list, i) ==
    i < Len(list) /\ list[i + 1].free /\ PhysAdjacent(list[i], list[i + 1])

\* Mutant: the block before it takes it in although it is in use.
GreedyCoalesce(list, i) ==
    LET fwd == IF MergesNext(list, i) THEN Swallow(list, i) ELSE list
    IN  IF i > 1 /\ MergesNext(fwd, i - 1) THEN Swallow(fwd, i - 1) ELSE fwd

\* coalesce: block i, which is free, takes in the next one, and the one before
\* takes it in.  It goes on from there, but there is nothing further to join:
\* NoneApart.
Coalesce(list, i) ==
    LET fwd == IF MergesNext(list, i) THEN Swallow(list, i) ELSE list
    IN  IF i > 1 /\ fwd[i - 1].free /\ MergesNext(fwd, i - 1) THEN Swallow(fwd, i - 1)
        ELSE fwd

\* The end of grow_heap: the new run is joined to the last block if that is
\* free and just before it, or becomes the last block.
Merged(list, new) ==
    IF list # <<>> /\ Last(list).free /\ PhysAdjacent(Last(list), new)
    THEN [list EXCEPT ![Len(list)].size = @ + Header + new.size]
    ELSE Append(list, new)

RunBlock(f, n) == [at |-> f * PageSize, size |-> n * PageSize - Header, free |-> TRUE]

\* The frames grow_heap asks for first, and what it asks for when it gets none:
\* half, and half of that, down to one.
Needed(want) == (Header + want + PageSize - 1) \div PageSize
Halves(n) == {m \in 1..n : \E k \in 0..n : m = n \div (2^k)}

----------------------------------------------------------------------------
(* kmalloc, kfree and krealloc.                                            *)

Fits(want) == {i \in 1..Len(blocks) : blocks[i].free /\ blocks[i].size >= want}
IndexOf(p) == CHOOSE i \in 1..Len(blocks) : blocks[i].at + Header = p

\* Block i of the list goes to owner o, who had p.
Hand(o, list, i, want, p) ==
    /\ blocks' = [Split(list, i, want) EXCEPT ![i].free = FALSE]
    /\ ptr' = [ptr EXCEPT ![o] = list[i].at + Header]
    /\ old' = [old EXCEPT ![o] = p]

\* kmalloc: the first block that is large enough, or the heap has to grow.
\* p is the block a krealloc will free afterwards, or 0.
Kmalloc(o, want, p) ==
    /\ grow = NoGrow
    /\ \/ /\ Fits(want) # {}
          /\ Hand(o, blocks, Min(Fits(want)), want, p)
          /\ UNCHANGED grow
       \/ /\ Fits(want) = {}
          /\ grow' = [own |-> o, want |-> want, count |-> Needed(want), tries |-> 0, from |-> p]
          /\ UNCHANGED <<blocks, ptr, old>>
    /\ UNCHANGED <<bitmap, others>>

Malloc(o, want) ==
    /\ ptr[o] = 0 /\ old[o] = 0
    /\ Kmalloc(o, want, 0)

\* krealloc to more than the block has; otherwise it changes nothing.
Krealloc(o, want) ==
    /\ ptr[o] # 0 /\ old[o] = 0
    /\ blocks[IndexOf(ptr[o])].size < want
    /\ Kmalloc(o, want, ptr[o])

\* Mutant: a block of just the right size does not do.
NarrowEnough(size, want) == size > want

Enough(size, want) == size >= want

\* A call of pmm_alloc_contig in grow_heap.  With a run of frames, kmalloc has
\* its block or asks again; without one grow_heap tries half.
Grow ==
    /\ grow # NoGrow
    /\ UNCHANGED others
    /\ LET f == AllocContig(bitmap, grow.count)
           list == Merged(blocks, RunBlock(f, grow.count))
       IN  \/ /\ f # 0
              /\ bitmap' = bitmap \ (f..(f + grow.count - 1))
              /\ \/ /\ Enough(Last(list).size, grow.want)
                    /\ Hand(grow.own, list, Len(list), grow.want, grow.from)
                    /\ grow' = NoGrow
                 \/ /\ ~Enough(Last(list).size, grow.want)
                    /\ blocks' = list
                    /\ grow' = IF grow.tries = Tries THEN NoGrow
                               ELSE [grow EXCEPT !.tries = @ + 1, !.count = Needed(grow.want)]
                    /\ UNCHANGED <<ptr, old>>
           \/ /\ f = 0
              /\ grow' = IF grow.count > 1 THEN [grow EXCEPT !.count = @ \div 2] ELSE NoGrow
              /\ UNCHANGED <<blocks, bitmap, ptr, old>>

Freed(p) == Coalesce([blocks EXCEPT ![IndexOf(p)].free = TRUE], IndexOf(p))

\* kfree
Kfree(o) ==
    /\ grow = NoGrow /\ ptr[o] # 0 /\ old[o] = 0
    /\ blocks' = Freed(ptr[o])
    /\ ptr' = [ptr EXCEPT ![o] = 0]
    /\ UNCHANGED <<bitmap, others, old, grow>>

\* krealloc, after it has copied what was in the old block.
KreallocFree(o) ==
    /\ grow = NoGrow /\ old[o] # 0
    /\ blocks' = Freed(old[o])
    /\ old' = [old EXCEPT ![o] = 0]
    /\ UNCHANGED <<bitmap, others, ptr, grow>>

----------------------------------------------------------------------------

\* heap_init, on whatever frames pmm_init has left free: one grow_heap.
Init ==
    \E reserved \in SUBSET Frames :
        LET avail == Frames \ reserved
            counts == {n \in Halves(Needed(PreWarm)) : Runs(avail, n) # {}}
            n == Max(counts)
            f == AllocContig(avail, n)
        IN  /\ others = reserved
            /\ \/ counts = {} /\ blocks = <<>> /\ bitmap = avail
               \/ counts # {} /\ blocks = <<RunBlock(f, n)>> /\ bitmap = avail \ (f..(f + n - 1))
            /\ ptr = [o \in Owners |-> 0]
            /\ old = [o \in Owners |-> 0]
            /\ grow = NoGrow

Next ==
    \/ \E o \in Owners, want \in Sizes : Malloc(o, want) \/ Krealloc(o, want)
    \/ \E o \in Owners : Kfree(o) \/ KreallocFree(o)
    \/ Grow
    \/ Take
    \/ \E f \in others : Give(f)

Spec == Init /\ [][Next]_vars

----------------------------------------------------------------------------
(* Properties.                                                             *)

Index == 1..Len(blocks)
Extent(b) == b.at..(End(b) - 1)
FrameUnits(f) == (f * PageSize)..(f * PageSize + PageSize - 1)
HeapFrames == Frames \ (bitmap \cup others)

\* The variables have their types, and every block has room.
TypeOK ==
    /\ \A i \in Index : /\ blocks[i].at \in Nat /\ blocks[i].size \in Nat \ {0}
                        /\ blocks[i].free \in BOOLEAN
    /\ bitmap \subseteq Frames /\ others \subseteq Frames
    /\ ptr \in [Owners -> Nat] /\ old \in [Owners -> Nat]

\* The blocks with their headers tile the frames the heap has taken: none
\* overlaps another or reaches into memory that is not the heap's, and no
\* unit is lost to a split, a merge or a run that joined the list.
Tiles ==
    /\ \A i, j \in Index : i # j => Extent(blocks[i]) \cap Extent(blocks[j]) = {}
    /\ UNION {Extent(blocks[i]) : i \in Index} = UNION {FrameUnits(f) : f \in HeapFrames}

\* Two free blocks that follow one another in the list and in memory are one:
\* a free block that borders on free blocks is never left in pieces.
NoneApart ==
    \A i \in Index : blocks[i].free => ~MergesNext(blocks, i)

\* Everything in use is held by somebody, at exactly one place.
NoneForgotten ==
    \A i \in Index : ~blocks[i].free =>
        Cardinality({p \in Owners \X {"ptr", "old"} :
            blocks[i].at + Header = IF p[2] = "ptr" THEN ptr[p[1]] ELSE old[p[1]]}) = 1

\* The block list is sound: it tiles the heap, in pieces as large as they can
\* be, and every piece in use has its holder.
ListSound == TypeOK /\ Tiles /\ NoneApart /\ NoneForgotten

\* kmalloc gives up only if no block of the heap is large enough, wherever its
\* attempts to grow have left their pieces.
NullOnlyIfFull ==
    [][grow # NoGrow /\ grow' = NoGrow /\ ptr' = ptr =>
        \A i \in 1..Len(blocks') : blocks'[i].free => blocks'[i].size < grow.want]_vars

\* The blocks as their holders see them.
Held ==
    UNION {LET At(p) == IF p = 0 THEN {}
                        ELSE {[own |-> o, at |-> p, len |-> blocks[IndexOf(p)].size]}
           IN  At(ptr[o]) \cup At(old[o]) : o \in Owners}

A == INSTANCE Alloc WITH held <- Held, taken <- others

\* Heap and frames together are an allocator: what they hand out is nobody
\* else's, and nothing that is held moves, grows or shrinks.
Allocates == A!Spec

=============================================================================
