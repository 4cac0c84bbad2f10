------------------------------- MODULE Alloc -------------------------------
(***************************************************************************)
(* What the kernel's allocators promise, and all a caller may rely on:     *)
(* memory is handed out, kept as it is, and given back.  Blocks (kmalloc)  *)
(* and frames (pmm_alloc_frame) come from the same memory.                 *)
(***************************************************************************)
EXTENDS Integers

CONSTANTS
    Owners,     \* who asks for blocks
    PageSize    \* units in a frame

VARIABLES
    held,       \* the blocks handed out: owner, first unit, units
    taken       \* the frames handed out

Units(h) == h.at..(h.at + h.len - 1)
FrameUnits(f) == (f * PageSize)..(f * PageSize + PageSize - 1)

Init ==
    /\ held = {}
    /\ \A f \in taken : f \in Nat

\* A block is nobody else's memory, and is not at address 0.
Fresh(h) ==
    /\ h.own \in Owners /\ h.at > 0 /\ h.len > 0
    /\ \A g \in held : Units(g) \cap Units(h) = {}
    /\ \A f \in taken : FrameUnits(f) \cap Units(h) = {}

Malloc ==
    \E h \in held' :
        /\ h \notin held /\ Fresh(h)
        /\ held' = held \cup {h}
        /\ UNCHANGED taken

Free ==
    \E h \in held :
        /\ held' = held \ {h}
        /\ UNCHANGED taken

TakeFrame ==
    \E f \in taken' :
        /\ f \notin taken
        /\ taken' = taken \cup {f}
        /\ \A h \in held : FrameUnits(f) \cap Units(h) = {}
        /\ UNCHANGED held

GiveFrame ==
    \E f \in taken :
        /\ taken' = taken \ {f}
        /\ UNCHANGED held

Next == Malloc \/ Free \/ TakeFrame \/ GiveFrame

Spec == Init /\ [][Next]_<<held, taken>>
=============================================================================
