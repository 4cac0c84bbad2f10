------------------------------ MODULE VmProofs ------------------------------
(***************************************************************************)
(* Proofs about module Vm, for any number of spaces, cores, pages, frames, *)
(* regions and segments.                                                   *)
(*                                                                         *)
(* What the cores have cached is true (TlbTrue) only because of two other  *)
(* things.  The cores are told of a change only if a space has more than   *)
(* one holder, so a core must never be in a space that does not count it   *)
(* (Counted); and a mapping is placed without telling anybody, so what     *)
(* lies outside the heap and the mappings must be empty (GapIsGuard, in    *)
(* Laid).  The second needs a program to give back only heap it has not    *)
(* touched: the theorems assume ~Leftovers.  TlbTrue also needs ~Halfway:  *)
(* an attaching of shared memory that fails tells nobody.                  *)
(*                                                                         *)
(* That no frame is used twice or lost (FramesHeld) rests on those, as     *)
(* only mappings that do not overlap can be told apart by their pages,     *)
(* and on ids of segments being handed out once (FInv).                    *)
(***************************************************************************)
EXTENDS Vm, TLAPS, FiniteSetTheorems, WellFoundedInduction

----------------------------------------------------------------------------
(* The inductive invariant.                                                *)

AsType == [brk : HeapBase..MmapTop, refs : Nat, vm : [Regions -> Region]]
SegType == [used : BOOLEAN, id : 0..MaxId, key : Keys \cup {Private}, removed : BOOLEAN,
            frames : Seq(Frames), maps : Nat]
FaultType == [page : {0} \cup Pages, kind : {"r"} \cup Rights, present : BOOLEAN]

SpaceTypes ==
    /\ as \in [Spaces -> AsType] /\ pt \in [Spaces -> [Pages -> Entry]]
    /\ dead \in [Spaces -> Nat]
MemTypes ==
    /\ free \subseteq Frames
    /\ segs \in [1..NSegs -> SegType]
    /\ nextId \in 1..(MaxId + 1)
CoreTypes ==
    /\ run \in [Cores -> Spaces \cup {NoSpace}]
    /\ tlb \in [Cores -> [Pages -> Entry]]
    /\ fault \in [Cores -> FaultType]

\* A space a with the page table m: LaidOut of one space.
InUse(a) == {i \in Regions : a.vm[i].base # 0}
Laid(a, m) ==
    /\ \A i \in InUse(a) :
         /\ Span(a.vm[i]) \subseteq (a.brk + 1)..(MmapTop - 1)
         /\ \A j \in InUse(a) : i # j => Span(a.vm[i]) \cap Span(a.vm[j]) = {}
         /\ \A v \in Span(a.vm[i]) : m[v] # Absent => m[v].prot = a.vm[i].prot
    /\ \A v \in Pages : m[v] # Absent => v < a.brk \/ \E i \in InUse(a) : v \in Span(a.vm[i])
AllLaid == \A s \in Spaces : Laid(as[s], pt[s])

\* A core in a space is one of its holders, and so is a thread that has ended
\* and was not reaped.
Counted == \A s \in Spaces : OnCores(s) + dead[s] <= as[s].refs

\* A space that nobody holds is as new.
Unheld == \A s \in Spaces : as[s].refs = 0 => as[s] = NoAs

\* A fault is one of a page of the space the core is in.
Faulting == \A c \in Cores : fault[c] # NoFault => run[c] # NoSpace /\ fault[c].page \in Pages

\* What the cores have cached is true, unless one caches a page of a segment
\* whose attaching then fails.
Cached == ~Halfway => TlbTrue

VInv == SpaceTypes /\ MemTypes /\ CoreTypes /\ AllLaid /\ Counted /\ Unheld /\ Faulting /\ Cached

----------------------------------------------------------------------------
(* Numbers and sets of them.                                               *)

\* A nonempty set of numbers has a least one.
LEMMA LeastNat ==
    ASSUME NEW T \in SUBSET Nat, T # {}
    PROVE  \E x \in T : \A y \in T : x <= y
  <1>1. PICK x \in T : \A y \in T : <<y, x>> \notin OpToRel(<, Nat)
    BY NatLessThanWellFounded, WFMin
  <1>2. \A y \in T : <<y, x>> \in OpToRel(<, Nat) <=> y < x
    BY DEF OpToRel
  <1>3. \A y \in T : ~(y < x)
    BY <1>1, <1>2
  <1> QED
    BY <1>3

LEMMA MinFacts ==
    ASSUME NEW T \in SUBSET Nat, T # {}
    PROVE  Min(T) \in T /\ \A y \in T : Min(T) <= y
  BY LeastNat DEF Min

\* A bounded one has a greatest.
LEMMA MaxFacts ==
    ASSUME NEW T \in SUBSET Nat, T # {}, NEW b \in Nat, \A x \in T : x <= b
    PROVE  Max(T) \in T /\ \A y \in T : y <= Max(T)
  <1> DEFINE U == {k \in Nat : \E x \in T : k = b - x}
  <1>1. U \in SUBSET Nat /\ U # {}
    <2>1. PICK x \in T : x \in Nat /\ x <= b
      OBVIOUS
    <2>2. b - x \in U
      BY <2>1
    <2> QED
      BY <2>2
  <1>2. PICK k \in U : \A y \in U : k <= y
    BY <1>1, LeastNat
  <1>3. PICK x \in T : k = b - x
    BY <1>2
  <1>4. \A y \in T : x >= y
    <2> SUFFICES ASSUME NEW y \in T PROVE x >= y
      OBVIOUS
    <2>1. b - y \in U /\ y \in Nat /\ x \in Nat
      OBVIOUS
    <2>2. k <= b - y
      BY <1>2, <2>1
    <2> QED
      BY <1>3, <2>1, <2>2
  <1>5. Max(T) \in T /\ \A y \in T : Max(T) >= y
    BY <1>4 DEF Max
  <1> QED
    BY <1>5

\* One core, or one ended thread, fewer; one core more.
LEMMA OneLess ==
    ASSUME NEW x \in Nat, NEW y \in Nat, NEW z \in Nat, x + y <= z
    PROVE  /\ x >= 1 => x - 1 + y <= z - 1 /\ x - 1 + y <= z /\ x - 1 + (y + 1) <= z
           /\ y > 0 => x + (y - 1) <= z - 1 /\ y - 1 \in Nat /\ z >= 1 /\ (~(z > 1) => x = 0)
           /\ x < z - y => x + 1 + y <= z
  OBVIOUS

\* More holders than before.
LEMMA MoreHolders ==
    \A x, y, z, w \in Nat : x + y <= z /\ w >= z => x + y <= w
  OBVIOUS

\* x cores and y ended threads among z holders.
LEMMA Sums ==
    ASSUME NEW x \in Nat, NEW y \in Nat, NEW z \in Nat, x + y <= z
    PROVE  /\ x >= 1 => z >= 1
           /\ x >= 2 => z > 1
           /\ \A w \in Nat : w >= z => x + y <= w
  OBVIOUS

LEMMA Between ==
    ASSUME NEW a \in Nat, NEW b \in Nat, NEW n \in Nat, NEW t \in Nat
    PROVE  /\ a >= b + 1 /\ a + n <= t => a..(a + n - 1) \subseteq (b + 1)..(t - 1)
           /\ (b + 1)..(t - 1) \subseteq 1..(t - 1)
  OBVIOUS

----------------------------------------------------------------------------
(* Facts about a state.                                                    *)

LEMMA Numbers ==
    /\ HeapBase = 1 /\ MmapTop \in Nat /\ MmapTop > 1 /\ Pages = 1..(MmapTop - 1) /\ Pages \subseteq Nat /\ 0 \notin Pages
    /\ NFrames \in Nat /\ NRegions \in Nat /\ Regions = 1..NRegions /\ Regions \subseteq Nat
    /\ NSegs \in Nat /\ MaxId \in Nat /\ IsFiniteSet(Cores) /\ IsFiniteSet(Spaces) /\ NoSpace \notin Spaces
    /\ Frames = 1..NFrames /\ 0 \notin Frames /\ Frames \subseteq Nat
  BY VmAssumption DEF HeapBase, Pages, Regions, Frames

\* One space.
LEMMA SpaceFacts ==
    ASSUME SpaceTypes, NEW s \in Spaces
    PROVE  /\ as[s] \in AsType /\ as[s].brk \in 1..MmapTop /\ as[s].refs \in Nat
           /\ as[s].vm \in [Regions -> Region]
           /\ pt[s] \in [Pages -> Entry] /\ dead[s] \in Nat
           /\ Used(s) = InUse(as[s]) /\ Used(s) \subseteq Regions
  BY Numbers DEF SpaceTypes, AsType, Used, InUse

LEMMA BreakFacts ==
    ASSUME SpaceTypes, NEW s \in Spaces
    PROVE  as[s].brk \in Nat /\ as[s].brk >= 1 /\ as[s].brk <= MmapTop
  <1>1. \A x \in 1..MmapTop : x \in Nat /\ x >= 1 /\ x <= MmapTop
    BY Numbers
  <1>2. as[s].brk \in 1..MmapTop
    BY SpaceFacts
  <1> QED
    BY <1>1, <1>2, Zenon

LEMMA RegionFacts ==
    ASSUME NEW r \in Region
    PROVE  /\ r.base \in Nat /\ r.len \in Nat /\ r.shm \in Nat /\ r.stack \in BOOLEAN /\ r.prot \in SUBSET Rights
           /\ r.base # 0 => r.base \in Pages
           /\ Span(r) \subseteq Nat
           /\ \A v \in Span(r) : r.base <= v
  BY Numbers DEF Region, Span

LEMMA Plain ==
    /\ Absent \in Entry /\ NoTlb \in [Pages -> Entry] /\ NoRegion \in Region /\ NoRegion.base = 0
    /\ NoAs \in AsType /\ NoAs.refs = 0 /\ NoAs.brk = 1 /\ InUse(NoAs) = {} /\ NoAs.vm \in [Regions -> Region]
    /\ NoSeg \in SegType /\ NoFault \in FaultType
  <1>1. Absent \in Entry /\ NoTlb \in [Pages -> Entry]
    BY DEF Absent, Entry, NoTlb
  <1>2. NoRegion \in Region /\ NoRegion.base = 0
    BY Numbers DEF NoRegion, Region
  <1>3. NoAs \in AsType /\ NoAs.refs = 0 /\ NoAs.brk = 1 /\ InUse(NoAs) = {} /\ NoAs.vm \in [Regions -> Region]
    BY <1>2, Numbers DEF NoAs, AsType, InUse
  <1>4. NoSeg \in SegType
    BY Numbers DEF NoSeg, SegType, Private
  <1>5. NoFault \in FaultType
    BY DEF NoFault, FaultType
  <1> QED
    BY <1>1, <1>2, <1>3, <1>4, <1>5

\* place: a free place above the break.
LEMMA PlaceFacts ==
    ASSUME SpaceTypes, NEW s \in Spaces, NEW n \in Nat, Place(s, n) # 0
    PROVE  /\ Place(s, n) \in Pages /\ Place(s, n) >= as[s].brk + 1 /\ Place(s, n) + n <= MmapTop
           /\ \A i \in Used(s) : Place(s, n)..(Place(s, n) + n - 1) \cap Span(as[s].vm[i]) = {}
  <1> DEFINE At(v) == /\ v >= as[s].brk + 1 /\ v + n <= MmapTop
                      /\ \A i \in Used(s) : v..(v + n - 1) \cap Span(as[s].vm[i]) = {}
             T == {v \in Pages : At(v)}
  <1>1. Place(s, n) = IF \E v \in Pages : At(v) THEN Max(T) ELSE 0
    BY DEF Place
  <1>2. \E v \in Pages : At(v)
    BY <1>1
  <1>3. T \in SUBSET Nat /\ T # {} /\ \A v \in T : v <= MmapTop
    <2> HIDE DEF At
    <2>1. T \subseteq Pages /\ T # {}
      BY <1>2
    <2>2. \A v \in Pages : v \in Nat /\ v <= MmapTop
      BY Numbers
    <2> QED
      BY <2>1, <2>2
  <1>4. Max(T) \in T
    <2> HIDE DEF T
    <2> QED
      BY <1>3, Numbers, MaxFacts
  <1> QED
    BY <1>1, <1>2, <1>4

\* vmm_reserve: a region that was not in use, over pages that nothing has.
LEMMA ReserveFacts ==
    ASSUME SpaceTypes, NEW s \in Spaces, NEW n \in Nat, CanReserve(s, n)
    PROVE  /\ Min(Regions \ Used(s)) \in Regions /\ Min(Regions \ Used(s)) \notin Used(s)
           /\ Place(s, n) # 0
  <1>1. Regions \ Used(s) \in SUBSET Nat /\ Regions \ Used(s) # {}
    BY Numbers DEF CanReserve, Used
  <1>2. Min(Regions \ Used(s)) \in Regions \ Used(s)
    BY <1>1, MinFacts
  <1> QED
    BY <1>2 DEF CanReserve


----------------------------------------------------------------------------
(* What the handlers do to one space: its record a, its table m.           *)

\* A new region r over pages that nothing has; its pages, if it has any, have
\* its rights.
Joins(a, m, k, r, b, p) ==
    /\ a \in AsType /\ m \in [Pages -> Entry] /\ Laid(a, m)
    /\ k \in Regions \ InUse(a) /\ r \in Region /\ r.base # 0
    /\ Span(r) \subseteq (a.brk + 1)..(MmapTop - 1)
    /\ \A i \in InUse(a) : Span(r) \cap Span(a.vm[i]) = {}
    /\ b \in AsType /\ b.brk = a.brk /\ b.vm = [a.vm EXCEPT ![k] = r]
    /\ p \in [Pages -> Entry] /\ \A v \in Pages \ Span(r) : p[v] = m[v]
    /\ \A v \in Pages \cap Span(r) : p[v] = m[v] \/ p[v].prot = r.prot

LEMMA NewRegion ==
    ASSUME NEW a, NEW m, NEW k, NEW r, NEW b, NEW p, Joins(a, m, k, r, b, p)
    PROVE  Laid(b, p) /\ \A v \in Span(r) : m[v] = Absent
  <1> USE DEF Joins
  <1>1. a.vm \in [Regions -> Region] /\ a.brk \in 1..MmapTop
    BY Numbers DEF AsType
  <1>2. InUse(b) = InUse(a) \cup {k} /\ b.vm[k] = r /\ \A i \in InUse(a) : b.vm[i] = a.vm[i] /\ i # k
    BY <1>1 DEF InUse
  <1>3. Span(r) \subseteq Pages /\ \A v \in Span(r) : ~(v < a.brk)
    BY <1>1, Numbers
  <1>4. \A v \in Span(r) : m[v] = Absent
    BY <1>3 DEF Laid
  <1>5. \A v \in Span(r) : p[v] # Absent => p[v].prot = r.prot
    BY <1>3, <1>4
  <1>6. \A i \in InUse(a) : /\ Span(a.vm[i]) \subseteq (a.brk + 1)..(MmapTop - 1)
                            /\ \A j \in InUse(a) : i # j => Span(a.vm[i]) \cap Span(a.vm[j]) = {}
                            /\ \A v \in Span(a.vm[i]) : m[v] # Absent => m[v].prot = a.vm[i].prot
    BY DEF Laid
  <1>7. ASSUME NEW i \in InUse(b)
        PROVE  /\ Span(b.vm[i]) \subseteq (b.brk + 1)..(MmapTop - 1)
               /\ \A j \in InUse(b) : i # j => Span(b.vm[i]) \cap Span(b.vm[j]) = {}
               /\ \A v \in Span(b.vm[i]) : p[v] # Absent => p[v].prot = b.vm[i].prot
    <2>1. CASE i = k
      BY <1>2, <1>5, <2>1
    <2>2. CASE i # k
      <3>1. i \in InUse(a) /\ b.vm[i] = a.vm[i]
        BY <1>2, <1>7, <2>2
      <3>2. Span(a.vm[i]) \subseteq Pages
        <4>1. (a.brk + 1)..(MmapTop - 1) \subseteq Pages
          BY <1>1, Numbers
        <4> QED
          BY <1>6, <3>1, <4>1
      <3>3. \A v \in Span(a.vm[i]) : p[v] = m[v]
        BY <3>1, <3>2
      <3>4. \A j \in InUse(b) : i # j => Span(b.vm[i]) \cap Span(b.vm[j]) = {}
        BY <1>2, <1>6, <3>1
      <3> QED
        BY <1>6, <3>1, <3>3, <3>4
    <2> QED
      BY <2>1, <2>2
  <1>8. ASSUME NEW v \in Pages, p[v] # Absent
        PROVE  v < b.brk \/ \E i \in InUse(b) : v \in Span(b.vm[i])
    <2>1. CASE v \in Span(r)
      BY <1>2, <2>1
    <2>2. CASE v \notin Span(r)
      BY <1>2, <1>8, <2>2 DEF Laid
    <2> QED
      BY <2>1, <2>2
  <1> QED
    BY <1>4, <1>7, <1>8 DEF Laid

\* A region goes, and its pages with it.
LEMMA OldRegion ==
    ASSUME NEW a \in AsType, NEW m \in [Pages -> Entry], Laid(a, m), NEW k \in InUse(a),
           NEW b \in AsType, b.brk = a.brk, b.vm = [a.vm EXCEPT ![k] = NoRegion],
           NEW p \in [Pages -> Entry],
           \A v \in Pages : p[v] = IF v \in Span(a.vm[k]) THEN Absent ELSE m[v]
    PROVE  Laid(b, p)
  <1>1. a.vm \in [Regions -> Region] /\ a.brk \in 1..MmapTop
    BY Numbers DEF AsType
  <1>2. InUse(b) = InUse(a) \ {k} /\ \A i \in InUse(b) : b.vm[i] = a.vm[i] /\ i # k /\ i \in InUse(a)
    BY <1>1, Plain DEF InUse
  <1>3. ASSUME NEW i \in InUse(b)
        PROVE  /\ Span(b.vm[i]) \subseteq (b.brk + 1)..(MmapTop - 1)
               /\ \A j \in InUse(b) : i # j => Span(b.vm[i]) \cap Span(b.vm[j]) = {}
               /\ \A v \in Span(b.vm[i]) : p[v] # Absent => p[v].prot = b.vm[i].prot
    <2>1. /\ Span(a.vm[i]) \subseteq (a.brk + 1)..(MmapTop - 1)
          /\ \A j \in InUse(a) : i # j => Span(a.vm[i]) \cap Span(a.vm[j]) = {}
          /\ \A v \in Span(a.vm[i]) : m[v] # Absent => m[v].prot = a.vm[i].prot
      BY <1>2, <1>3 DEF Laid
    <2>2. Span(a.vm[i]) \subseteq Pages
      BY <1>1, <2>1, Numbers
    <2> QED
      BY <1>2, <1>3, <2>1, <2>2
  <1>4. ASSUME NEW v \in Pages, p[v] # Absent
        PROVE  v < b.brk \/ \E i \in InUse(b) : v \in Span(b.vm[i])
    <2>1. v \notin Span(a.vm[k]) /\ m[v] # Absent
      BY <1>4
    <2>2. v < a.brk \/ \E i \in InUse(a) : v \in Span(a.vm[i])
      BY <2>1 DEF Laid
    <2> QED
      BY <1>2, <2>1, <2>2
  <1> QED
    BY <1>3, <1>4 DEF Laid

\* Pages go, or get the rights of their region; the break moves where nothing is.
LEMMA SameRegions ==
    ASSUME NEW a \in AsType, NEW m \in [Pages -> Entry], Laid(a, m),
           NEW b \in AsType, b.vm = a.vm, \A i \in InUse(a) : Span(a.vm[i]) \subseteq (b.brk + 1)..(MmapTop - 1),
           NEW p \in [Pages -> Entry],
           \A v \in Pages : p[v] # Absent =>
               /\ v < b.brk \/ \E i \in InUse(a) : v \in Span(a.vm[i])
               /\ \A i \in InUse(a) : v \in Span(a.vm[i]) => p[v].prot = a.vm[i].prot
    PROVE  Laid(b, p)
  <1>1. InUse(b) = InUse(a) /\ b.brk \in 1..MmapTop
    BY Numbers DEF InUse, AsType
  <1>2. \A i \in InUse(a) : Span(a.vm[i]) \subseteq Pages
    <2>1. (b.brk + 1)..(MmapTop - 1) \subseteq Pages
      BY <1>1, Numbers
    <2> QED
      BY <2>1, Zenon
  <1> QED
    BY <1>1, <1>2 DEF Laid

\* mprotect
Repainted(a, m, k, r, b, p) ==
    /\ a \in AsType /\ m \in [Pages -> Entry] /\ Laid(a, m) /\ k \in InUse(a) /\ r \in Region
    /\ r.base = a.vm[k].base /\ r.len = a.vm[k].len
    /\ b \in AsType /\ b.brk = a.brk /\ b.vm = [a.vm EXCEPT ![k] = r]
    /\ p \in [Pages -> Entry]
    /\ \A v \in Pages : IF v \in Span(r) /\ m[v] # Absent THEN p[v].prot = r.prot ELSE p[v] = m[v]

LEMMA NewRights ==
    ASSUME NEW a, NEW m, NEW k, NEW r, NEW b, NEW p, Repainted(a, m, k, r, b, p)
    PROVE  Laid(b, p)
  <1> USE DEF Repainted
  <1>1. a.vm \in [Regions -> Region] /\ a.brk \in 1..MmapTop
    BY Numbers DEF AsType
  <1>2. Span(r) = Span(a.vm[k])
    BY DEF Span
  <1>3. InUse(b) = InUse(a) /\ b.vm[k] = r /\ \A i \in InUse(a) : i # k => b.vm[i] = a.vm[i]
    BY <1>1 DEF InUse
  <1>4. \A i \in InUse(a) : Span(b.vm[i]) = Span(a.vm[i])
    BY <1>2, <1>3
  <1>5. ASSUME NEW i \in InUse(a)
        PROVE  /\ Span(b.vm[i]) \subseteq (b.brk + 1)..(MmapTop - 1)
               /\ \A j \in InUse(a) : i # j => Span(b.vm[i]) \cap Span(b.vm[j]) = {}
               /\ \A v \in Span(b.vm[i]) : p[v] # Absent => p[v].prot = b.vm[i].prot
    <2>1. /\ Span(a.vm[i]) \subseteq (a.brk + 1)..(MmapTop - 1)
          /\ \A j \in InUse(a) : i # j => Span(a.vm[i]) \cap Span(a.vm[j]) = {}
          /\ \A v \in Span(a.vm[i]) : m[v] # Absent => m[v].prot = a.vm[i].prot
      BY <1>5 DEF Laid
    <2>2. Span(a.vm[i]) \subseteq Pages
      BY <1>1, <2>1, Numbers
    <2>3. CASE i = k
      BY <1>2, <1>3, <1>4, <2>1, <2>2, <2>3
    <2>4. CASE i # k
      <3>1. \A v \in Span(a.vm[i]) : v \notin Span(r)
        BY <1>2, <2>1, <2>4
      <3> QED
        BY <1>3, <1>4, <2>1, <2>2, <2>4, <3>1
    <2> QED
      BY <2>3, <2>4
  <1>6. ASSUME NEW v \in Pages, p[v] # Absent
        PROVE  v < b.brk \/ \E i \in InUse(a) : v \in Span(b.vm[i])
    <2>1. m[v] # Absent
      BY <1>6
    <2> QED
      BY <1>4, <2>1 DEF Laid
  <1> QED
    BY <1>3, <1>5, <1>6 DEF Laid


----------------------------------------------------------------------------
(* Cores.                                                                  *)

LEMMA CoresIn ==
    ASSUME NEW s
    PROVE  OnCores(s) \in Nat /\ IsFiniteSet({c \in Cores : run[c] = s})
  <1> DEFINE D == {c \in Cores : run[c] = s}
  <1>1. D \in SUBSET Cores /\ IsFiniteSet(Cores)
    BY Numbers
  <1> HIDE DEF D
  <1>2. IsFiniteSet(D)
    BY <1>1, FS_Subset
  <1>3. Cardinality(D) \in Nat
    BY <1>2, FS_CardinalityType
  <1> QED
    BY <1>2, <1>3 DEF D, OnCores

\* Whoever runs in a space is counted, each core for itself.
LEMMA OneCore ==
    ASSUME NEW c \in Cores
    PROVE  OnCores(run[c]) >= 1
  <1>1. PICK s : s = run[c]
    OBVIOUS
  <1>2. PICK D : D = {d \in Cores : run[d] = s}
    OBVIOUS
  <1>3. IsFiniteSet(D) /\ c \in D /\ OnCores(s) = Cardinality(D)
    BY <1>1, <1>2, CoresIn DEF OnCores
  <1>4. Cardinality(D) \in Nat /\ Cardinality(D) # 0
    BY <1>3, FS_CardinalityType, FS_EmptySet
  <1> QED
    BY <1>1, <1>3, <1>4

LEMMA TwoCores ==
    ASSUME NEW c \in Cores, NEW d \in Cores, c # d, run[c] = run[d]
    PROVE  OnCores(run[c]) >= 2
  <1>1. PICK s : s = run[c]
    OBVIOUS
  <1>2. PICK D : D = {e \in Cores : run[e] = s}
    OBVIOUS
  <1>3. IsFiniteSet(D) /\ c \in D /\ d \in D /\ OnCores(s) = Cardinality(D)
    BY <1>1, <1>2, CoresIn DEF OnCores
  <1>4. /\ IsFiniteSet(D \ {c}) /\ Cardinality(D \ {c}) = Cardinality(D) - 1 /\ d \in D \ {c}
    BY <1>3, FS_RemoveElement
  <1>5. Cardinality(D) \in Nat /\ Cardinality(D \ {c}) \in Nat /\ Cardinality(D \ {c}) # 0
    BY <1>3, <1>4, FS_CardinalityType, FS_EmptySet
  <1> QED
    BY <1>1, <1>3, <1>4, <1>5

\* A core leaves the space it is in; a core that is in none goes to one.
LEMMA CoreLeaves ==
    ASSUME CoreTypes, NEW c \in Cores, run[c] # NoSpace, run' = [run EXCEPT ![c] = NoSpace], NEW s \in Spaces
    PROVE  OnCores(s)' = IF run[c] = s THEN OnCores(s) - 1 ELSE OnCores(s)
  <1>1. PICK D : D = {d \in Cores : run[d] = s}
    OBVIOUS
  <1>2. run \in [Cores -> Spaces \cup {NoSpace}] /\ NoSpace \notin Spaces
    BY Numbers DEF CoreTypes
  <1>3. {d \in Cores : run'[d] = s} = D \ {c}
    BY <1>1, <1>2
  <1>4. OnCores(s) = Cardinality(D) /\ OnCores(s)' = Cardinality(D \ {c}) /\ IsFiniteSet(D)
    BY <1>1, <1>3, CoresIn DEF OnCores
  <1>5. c \in D <=> run[c] = s
    BY <1>1
  <1> QED
    BY <1>4, <1>5, FS_RemoveElement

LEMMA CoreComes ==
    ASSUME CoreTypes, NEW c \in Cores, run[c] = NoSpace, NEW u \in Spaces, run' = [run EXCEPT ![c] = u],
           NEW s \in Spaces
    PROVE  OnCores(s)' = IF u = s THEN OnCores(s) + 1 ELSE OnCores(s)
  <1>1. PICK D : D = {d \in Cores : run[d] = s}
    OBVIOUS
  <1>2. run \in [Cores -> Spaces \cup {NoSpace}] /\ NoSpace \notin Spaces
    BY Numbers DEF CoreTypes
  <1>3. {d \in Cores : run'[d] = s} = IF u = s THEN D \cup {c} ELSE D
    <2>1. c \notin D
      BY <1>1, <1>2
    <2> QED
      BY <1>1, <1>2, <2>1
  <1>4. OnCores(s) = Cardinality(D) /\ OnCores(s)' = Cardinality(IF u = s THEN D \cup {c} ELSE D) /\ IsFiniteSet(D)
    BY <1>1, <1>3, CoresIn DEF OnCores
  <1>5. c \notin D
    BY <1>1, <1>2
  <1> QED
    BY <1>4, <1>5, FS_AddElement

\* What is still cached was cached before, on a core that is where it was, of a
\* page that is as it was.
LEMMA TlbKept ==
    ASSUME Cached,
           \A c \in Cores, v \in Pages : tlb'[c][v] # Absent =>
               /\ tlb'[c][v] = tlb[c][v] /\ run'[c] = run[c]
               /\ run[c] # NoSpace => pt'[run[c]][v] = pt[run[c]][v]
    PROVE  Cached'
  BY DEF Cached, TlbTrue

\* A core alone in a space that counts one holder.
LEMMA Alone ==
    ASSUME VInv, NEW c \in Cores, run[c] # NoSpace, ~(as[run[c]].refs > 1), NEW d \in Cores, d # c
    PROVE  run[d] # run[c]
  <1> SUFFICES ASSUME run[d] = run[c] PROVE FALSE
    OBVIOUS
  <1>1. PICK s : s = run[c]
    OBVIOUS
  <1>2. s \in Spaces
    BY <1>1 DEF VInv, CoreTypes
  <1>3. OnCores(s) >= 2 /\ OnCores(s) \in Nat
    BY <1>1, TwoCores, CoresIn
  <1>4. OnCores(s) + dead[s] <= as[s].refs /\ dead[s] \in Nat /\ as[s].refs \in Nat
    BY <1>2, SpaceFacts DEF VInv, Counted
  <1>5. ~(as[s].refs > 1)
    BY <1>1
  <1>6. as[s].refs > 1
    BY <1>3, <1>4, Sums, Zenon
  <1> QED
    BY <1>5, <1>6, Zenon

\* shootdown_if_shared after a change of the pages of a span in a core's own space.
Told(c, span, m) ==
    /\ run[c] # NoSpace /\ Shootdown(c, run[c], span) /\ UNCHANGED run
    /\ pt' = [pt EXCEPT ![run[c]] = m]
    /\ \A v \in Pages : v \notin span => m[v] = pt[run[c]][v]

LEMMA ShotDown ==
    ASSUME VInv, NEW c \in Cores, NEW span, NEW m, Told(c, span, m)
    PROVE  Cached' /\ tlb' \in [Cores -> [Pages -> Entry]]
  <1>0. /\ run[c] # NoSpace /\ run' = run /\ pt' = [pt EXCEPT ![run[c]] = m]
        /\ \A v \in Pages : v \notin span => m[v] = pt[run[c]][v]
    BY DEF Told
  <1>1. PICK s : s = run[c]
    OBVIOUS
  <1>2. /\ s \in Spaces /\ run \in [Cores -> Spaces \cup {NoSpace}] /\ NoSpace \notin Spaces
        /\ pt \in [Spaces -> [Pages -> Entry]] /\ tlb \in [Cores -> [Pages -> Entry]]
    BY <1>0, <1>1, Numbers DEF VInv, CoreTypes, SpaceTypes
  <1>3. tlb' = [d \in Cores |->
                  IF d # c /\ as[s].refs > 1 THEN NoTlb
                  ELSE IF d = c THEN [v \in Pages |-> IF v \in span THEN Absent ELSE tlb[d][v]]
                  ELSE tlb[d]]
    BY <1>1 DEF Shootdown, Told
  <1>4. tlb' \in [Cores -> [Pages -> Entry]]
    BY <1>2, <1>3, Plain
  <1>5. ASSUME NEW d \in Cores, NEW v \in Pages, tlb'[d][v] # Absent
        PROVE  /\ tlb'[d][v] = tlb[d][v] /\ run'[d] = run[d]
               /\ run[d] # NoSpace => pt'[run[d]][v] = pt[run[d]][v]
    <2>1. CASE d = c
      <3>1. tlb'[d][v] = IF v \in span THEN Absent ELSE tlb[d][v]
        BY <1>3, <2>1
      <3>2. v \notin span /\ tlb'[d][v] = tlb[d][v]
        BY <1>5, <3>1
      <3> QED
        BY <1>0, <1>1, <1>2, <2>1, <3>2
    <2>2. CASE d # c
      <3>1. tlb'[d] = IF as[s].refs > 1 THEN NoTlb ELSE tlb[d]
        BY <1>3, <2>2
      <3>2. ~(as[s].refs > 1) /\ tlb'[d] = tlb[d]
        BY <1>5, <3>1 DEF NoTlb
      <3>3. run[d] # s
        BY <1>0, <1>1, <2>2, <3>2, Alone
      <3> QED
        BY <1>0, <1>1, <1>2, <3>2, <3>3
    <2> QED
      BY <2>1, <2>2
  <1> QED
    BY <1>4, <1>5, TlbKept DEF VInv


----------------------------------------------------------------------------
(* Steps of one space.                                                     *)

\* The space of a core that is in one.
LEMMA OwnSpace ==
    ASSUME VInv, NEW c \in Cores, run[c] # NoSpace
    PROVE  /\ run[c] \in Spaces /\ as[run[c]].refs >= 1 /\ as[run[c]] \in AsType
           /\ pt[run[c]] \in [Pages -> Entry] /\ Laid(as[run[c]], pt[run[c]])
  <1>1. PICK s : s = run[c]
    OBVIOUS
  <1>2. s \in Spaces
    BY <1>1 DEF VInv, CoreTypes
  <1>3. OnCores(s) >= 1 /\ OnCores(s) \in Nat
    BY <1>1, OneCore, CoresIn
  <1>4. OnCores(s) + dead[s] <= as[s].refs /\ dead[s] \in Nat /\ as[s].refs \in Nat /\ as[s] \in AsType
        /\ pt[s] \in [Pages -> Entry] /\ Laid(as[s], pt[s])
    BY <1>2, SpaceFacts DEF VInv, Counted, AllLaid
  <1>5. as[s].refs >= 1
    BY <1>3, <1>4, Sums
  <1> QED
    BY <1>1, <1>2, <1>4, <1>5

\* Space s becomes b with the table m.
LEMMA SpaceStep ==
    ASSUME VInv, NEW s \in Spaces, NEW b \in AsType, NEW m \in [Pages -> Entry], Laid(b, m),
           as' = [as EXCEPT ![s] = b], pt' = [pt EXCEPT ![s] = m]
    PROVE  as' \in [Spaces -> AsType] /\ pt' \in [Spaces -> [Pages -> Entry]] /\ AllLaid'
  <1>1. as \in [Spaces -> AsType] /\ pt \in [Spaces -> [Pages -> Entry]] /\ AllLaid
    BY DEF VInv, SpaceTypes
  <1>2. as' \in [Spaces -> AsType] /\ pt' \in [Spaces -> [Pages -> Entry]]
    BY <1>1
  <1>3. ASSUME NEW u \in Spaces
        PROVE  Laid(as'[u], pt'[u])
    <2>1. CASE u = s
      BY <1>1, <2>1
    <2>2. CASE u # s
      <3>1. as'[u] = as[u] /\ pt'[u] = pt[u]
        BY <1>1, <2>2
      <3> QED
        BY <1>1, <3>1 DEF AllLaid
    <2> QED
      BY <2>1, <2>2
  <1> QED
    BY <1>2, <1>3 DEF AllLaid, Laid, InUse

\* No fault is raised.
FaultsFall ==
    /\ fault' \in [Cores -> FaultType]
    /\ \A d \in Cores : fault'[d] = fault[d] \/ fault'[d] = NoFault

\* A call of the program that core c runs.
LEMMA CallStep ==
    ASSUME VInv, NEW c \in Cores, run[c] # NoSpace, UNCHANGED <<run, dead>>,
           NEW b \in AsType, b.refs >= as[run[c]].refs, NEW m \in [Pages -> Entry], Laid(b, m),
           as' = [as EXCEPT ![run[c]] = b], pt' = [pt EXCEPT ![run[c]] = m],
           MemTypes', tlb' \in [Cores -> [Pages -> Entry]], FaultsFall, Cached'
    PROVE  VInv'
  <1>1. PICK s : s = run[c]
    OBVIOUS
  <1>2. s \in Spaces /\ as[s].refs >= 1 /\ as[s].refs \in Nat /\ b.refs \in Nat /\ b.refs >= as[s].refs
    BY <1>1, OwnSpace DEF AsType
  <1>3. as' = [as EXCEPT ![s] = b] /\ pt' = [pt EXCEPT ![s] = m]
    BY <1>1
  <1>4. as' \in [Spaces -> AsType] /\ pt' \in [Spaces -> [Pages -> Entry]] /\ AllLaid'
    BY <1>2, <1>3, SpaceStep
  <1>5. as \in [Spaces -> AsType] /\ dead \in [Spaces -> Nat]
    BY DEF VInv, SpaceTypes
  <1>6. ASSUME NEW u \in Spaces
        PROVE  OnCores(u) + dead'[u] <= as'[u].refs
    <2>1. OnCores(u) + dead[u] <= as[u].refs /\ OnCores(u) \in Nat /\ dead[u] \in Nat /\ as[u].refs \in Nat
      BY <1>5, CoresIn DEF VInv, Counted, AsType
    <2>2. as'[u] = IF u = s THEN b ELSE as[u]
      BY <1>3, <1>5
    <2>3. as'[u].refs >= as[u].refs /\ as'[u].refs \in Nat
      <3>1. CASE u = s
        BY <1>2, <2>2, <3>1
      <3>2. CASE u # s
        <4>1. \A x \in Nat : x >= x
          OBVIOUS
        <4> QED
          BY <2>1, <2>2, <3>2, <4>1, Zenon
      <3> QED
        BY <3>1, <3>2
    <2>4. dead'[u] = dead[u]
      OBVIOUS
    <2>5. OnCores(u) + dead[u] <= as'[u].refs
      BY <2>1, <2>3, MoreHolders, Zenon
    <2> QED
      BY <2>4, <2>5, Zenon
  <1>7. \A u \in Spaces : as'[u].refs = 0 => as'[u] = NoAs
    <2> SUFFICES ASSUME NEW u \in Spaces, as'[u].refs = 0 PROVE as'[u] = NoAs
      OBVIOUS
    <2>1. u # s
      <3>1. b.refs # 0
        <4>1. \A x, y \in Nat : x >= y /\ y >= 1 => x # 0
          OBVIOUS
        <4> QED
          BY <1>2, <4>1
      <3> QED
        BY <1>2, <1>3, <1>5, <3>1
    <2>2. as'[u] = as[u]
      BY <1>3, <1>5, <2>1
    <2> QED
      BY <2>2 DEF VInv, Unheld
  <1>8. Counted'
    BY <1>6 DEF Counted, OnCores
  <1>9. Unheld'
    BY <1>7 DEF Unheld, NoAs
  <1>10. SpaceTypes' /\ CoreTypes'
    BY <1>4, <1>5 DEF SpaceTypes, CoreTypes, VInv, FaultsFall
  <1>11. Faulting'
    BY DEF Faulting, FaultsFall, VInv, NoFault
  <1> QED
    BY <1>4, <1>8, <1>9, <1>10, <1>11 DEF VInv

\* vmm_reserve: space s becomes b, with r in its slot k.
RoomFor(s, r, k, b) ==
    /\ b \in AsType /\ b.refs = as[s].refs /\ b.brk = as[s].brk
    /\ k \in Regions \ InUse(as[s]) /\ b.vm = [as[s].vm EXCEPT ![k] = r]
    /\ r \in Region /\ r.base # 0
    /\ Span(r) \subseteq (as[s].brk + 1)..(MmapTop - 1) /\ Span(r) \subseteq Pages
    /\ \A i \in InUse(as[s]) : Span(r) \cap Span(as[s].vm[i]) = {}

IsPlaced(r, at, n, prot, id) ==
    /\ r.base = at /\ r.len = n /\ r.prot = prot /\ r.shm = id
    /\ Span(r) = at..(at + n - 1)

LEMMA Reserving ==
    ASSUME SpaceTypes, NEW s \in Spaces, NEW n \in Nat, NEW prot \in SUBSET Rights, NEW id \in 0..(MaxId + 1),
           NEW stack \in BOOLEAN, CanReserve(s, n)
    PROVE  \E r, k, b : /\ RoomFor(s, r, k, b)
                       /\ Reserved(s, n, prot, id, stack) = [as EXCEPT ![s] = b]
                       /\ IsPlaced(r, Place(s, n), n, prot, id)
  <1>00. PICK r : r = [base |-> Place(s, n), len |-> n, prot |-> prot, shm |-> id, stack |-> stack]
    OBVIOUS
  <1>1. PICK k : k = Min(Regions \ Used(s))
    OBVIOUS
  <1>2. PICK at : at = Place(s, n)
    OBVIOUS
  <1>3. as[s] \in AsType /\ as[s].vm \in [Regions -> Region] /\ as[s].brk \in 1..MmapTop /\ Used(s) = InUse(as[s])
    BY SpaceFacts
  <1>4. k \in Regions \ InUse(as[s]) /\ at # 0
    BY <1>1, <1>2, <1>3, ReserveFacts
  <1>5. /\ at \in Pages /\ at >= as[s].brk + 1 /\ at + n <= MmapTop
        /\ \A i \in InUse(as[s]) : at..(at + n - 1) \cap Span(as[s].vm[i]) = {}
    BY <1>2, <1>3, <1>4, PlaceFacts
  <1>6. /\ r \in Region /\ r.base = at /\ r.len = n /\ r.prot = prot /\ r.shm = id
    BY <1>00, <1>2, <1>5 DEF Region
  <1>7. Span(r) = at..(at + n - 1)
    BY <1>6 DEF Span
  <1>07. at \in Nat /\ as[s].brk \in Nat /\ MmapTop \in Nat /\ Pages = 1..(MmapTop - 1)
    <2>1. 1..MmapTop \subseteq Nat
      BY Numbers
    <2> QED
      BY <1>3, <1>5, <2>1, Numbers
  <1>8. at..(at + n - 1) \subseteq (as[s].brk + 1)..(MmapTop - 1)
    BY <1>5, <1>07, Between
  <1>9. (as[s].brk + 1)..(MmapTop - 1) \subseteq Pages
    BY <1>07, Between
  <1>10. PICK b : b = [as[s] EXCEPT !.vm = [@ EXCEPT ![k] = r]]
    OBVIOUS
  <1>11. /\ b \in AsType /\ b.refs = as[s].refs /\ b.brk = as[s].brk /\ b.vm = [as[s].vm EXCEPT ![k] = r]
    <2>1. [as[s].vm EXCEPT ![k] = r] \in [Regions -> Region]
      BY <1>3, <1>6
    <2> QED
      BY <1>3, <1>10, <2>1 DEF AsType
  <1>12. Reserved(s, n, prot, id, stack) = [as EXCEPT ![s] = b]
    BY <1>00, <1>1, <1>10 DEF Reserved
  <1>13. Span(r) \subseteq (as[s].brk + 1)..(MmapTop - 1) /\ Span(r) \subseteq Pages /\ r.base # 0
    BY <1>4, <1>6, <1>7, <1>8, <1>9
  <1>14. RoomFor(s, r, k, b)
    BY <1>4, <1>5, <1>6, <1>7, <1>11, <1>13 DEF RoomFor
  <1>15. IsPlaced(r, Place(s, n), n, prot, id)
    BY <1>2, <1>6, <1>7 DEF IsPlaced
  <1> QED
    BY <1>12, <1>14, <1>15


----------------------------------------------------------------------------
(* The calls.                                                              *)

LEMMA FaultKept ==
    ASSUME VInv
    PROVE  /\ fault \in [Cores -> FaultType] /\ tlb \in [Cores -> [Pages -> Entry]] /\ free \subseteq Frames
           /\ segs \in [1..NSegs -> SegType] /\ nextId \in 1..(MaxId + 1) /\ Cached
  BY DEF VInv, CoreTypes, MemTypes

LEMMA FaultsSame ==
    ASSUME VInv, UNCHANGED fault
    PROVE  FaultsFall
  BY DEF VInv, CoreTypes, FaultsFall

\* Steps that leave the tables and the cores alone.
LEMMA TlbSame ==
    ASSUME Cached, UNCHANGED <<tlb, run, pt>>
    PROVE  Cached'
  BY DEF Cached, TlbTrue

\* A mapping without pages, with or without a holder more.
Mapped(c, n, prot, stack, x) ==
    /\ run[c] # NoSpace /\ CanReserve(run[c], n)
    /\ x = 0 => as' = Reserved(run[c], n, prot, 0, stack)
    /\ x = 1 => as' = [Reserved(run[c], n, prot, 0, stack) EXCEPT ![run[c]].refs = @ + 1]
    /\ UNCHANGED <<pt, free, segs, nextId, dead, run, tlb, fault>>

LEMMA MappedStep ==
    ASSUME VInv, NEW c \in Cores, NEW n \in Nat, NEW prot \in SUBSET Rights,
           NEW stack \in BOOLEAN, NEW x \in {0, 1}, Mapped(c, n, prot, stack, x)
    PROVE  VInv'
  <1>0. run[c] # NoSpace
    BY DEF Mapped
  <1>1. PICK s : s = run[c]
    OBVIOUS
  <1>2. s \in Spaces /\ as[s] \in AsType /\ pt[s] \in [Pages -> Entry] /\ Laid(as[s], pt[s]) /\ as[s].refs \in Nat
        /\ as \in [Spaces -> AsType] /\ pt \in [Spaces -> [Pages -> Entry]] /\ SpaceTypes
    BY <1>0, <1>1, OwnSpace DEF AsType, VInv, SpaceTypes
  <1>3. PICK r, k, b : RoomFor(s, r, k, b) /\ Reserved(s, n, prot, 0, stack) = [as EXCEPT ![s] = b]
    <2>1. 0 \in 0..(MaxId + 1) /\ CanReserve(s, n)
      BY <1>1, Numbers DEF Mapped
    <2>2. \E r, k, b : /\ RoomFor(s, r, k, b)
                       /\ Reserved(s, n, prot, 0, stack) = [as EXCEPT ![s] = b]
                       /\ IsPlaced(r, Place(s, n), n, prot, 0)
      BY <1>2, <2>1, Reserving
    <2> QED
      BY <2>2
  <1>4. PICK d : d = IF x = 0 THEN b ELSE [b EXCEPT !.refs = @ + 1]
    OBVIOUS
  <1>5. as' = [as EXCEPT ![s] = d]
    <2>1. CASE x = 0
      BY <1>1, <1>3, <1>4, <2>1 DEF Mapped
    <2>2. CASE x = 1
      <3>1. as' = [[as EXCEPT ![s] = b] EXCEPT ![s].refs = @ + 1]
        BY <1>1, <1>3, <2>2 DEF Mapped
      <3>2. [as EXCEPT ![s] = b][s] = b /\ d = [b EXCEPT !.refs = @ + 1]
        BY <1>2, <1>4, <2>2
      <3>3. as' = [[as EXCEPT ![s] = b] EXCEPT ![s] = d]
        BY <3>1, <3>2
      <3> QED
        BY <1>2, <3>3
    <2> QED
      BY <2>1, <2>2
  <1>6. /\ b \in AsType /\ b.refs = as[s].refs /\ b.brk = as[s].brk
        /\ k \in Regions \ InUse(as[s]) /\ b.vm = [as[s].vm EXCEPT ![k] = r]
        /\ r \in Region /\ r.base # 0
        /\ Span(r) \subseteq (as[s].brk + 1)..(MmapTop - 1)
        /\ \A i \in InUse(as[s]) : Span(r) \cap Span(as[s].vm[i]) = {}
    BY <1>3 DEF RoomFor
  <1>7. /\ d \in AsType /\ d.brk = as[s].brk /\ d.vm = [as[s].vm EXCEPT ![k] = r] /\ d.refs >= as[s].refs
    <2>1. \A y \in Nat : y + 1 \in Nat /\ y >= y /\ y + 1 >= y
      OBVIOUS
    <2>2. b.refs + 1 \in Nat
      BY <1>2, <1>6, <2>1
    <2>3. /\ d \in AsType /\ d.brk = b.brk /\ d.vm = b.vm /\ d.refs = IF x = 0 THEN b.refs ELSE b.refs + 1
      BY <1>4, <1>6, <2>2 DEF AsType
    <2> QED
      BY <1>2, <1>6, <2>1, <2>3
  <1>8. Laid(d, pt[s])
    <2>1. PICK a, m : a = as[s] /\ m = pt[s]
      OBVIOUS
    <2>2. /\ a \in AsType /\ m \in [Pages -> Entry] /\ Laid(a, m) /\ d \in AsType /\ d.brk = a.brk
          /\ d.vm = [a.vm EXCEPT ![k] = r] /\ r \in Region /\ r.base # 0 /\ k \in Regions \ InUse(a)
          /\ Span(r) \subseteq (a.brk + 1)..(MmapTop - 1)
          /\ \A i \in InUse(a) : Span(r) \cap Span(a.vm[i]) = {}
      BY <1>2, <1>6, <1>7, <2>1
    <2>3. (\A v \in Pages \ Span(r) : m[v] = m[v]) /\ (\A v \in Pages \cap Span(r) : m[v] = m[v] \/ m[v].prot = r.prot)
      OBVIOUS
    <2>4. Joins(a, m, k, r, d, m)
      BY <2>2, <2>3 DEF Joins
    <2>5. Laid(d, m)
      BY <2>4, NewRegion
    <2> QED
      BY <2>1, <2>5
  <1>9. pt' = [pt EXCEPT ![s] = pt[s]] /\ UNCHANGED <<run, dead, tlb, pt, free, segs, nextId, fault>>
    BY <1>2 DEF Mapped
  <1>10. MemTypes' /\ Cached' /\ tlb' \in [Cores -> [Pages -> Entry]] /\ FaultsFall
    BY <1>9, FaultKept, FaultsSame, TlbSame DEF MemTypes
  <1> QED
    BY <1>0, <1>1, <1>2, <1>5, <1>7, <1>8, <1>9, <1>10, CallStep

LEMMA MmapStep ==
    ASSUME VInv, NEW c \in Cores, NEW n \in Nat, NEW prot \in SUBSET Rights, Mmap(c, n, prot)
    PROVE  VInv'
  <1>1. Mapped(c, n, prot, FALSE, 0)
    BY DEF Mapped, Mmap, InCall
  <1> QED
    BY <1>1, MappedStep

LEMMA ThreadCreateStep ==
    ASSUME VInv, NEW c \in Cores, NEW n \in Nat, ThreadCreate(c, n)
    PROVE  VInv'
  <1>1. Mapped(c, n, {"w"}, TRUE, 1)
    BY DEF Mapped, ThreadCreate, InCall
  <1>2. {"w"} \in SUBSET Rights
    BY DEF Rights
  <1> QED
    BY <1>1, <1>2, MappedStep

\* The break moves to k, where no page was left above it.
BreakTo(c, k) ==
    /\ run[c] # NoSpace
    /\ as' = [as EXCEPT ![run[c]].brk = k]
    /\ UNCHANGED <<pt, free, segs, nextId, dead, run, tlb, fault>>
    /\ \A i \in InUse(as[run[c]]) : Span(as[run[c]].vm[i]) \subseteq (k + 1)..(MmapTop - 1)
    /\ \A v \in Pages : v < as[run[c]].brk /\ pt[run[c]][v] # Absent => v < k

LEMMA BreakStep ==
    ASSUME VInv, NEW c \in Cores, NEW k \in 1..MmapTop, BreakTo(c, k)
    PROVE  VInv'
  <1>0. run[c] # NoSpace /\ UNCHANGED <<run, dead, tlb, pt, free, segs, nextId, fault>>
    BY DEF BreakTo
  <1>1. PICK s : s = run[c]
    OBVIOUS
  <1>2. s \in Spaces /\ as[s] \in AsType /\ pt[s] \in [Pages -> Entry] /\ Laid(as[s], pt[s]) /\ as[s].refs \in Nat
        /\ as \in [Spaces -> AsType] /\ pt \in [Spaces -> [Pages -> Entry]]
    BY <1>0, <1>1, OwnSpace DEF AsType, VInv, SpaceTypes
  <1>3. PICK b : b = [as[s] EXCEPT !.brk = k]
    OBVIOUS
  <1>4. b \in AsType /\ b.brk = k /\ b.vm = as[s].vm /\ b.refs = as[s].refs
    <2>1. k \in HeapBase..MmapTop
      BY Numbers
    <2> QED
      BY <1>2, <1>3, <2>1 DEF AsType
  <1>5. b.refs >= as[s].refs
    <2>1. \A y \in Nat : y >= y
      OBVIOUS
    <2> QED
      BY <1>2, <1>4, <2>1, Zenon
  <1>6. as' = [as EXCEPT ![s] = b] /\ pt' = [pt EXCEPT ![s] = pt[s]]
    BY <1>1, <1>2, <1>3 DEF BreakTo
  <1>7. Laid(b, pt[s])
    <2>1. \A v \in Pages : v < as[s].brk /\ pt[s][v] # Absent => v < b.brk
      BY <1>1, <1>4 DEF BreakTo
    <2>2. \A v \in Pages : pt[s][v] # Absent =>
               /\ v < as[s].brk \/ \E i \in InUse(as[s]) : v \in Span(as[s].vm[i])
               /\ \A i \in InUse(as[s]) : v \in Span(as[s].vm[i]) => pt[s][v].prot = as[s].vm[i].prot
      BY <1>2 DEF Laid
    <2>3. \A v \in Pages : pt[s][v] # Absent =>
               /\ v < b.brk \/ \E i \in InUse(as[s]) : v \in Span(as[s].vm[i])
               /\ \A i \in InUse(as[s]) : v \in Span(as[s].vm[i]) => pt[s][v].prot = as[s].vm[i].prot
      BY <2>1, <2>2, Zenon
    <2>4. \A i \in InUse(as[s]) : Span(as[s].vm[i]) \subseteq (b.brk + 1)..(MmapTop - 1)
      BY <1>1, <1>4 DEF BreakTo
    <2> QED
      BY <1>2, <1>4, <2>3, <2>4, SameRegions
  <1>8. MemTypes' /\ Cached' /\ tlb' \in [Cores -> [Pages -> Entry]] /\ FaultsFall
    BY <1>0, FaultKept, FaultsSame, TlbSame DEF MemTypes
  <1> QED
    BY <1>0, <1>1, <1>2, <1>4, <1>5, <1>6, <1>7, <1>8, CallStep

\* vmm_mmap_floor: no mapping is below it.
LEMMA FloorFacts ==
    ASSUME SpaceTypes, NEW s \in Spaces
    PROVE  /\ MmapFloor(s) \in Nat /\ MmapFloor(s) <= MmapTop
           /\ \A i \in Used(s) : \A v \in Span(as[s].vm[i]) : MmapFloor(s) <= v
  <1>1. as[s].vm \in [Regions -> Region] /\ Used(s) \subseteq Regions
    BY SpaceFacts
  <1>2. \A i \in Used(s) : as[s].vm[i] \in Region /\ as[s].vm[i].base \in Pages
    BY <1>1, RegionFacts DEF Used
  <1>3. CASE Used(s) = {}
    BY <1>3, Numbers DEF MmapFloor
  <1>4. CASE Used(s) # {}
    <2>1. PICK T : T = {as[s].vm[i].base : i \in Used(s)}
      OBVIOUS
    <2>2. T \subseteq Pages /\ T # {}
      BY <1>2, <1>4, <2>1
    <2>3. MmapFloor(s) = Min(T)
      BY <1>4, <2>1 DEF MmapFloor
    <2>4. Min(T) \in T /\ \A y \in T : Min(T) <= y
      BY <2>2, Numbers, MinFacts
    <2>5. Min(T) \in Nat /\ Min(T) <= MmapTop
      <3>1. \A v \in Pages : v \in Nat /\ v <= MmapTop
        BY Numbers
      <3> QED
        BY <2>2, <2>4, <3>1
    <2>6. ASSUME NEW i \in Used(s), NEW v \in Span(as[s].vm[i])
          PROVE  Min(T) <= v
      <3>1. PICK b : b = as[s].vm[i].base
        OBVIOUS
      <3>2. b \in T /\ b \in Nat
        BY <1>2, <2>1, <2>6, <3>1, Numbers
      <3>3. v \in Nat /\ b <= v
        BY <1>2, <2>6, <3>1, RegionFacts
      <3>4. Min(T) <= b
        BY <2>4, <3>2
      <3>5. \A x, y, z \in Nat : x <= y /\ y <= z => x <= z
        OBVIOUS
      <3> QED
        BY <2>5, <3>2, <3>3, <3>4, <3>5, Zenon
    <2> QED
      BY <2>3, <2>5, <2>6
  <1> QED
    BY <1>3, <1>4

LEMMA GrowNumbers ==
    ASSUME NEW b \in Nat, NEW n \in Nat, NEW f \in Nat, NEW t \in Nat, b >= 1, b + n <= f - 1, f <= t
    PROVE  /\ b + n \in 1..t
           /\ \A v \in (b + 1)..(t - 1) : f <= v => v \in (b + n + 1)..(t - 1)
           /\ \A v \in Nat : v < b => v < b + n
  OBVIOUS

LEMMA GrowStep ==
    ASSUME VInv, NEW c \in Cores, NEW n \in Nat, Grow(c, n)
    PROVE  VInv'
  <1>0. run[c] # NoSpace
    BY DEF Grow, InCall
  <1>1. PICK s : s = run[c]
    OBVIOUS
  <1>2. s \in Spaces /\ SpaceTypes /\ Laid(as[s], pt[s])
    BY <1>0, <1>1, OwnSpace DEF VInv
  <1>3. PICK b, f : b = as[s].brk /\ f = MmapFloor(s)
    OBVIOUS
  <1>4. b \in Nat /\ b >= 1 /\ f \in Nat /\ f <= MmapTop /\ MmapTop \in Nat /\ Pages \subseteq Nat
    BY <1>2, <1>3, BreakFacts, FloorFacts, Numbers
  <1>5. b + n <= f - 1 /\ as' = [as EXCEPT ![s].brk = b + n]
    BY <1>1, <1>3 DEF Grow
  <1>6. /\ b + n \in 1..MmapTop
        /\ \A v \in (b + 1)..(MmapTop - 1) : f <= v => v \in (b + n + 1)..(MmapTop - 1)
        /\ \A v \in Nat : v < b => v < b + n
    BY <1>4, <1>5, GrowNumbers
  <1>7. PICK k : k = b + n
    OBVIOUS
  <1>8. \A i \in InUse(as[s]) : Span(as[s].vm[i]) \subseteq (k + 1)..(MmapTop - 1)
    <2> SUFFICES ASSUME NEW i \in InUse(as[s]), NEW v \in Span(as[s].vm[i])
                 PROVE  v \in (k + 1)..(MmapTop - 1)
      OBVIOUS
    <2>1. v \in (b + 1)..(MmapTop - 1)
      BY <1>2, <1>3 DEF Laid
    <2>2. f <= v
      BY <1>2, <1>3, SpaceFacts, FloorFacts
    <2> QED
      BY <1>6, <1>7, <2>1, <2>2
  <1>9. \A v \in Pages : v < as[s].brk /\ pt[s][v] # Absent => v < k
    BY <1>3, <1>4, <1>6, <1>7
  <1>10. BreakTo(c, k)
    BY <1>0, <1>1, <1>5, <1>7, <1>8, <1>9 DEF BreakTo, Grow
  <1> QED
    BY <1>6, <1>7, <1>10, BreakStep

LEMMA ShrinkNumbers ==
    ASSUME NEW b \in Nat, NEW n \in Nat, NEW t \in Nat, n <= b - 1, b <= t
    PROVE  /\ b - n \in 1..t
           /\ (b + 1)..(t - 1) \subseteq (b - n + 1)..(t - 1)
           /\ \A v \in Nat : v < b /\ v \notin (b - n)..(b - 1) => v < b - n
  OBVIOUS

LEMMA ShrinkStep ==
    ASSUME VInv, ~Leftovers, NEW c \in Cores, NEW n \in Nat, Shrink(c, n)
    PROVE  VInv'
  <1>0. run[c] # NoSpace
    BY DEF Shrink, InCall
  <1>1. PICK s : s = run[c]
    OBVIOUS
  <1>2. s \in Spaces /\ SpaceTypes /\ Laid(as[s], pt[s])
    BY <1>0, <1>1, OwnSpace DEF VInv
  <1>3. PICK b : b = as[s].brk
    OBVIOUS
  <1>4. b \in Nat /\ b >= 1 /\ b <= MmapTop /\ MmapTop \in Nat /\ Pages \subseteq Nat
    BY <1>2, <1>3, BreakFacts, Numbers
  <1>5. n <= b - 1 /\ as' = [as EXCEPT ![s].brk = b - n] /\ \A v \in (b - n)..(b - 1) : pt[s][v] = Absent
    BY <1>1, <1>3, Numbers DEF Shrink
  <1>6. /\ b - n \in 1..MmapTop
        /\ (b + 1)..(MmapTop - 1) \subseteq (b - n + 1)..(MmapTop - 1)
        /\ \A v \in Nat : v < b /\ v \notin (b - n)..(b - 1) => v < b - n
    BY <1>4, <1>5, ShrinkNumbers
  <1>7. PICK k : k = b - n
    OBVIOUS
  <1>8. \A i \in InUse(as[s]) : Span(as[s].vm[i]) \subseteq (k + 1)..(MmapTop - 1)
    <2>1. \A i \in InUse(as[s]) : Span(as[s].vm[i]) \subseteq (b + 1)..(MmapTop - 1)
      BY <1>2, <1>3 DEF Laid
    <2> QED
      BY <1>6, <1>7, <2>1
  <1>9. \A v \in Pages : v < as[s].brk /\ pt[s][v] # Absent => v < k
    <2> SUFFICES ASSUME NEW v \in Pages, v < b, pt[s][v] # Absent PROVE v < b - n
      BY <1>3, <1>7
    <2>1. v \in Nat /\ v \notin (b - n)..(b - 1)
      BY <1>4, <1>5
    <2> QED
      BY <1>6, <2>1
  <1>10. BreakTo(c, k)
    BY <1>0, <1>1, <1>5, <1>7, <1>8, <1>9 DEF BreakTo, Shrink
  <1> QED
    BY <1>6, <1>7, <1>10, BreakStep

----------------------------------------------------------------------------
(* Frames and segments.                                                    *)

LEMMA FramesInType ==
    ASSUME SpaceTypes, NEW s \in Spaces, NEW span \in SUBSET Pages
    PROVE  FramesIn(s, span) \subseteq Frames
  <1>1. pt[s] \in [Pages -> Entry]
    BY SpaceFacts
  <1>2. \A v \in span : pt[s][v].frame \in Frames \cup {0}
    BY <1>1 DEF Entry
  <1> QED
    BY <1>2 DEF FramesIn

LEMMA SegFramesType ==
    ASSUME NEW S \in [1..NSegs -> SegType]
    PROVE  SegFrames(S) \subseteq Frames
  <1>1. \A k \in 1..NSegs : S[k].frames \in Seq(Frames)
    BY DEF SegType
  <1>2. \A k \in 1..NSegs : \A i \in DOMAIN S[k].frames : S[k].frames[i] \in Frames
    BY <1>1
  <1> QED
    BY <1>2 DEF SegFrames

\* shm_dropped
LEMMA DroppedType ==
    ASSUME MemTypes, NEW s \in Spaces, NEW I \in SUBSET Regions
    PROVE  Dropped(s, I) \in [1..NSegs -> SegType]
  <1>1. ASSUME NEW k \in 1..NSegs PROVE Dropped(s, I)[k] \in SegType
    <2>1. PICK n : n = Mapping(s, I, k)
      OBVIOUS
    <2>2. n \in Nat
      <3>1. PICK J : J = {i \in I : as[s].vm[i].shm = segs[k].id + 1}
        OBVIOUS
      <3>2. J \in SUBSET Regions /\ IsFiniteSet(Regions)
        <4>1. 1 \in Int /\ NRegions \in Int /\ Regions = 1..NRegions
          BY Numbers
        <4>2. IsFiniteSet(1..NRegions)
          BY <4>1, FS_Interval
        <4> QED
          BY <3>1, <4>1, <4>2
      <3>3. Cardinality(J) \in Nat
        BY <3>2, FS_Subset, FS_CardinalityType
      <3> QED
        BY <2>1, <3>1, <3>3 DEF Mapping
    <2>3. PICK q : q = segs[k]
      OBVIOUS
    <2>4. q \in SegType
      BY <1>1, <2>3 DEF MemTypes
    <2>5. PICK left : left = IF q.maps > n THEN q.maps - n ELSE 0
      OBVIOUS
    <2>6. left \in Nat
      BY <2>2, <2>4, <2>5 DEF SegType
    <2>7. Dropped(s, I)[k] = IF ~q.used \/ n = 0 THEN q
                             ELSE IF left = 0 /\ q.removed THEN NoSeg
                             ELSE [q EXCEPT !.maps = left]
      BY <1>1, <2>1, <2>3, <2>5, Zenon DEF Dropped
    <2>8. [q EXCEPT !.maps = left] \in SegType
      BY <2>4, <2>6 DEF SegType
    <2> QED
      BY <2>4, <2>7, <2>8, Plain
  <1>2. Dropped(s, I) = [k \in 1..NSegs |-> Dropped(s, I)[k]]
    BY DEF Dropped
  <1> QED
    BY <1>1, <1>2

\* What is freed are frames.
LEMMA FreedType ==
    ASSUME MemTypes, NEW T \in [1..NSegs -> SegType], NEW A \in SUBSET Frames
    PROVE  /\ free \cup SegFreed(segs, T) \in SUBSET Frames
           /\ free \cup A \in SUBSET Frames
           /\ free \cup SegFreed(segs, T) \cup A \in SUBSET Frames
  <1>1. SegFreed(segs, T) \subseteq Frames
    BY SegFramesType DEF SegFreed, MemTypes
  <1> QED
    BY <1>1 DEF MemTypes

----------------------------------------------------------------------------
(* munmap and mprotect.                                                    *)

\* The space without its region i.
Without(a, i) == [a EXCEPT !.vm = [@ EXCEPT ![i] = NoRegion]]
Emptied(m, span) == [v \in Pages |-> IF v \in span THEN Absent ELSE m[v]]

LEMMA WithoutRegion ==
    ASSUME NEW a \in AsType, NEW m \in [Pages -> Entry], Laid(a, m), NEW i \in InUse(a)
    PROVE  /\ Without(a, i) \in AsType /\ Without(a, i).refs = a.refs /\ Emptied(m, Span(a.vm[i])) \in [Pages -> Entry]
           /\ Laid(Without(a, i), Emptied(m, Span(a.vm[i])))
           /\ Span(a.vm[i]) \subseteq Pages
  <1>1. PICK b, p : b = Without(a, i) /\ p = Emptied(m, Span(a.vm[i]))
    OBVIOUS
  <1>2. a.vm \in [Regions -> Region] /\ i \in Regions /\ a.brk \in 1..MmapTop
    BY Numbers DEF AsType, InUse
  <1>3. [a.vm EXCEPT ![i] = NoRegion] \in [Regions -> Region]
    BY <1>2, Plain
  <1>4. b \in AsType /\ b.brk = a.brk /\ b.vm = [a.vm EXCEPT ![i] = NoRegion] /\ b.refs = a.refs
    BY <1>1, <1>3 DEF Without, AsType
  <1>5. p \in [Pages -> Entry] /\ \A v \in Pages : p[v] = IF v \in Span(a.vm[i]) THEN Absent ELSE m[v]
    BY <1>1, Plain DEF Emptied
  <1>6. Laid(b, p)
    BY <1>4, <1>5, OldRegion
  <1>7. Span(a.vm[i]) \subseteq Pages
    <2>1. Span(a.vm[i]) \subseteq (a.brk + 1)..(MmapTop - 1)
      BY DEF Laid
    <2> QED
      BY <1>2, <2>1, Numbers
  <1> QED
    BY <1>1, <1>4, <1>5, <1>6, <1>7

\* What UnmapRegion does to the space and its table.
LEMMA Unmapped ==
    ASSUME SpaceTypes, NEW s \in Spaces, NEW i \in Used(s)
    PROVE  /\ [as EXCEPT ![s].vm[i] = NoRegion] = [as EXCEPT ![s] = Without(as[s], i)]
           /\ \A span : Cleared(s, span) = [pt EXCEPT ![s] = Emptied(pt[s], span)]
  BY DEF SpaceTypes, Without, Emptied, Cleared

LEMMA MunmapStep ==
    ASSUME VInv, NEW c \in Cores, NEW i, Munmap(c, i)
    PROVE  VInv'
  <1>0. run[c] # NoSpace
    BY DEF Munmap, InCall
  <1>1. PICK s : s = run[c]
    OBVIOUS
  <1>2. /\ s \in Spaces /\ SpaceTypes /\ MemTypes /\ as[s] \in AsType /\ pt[s] \in [Pages -> Entry]
        /\ Laid(as[s], pt[s]) /\ as[s].refs \in Nat
    BY <1>0, <1>1, OwnSpace DEF VInv, AsType
  <1>3. i \in Used(s) /\ Used(s) = InUse(as[s]) /\ Used(s) \subseteq Regions
    BY <1>1, <1>2, SpaceFacts DEF Munmap
  <1>4. PICK b, p, span : b = Without(as[s], i) /\ span = Span(as[s].vm[i]) /\ p = Emptied(pt[s], span)
    OBVIOUS
  <1>5. b \in AsType /\ b.refs = as[s].refs /\ p \in [Pages -> Entry] /\ Laid(b, p) /\ span \subseteq Pages
    <2>1. PICK a, m : a = as[s] /\ m = pt[s]
      OBVIOUS
    <2>2. a \in AsType /\ m \in [Pages -> Entry] /\ Laid(a, m) /\ i \in InUse(a)
      BY <1>2, <1>3, <2>1
    <2>3. b = Without(a, i) /\ span = Span(a.vm[i]) /\ p = Emptied(m, span)
      BY <1>4, <2>1
    <2>4. /\ Without(a, i) \in AsType /\ Without(a, i).refs = a.refs /\ Emptied(m, Span(a.vm[i])) \in [Pages -> Entry]
          /\ Laid(Without(a, i), Emptied(m, Span(a.vm[i])))
          /\ Span(a.vm[i]) \subseteq Pages
      BY <2>2, WithoutRegion
    <2> QED
      BY <2>1, <2>3, <2>4
  <1>6. /\ as' = [as EXCEPT ![s] = b] /\ pt' = [pt EXCEPT ![s] = p] /\ Shootdown(c, run[c], span)
        /\ UNCHANGED <<nextId, dead, run, fault>>
    BY <1>1, <1>2, <1>3, <1>4, Unmapped DEF Munmap, UnmapRegion
  <1>7. Cached' /\ tlb' \in [Cores -> [Pages -> Entry]]
    <2>1. \A v \in Pages : v \notin span => p[v] = pt[run[c]][v]
      BY <1>1, <1>4 DEF Emptied
    <2>2. pt' = [pt EXCEPT ![run[c]] = p]
      BY <1>1, <1>6
    <2> QED
      <3>1. Told(c, span, p)
        BY <1>0, <1>6, <2>1, <2>2 DEF Told
      <3> QED
        BY <3>1, ShotDown
  <1>8. MemTypes'
    <2>1. FramesIn(s, span) \in SUBSET Frames
      BY <1>2, <1>5, FramesInType
    <2>2. {i} \in SUBSET Regions
      BY <1>3
    <2>3. Dropped(s, {i}) \in [1..NSegs -> SegType]
      BY <1>2, <2>2, DroppedType
    <2>4. \/ segs' = Dropped(s, {i}) /\ free' = free \cup SegFreed(segs, segs')
          \/ segs' = segs /\ free' = free \cup FramesIn(s, span)
      BY <1>1, <1>4 DEF Munmap, UnmapRegion
    <2>5. segs' \in [1..NSegs -> SegType] /\ free' \in SUBSET Frames
      BY <1>2, <2>1, <2>3, <2>4, FreedType DEF MemTypes
    <2> QED
      BY <1>2, <1>6, <2>5 DEF MemTypes
  <1>9. b.refs >= as[run[c]].refs /\ FaultsFall
    <2>1. \A y \in Nat : y >= y
      OBVIOUS
    <2> QED
      BY <1>1, <1>2, <1>5, <1>6, <2>1, FaultKept, FaultsSame
  <1> QED
    BY <1>0, <1>1, <1>5, <1>6, <1>7, <1>8, <1>9, CallStep

LEMMA MprotectStep ==
    ASSUME VInv, NEW c \in Cores, NEW i, NEW prot \in SUBSET Rights, Mprotect(c, i, prot)
    PROVE  VInv'
  <1>0. run[c] # NoSpace
    BY DEF Mprotect, InCall
  <1>1. PICK s : s = run[c]
    OBVIOUS
  <1>2. /\ s \in Spaces /\ SpaceTypes /\ MemTypes /\ as[s] \in AsType /\ pt[s] \in [Pages -> Entry]
        /\ Laid(as[s], pt[s]) /\ as[s].refs \in Nat /\ as[s].vm \in [Regions -> Region]
    BY <1>0, <1>1, OwnSpace DEF VInv, AsType
  <1>3. i \in Used(s) /\ Used(s) = InUse(as[s]) /\ Used(s) \subseteq Regions
    BY <1>1, <1>2, SpaceFacts DEF Mprotect
  <1>4. PICK r, b, span, p :
          /\ r = [as[s].vm[i] EXCEPT !.prot = prot]
          /\ b = [as[s] EXCEPT !.vm = [@ EXCEPT ![i] = r]]
          /\ span = Span(as[s].vm[i])
          /\ p = [v \in Pages |-> IF v \in span /\ pt[s][v] # Absent THEN [pt[s][v] EXCEPT !.prot = prot]
                                  ELSE pt[s][v]]
    OBVIOUS
  <1>5. r \in Region /\ r.base = as[s].vm[i].base /\ r.len = as[s].vm[i].len /\ r.prot = prot /\ Span(r) = span
    <2>1. as[s].vm[i] \in Region
      BY <1>2, <1>3
    <2> QED
      BY <1>4, <2>1 DEF Region, Span
  <1>6. b \in AsType /\ b.refs = as[s].refs /\ b.brk = as[s].brk /\ b.vm = [as[s].vm EXCEPT ![i] = r]
    <2>1. [as[s].vm EXCEPT ![i] = r] \in [Regions -> Region]
      BY <1>2, <1>5
    <2> QED
      BY <1>2, <1>4, <2>1 DEF AsType
  <1>7. /\ p \in [Pages -> Entry]
        /\ \A v \in Pages : IF v \in Span(r) /\ pt[s][v] # Absent THEN p[v].prot = r.prot ELSE p[v] = pt[s][v]
    BY <1>2, <1>4, <1>5 DEF Entry
  <1>8. Laid(b, p)
    <2>1. PICK a, m : a = as[s] /\ m = pt[s]
      OBVIOUS
    <2>2. Repainted(a, m, i, r, b, p)
      BY <1>2, <1>3, <1>5, <1>6, <1>7, <2>1 DEF Repainted
    <2> QED
      BY <2>2, NewRights
  <1>9. /\ as' = [as EXCEPT ![s] = b] /\ pt' = [pt EXCEPT ![s] = p] /\ Shootdown(c, run[c], span)
        /\ UNCHANGED <<free, segs, nextId, dead, run, fault>>
    <2>1. as' = [as EXCEPT ![s].vm[i].prot = prot]
      BY <1>1 DEF Mprotect
    <2>2. pt' = [pt EXCEPT ![s] = p]
      BY <1>1, <1>2, <1>4 DEF Mprotect, FlagsOf, SpaceTypes
    <2>3. as' = [as EXCEPT ![s] = b]
      BY <1>2, <1>4, <2>1
    <2> QED
      BY <1>1, <1>4, <2>2, <2>3 DEF Mprotect
  <1>10. Cached' /\ tlb' \in [Cores -> [Pages -> Entry]]
    <2>1. \A v \in Pages : v \notin span => p[v] = pt[run[c]][v]
      BY <1>1, <1>5, <1>7
    <2>2. pt' = [pt EXCEPT ![run[c]] = p]
      BY <1>1, <1>9
    <2> QED
      <3>1. Told(c, span, p)
        BY <1>0, <1>9, <2>1, <2>2 DEF Told
      <3> QED
        BY <3>1, ShotDown
  <1>11. b.refs >= as[run[c]].refs /\ FaultsFall /\ MemTypes'
    <2>1. \A y \in Nat : y >= y
      OBVIOUS
    <2> QED
      BY <1>1, <1>2, <1>6, <1>9, <2>1, FaultKept, FaultsSame DEF MemTypes
  <1> QED
    BY <1>0, <1>1, <1>6, <1>7, <1>8, <1>9, <1>10, <1>11, CallStep

----------------------------------------------------------------------------
(* shm_attach.                                                             *)

\* A place for segment k in the space of core c.
LEMMA AttachFacts ==
    ASSUME VInv, NEW c \in Cores, NEW k \in 1..NSegs, NEW prot \in SUBSET Rights, ShmAttach(c, k, prot)
    PROVE  /\ run[c] \in Spaces /\ run[c] # NoSpace
           /\ Len(segs[k].frames) \in Nat /\ segs[k] \in SegType
           /\ \E r, j, b : /\ RoomFor(run[c], r, j, b)
                          /\ Reserved(run[c], Len(segs[k].frames), prot, segs[k].id + 1, FALSE) = [as EXCEPT ![run[c]] = b]
                          /\ IsPlaced(r, Place(run[c], Len(segs[k].frames)), Len(segs[k].frames), prot, segs[k].id + 1)
  <1>1. PICK s, n, id : s = run[c] /\ n = Len(segs[k].frames) /\ id = segs[k].id + 1
    OBVIOUS
  <1>2. s # NoSpace /\ CanReserve(s, n)
    BY <1>1 DEF ShmAttach
  <1>3. s \in Spaces /\ SpaceTypes /\ segs[k] \in SegType
    BY <1>1, <1>2, OwnSpace DEF VInv, MemTypes
  <1>4. n \in Nat
    BY <1>1, <1>3 DEF SegType
  <1>5. id \in 0..(MaxId + 1)
    BY <1>1, <1>3, Numbers DEF SegType
  <1>6. \E r, j, b : /\ RoomFor(s, r, j, b)
                    /\ Reserved(s, n, prot, id, FALSE) = [as EXCEPT ![s] = b]
                    /\ IsPlaced(r, Place(s, n), n, prot, id)
    BY <1>2, <1>3, <1>4, <1>5, Reserving
  <1> QED
    BY <1>1, <1>2, <1>3, <1>4, <1>6

\* The pages of the mapping: those of the segment, from page at on.
Filled(m, at, n, fs, prot) ==
    [v \in Pages |-> IF v \in at..(at + n - 1) THEN [frame |-> fs[v - at + 1], prot |-> prot] ELSE m[v]]

FillsOf(m, at, n, fs, prot) ==
    /\ m \in [Pages -> Entry] /\ at \in Nat /\ n \in Nat /\ prot \in SUBSET Rights
    /\ \A x \in 1..n : fs[x] \in Frames

LEMMA FilledType ==
    ASSUME NEW m, NEW at, NEW fs, NEW prot, NEW n, FillsOf(m, at, n, fs, prot)
    PROVE  /\ Filled(m, at, n, fs, prot) \in [Pages -> Entry]
           /\ \A v \in Pages : v \notin at..(at + n - 1) => Filled(m, at, n, fs, prot)[v] = m[v]
           /\ \A v \in Pages : v \in at..(at + n - 1) => Filled(m, at, n, fs, prot)[v].prot = prot
  <1> USE DEF FillsOf
  <1>1. ASSUME NEW v \in Pages, v \in at..(at + n - 1)
        PROVE  [frame |-> fs[v - at + 1], prot |-> prot] \in Entry
    <2>1. v - at + 1 \in 1..n
      BY <1>1
    <2>2. fs[v - at + 1] \in Frames
      BY <2>1
    <2> QED
      BY <2>2 DEF Entry
  <1> QED
    BY <1>1 DEF Filled

\* The space as it was, or with the region and all its pages.
AttachDone(c, s, k, prot, at, n, b) ==
    /\ as' = [as EXCEPT ![s] = b]
    /\ pt' = [pt EXCEPT ![s] = Filled(pt[s], at, n, segs[k].frames, prot)]
    /\ segs' = [segs EXCEPT ![k].maps = @ + 1]
    /\ UNCHANGED <<tlb, free, nextId, dead, run, fault>>
Forgets(c, at, i, t) ==
    \A d \in Cores, v \in Pages : t[d][v] = IF d = c /\ v \in at..(at + i - 1) THEN Absent ELSE tlb[d][v]
AttachFailed(c, s, at, i) ==
    /\ pt' = Cleared(s, at..(at + i - 1))
    /\ tlb' \in [Cores -> [Pages -> Entry]]
    /\ ~Halfway => Forgets(c, at, i, tlb')
    /\ UNCHANGED <<as, segs, free, nextId, dead, run, fault>>

LEMMA AttachDoneStep ==
    ASSUME VInv, NEW c \in Cores, run[c] # NoSpace, NEW s \in Spaces, s = run[c],
           NEW k \in 1..NSegs, NEW prot \in SUBSET Rights, NEW n \in Nat, n = Len(segs[k].frames),
           NEW r, NEW j, NEW b, RoomFor(s, r, j, b), NEW at, IsPlaced(r, at, n, prot, segs[k].id + 1),
           AttachDone(c, s, k, prot, at, n, b)
    PROVE  VInv'
  <1>1. /\ as[s] \in AsType /\ pt[s] \in [Pages -> Entry] /\ Laid(as[s], pt[s]) /\ as[s].refs \in Nat
        /\ pt \in [Spaces -> [Pages -> Entry]]
    BY OwnSpace DEF AsType, VInv, SpaceTypes
  <1>2. /\ b \in AsType /\ b.refs = as[s].refs /\ b.brk = as[s].brk
        /\ j \in Regions \ InUse(as[s]) /\ b.vm = [as[s].vm EXCEPT ![j] = r]
        /\ r \in Region /\ r.base # 0
        /\ Span(r) \subseteq (as[s].brk + 1)..(MmapTop - 1) /\ Span(r) \subseteq Pages
        /\ \A i \in InUse(as[s]) : Span(r) \cap Span(as[s].vm[i]) = {}
    BY DEF RoomFor
  <1>3. r.base = at /\ r.prot = prot /\ Span(r) = at..(at + n - 1) /\ at \in Nat
    BY <1>2, RegionFacts DEF IsPlaced
  <1>4. segs[k] \in SegType /\ segs[k].frames \in Seq(Frames) /\ segs \in [1..NSegs -> SegType]
    BY DEF VInv, MemTypes, SegType
  <1>5. PICK p, m, a : p = Filled(pt[s], at, n, segs[k].frames, prot) /\ m = pt[s] /\ a = as[s]
    OBVIOUS
  <1>6. /\ p \in [Pages -> Entry]
        /\ \A v \in Pages : v \notin Span(r) => p[v] = m[v]
        /\ \A v \in Pages : v \in Span(r) => p[v].prot = r.prot
    <2>1. PICK fs : fs = segs[k].frames
      OBVIOUS
    <2>2. (\A x \in 1..n : fs[x] \in Frames) /\ m \in [Pages -> Entry] /\ p = Filled(m, at, n, fs, prot)
      BY <1>1, <1>4, <1>5, <2>1
    <2>3. /\ p \in [Pages -> Entry]
          /\ \A v \in Pages : v \notin at..(at + n - 1) => p[v] = m[v]
          /\ \A v \in Pages : v \in at..(at + n - 1) => p[v].prot = prot
      <3>1. /\ Filled(m, at, n, fs, prot) \in [Pages -> Entry]
            /\ \A v \in Pages : v \notin at..(at + n - 1) => Filled(m, at, n, fs, prot)[v] = m[v]
            /\ \A v \in Pages : v \in at..(at + n - 1) => Filled(m, at, n, fs, prot)[v].prot = prot
        <4>1. FillsOf(m, at, n, fs, prot)
          BY <1>3, <2>2 DEF FillsOf
        <4> QED
          BY <4>1, FilledType
      <3> QED
        BY <2>2, <3>1, Zenon
    <2> QED
      BY <1>3, <2>3
  <1>7. Joins(a, m, j, r, b, p)
    <2>1. /\ a \in AsType /\ m \in [Pages -> Entry] /\ Laid(a, m) /\ b \in AsType /\ b.brk = a.brk
          /\ b.vm = [a.vm EXCEPT ![j] = r] /\ r \in Region /\ r.base # 0 /\ j \in Regions \ InUse(a)
          /\ Span(r) \subseteq (a.brk + 1)..(MmapTop - 1)
          /\ \A i \in InUse(a) : Span(r) \cap Span(a.vm[i]) = {}
      BY <1>1, <1>2, <1>5
    <2> QED
      BY <1>6, <2>1 DEF Joins
  <1>8. Laid(b, p) /\ \A v \in Span(r) : m[v] = Absent
    BY <1>7, NewRegion
  <1>9. /\ as' = [as EXCEPT ![s] = b] /\ pt' = [pt EXCEPT ![s] = p]
        /\ segs' = [segs EXCEPT ![k].maps = @ + 1]
        /\ UNCHANGED <<tlb, free, nextId, dead, run, fault>>
    BY <1>5 DEF AttachDone
  <1>10. Cached'
    <2> SUFFICES ASSUME ~Halfway PROVE Cached'
      BY DEF Cached
    <2>1. ASSUME NEW d \in Cores, NEW v \in Pages, tlb'[d][v] # Absent
          PROVE  /\ tlb'[d][v] = tlb[d][v] /\ run'[d] = run[d]
                 /\ run[d] # NoSpace => pt'[run[d]][v] = pt[run[d]][v]
      <3>1. tlb[d][v] # Absent /\ tlb[d][v] = pt[run[d]][v] /\ run[d] # NoSpace /\ run[d] \in Spaces
        BY <1>9, <2>1 DEF VInv, Cached, TlbTrue, CoreTypes
      <3>2. CASE run[d] = s
        <4>1. v \notin Span(r)
          BY <1>5, <1>8, <3>1, <3>2
        <4>2. pt'[s][v] = pt[s][v]
          BY <1>1, <1>5, <1>6, <1>9, <4>1
        <4> QED
          BY <1>9, <3>2, <4>2
      <3>3. CASE run[d] # s
        BY <1>1, <1>9, <3>1, <3>3
      <3> QED
        BY <3>2, <3>3
    <2> QED
      BY <2>1, TlbKept DEF VInv
  <1>11. MemTypes'
    <2>1. [segs[k] EXCEPT !.maps = @ + 1] \in SegType
      BY <1>4 DEF SegType
    <2>2. segs' \in [1..NSegs -> SegType]
      BY <1>4, <1>9, <2>1
    <2> QED
      BY <1>9, <2>2, FaultKept, FaultsSame DEF MemTypes
  <1>12. b.refs >= as[run[c]].refs /\ FaultsFall /\ tlb' \in [Cores -> [Pages -> Entry]]
    <2>1. \A y \in Nat : y >= y
      OBVIOUS
    <2> QED
      BY <1>1, <1>2, <1>9, <2>1, FaultKept, FaultsSame
  <1> QED
    BY <1>2, <1>6, <1>8, <1>9, <1>10, <1>11, <1>12, CallStep

LEMMA AttachFailedStep ==
    ASSUME VInv, NEW c \in Cores, run[c] # NoSpace, NEW s \in Spaces, s = run[c], NEW n \in Nat,
           NEW r, NEW j, NEW b, RoomFor(s, r, j, b), NEW at \in Nat, Span(r) = at..(at + n - 1),
           NEW i \in 0..(n - 1), AttachFailed(c, s, at, i)
    PROVE  VInv'
  <1>1. /\ as[s] \in AsType /\ pt[s] \in [Pages -> Entry] /\ Laid(as[s], pt[s]) /\ as[s].refs \in Nat
        /\ pt \in [Spaces -> [Pages -> Entry]] /\ tlb \in [Cores -> [Pages -> Entry]]
        /\ as \in [Spaces -> AsType]
    BY OwnSpace DEF AsType, VInv, SpaceTypes, CoreTypes
  <1>2. PICK span : span = at..(at + i - 1)
    OBVIOUS
  <1>3. span \subseteq Span(r)
    BY <1>2
  <1>4. /\ b \in AsType /\ b.refs = as[s].refs /\ b.brk = as[s].brk
        /\ j \in Regions \ InUse(as[s]) /\ b.vm = [as[s].vm EXCEPT ![j] = r]
        /\ r \in Region /\ r.base # 0
        /\ Span(r) \subseteq (as[s].brk + 1)..(MmapTop - 1) /\ Span(r) \subseteq Pages
        /\ \A x \in InUse(as[s]) : Span(r) \cap Span(as[s].vm[x]) = {}
    BY DEF RoomFor
  <1>5. \A v \in Span(r) : pt[s][v] = Absent
    <2>1. PICK a, m : a = as[s] /\ m = pt[s]
      OBVIOUS
    <2>2. /\ a \in AsType /\ m \in [Pages -> Entry] /\ Laid(a, m) /\ b \in AsType /\ b.brk = a.brk
          /\ b.vm = [a.vm EXCEPT ![j] = r] /\ r \in Region /\ r.base # 0 /\ j \in Regions \ InUse(a)
          /\ Span(r) \subseteq (a.brk + 1)..(MmapTop - 1)
          /\ \A x \in InUse(a) : Span(r) \cap Span(a.vm[x]) = {}
      BY <1>1, <1>4, <2>1
    <2>3. Joins(a, m, j, r, b, m)
      BY <2>2 DEF Joins
    <2>4. \A v \in Span(r) : m[v] = Absent
      BY <2>3, NewRegion
    <2> QED
      BY <2>1, <2>4
  <1>6. /\ pt' = Cleared(s, span)
        /\ tlb' \in [Cores -> [Pages -> Entry]]
        /\ ~Halfway => \A d \in Cores, v \in Pages :
               tlb'[d][v] = IF d = c /\ v \in span THEN Absent ELSE tlb[d][v]
        /\ UNCHANGED <<as, segs, free, nextId, dead, run, fault>>
    BY <1>2 DEF AttachFailed, Forgets
  <1>7. pt' = pt
    <2>1. [v \in Pages |-> IF v \in span THEN Absent ELSE pt[s][v]] = pt[s]
      BY <1>1, <1>3, <1>5
    <2> QED
      BY <1>1, <1>6, <2>1 DEF Cleared
  <1>8. tlb' \in [Cores -> [Pages -> Entry]]
    BY <1>6
  <1>9. Cached'
    <2> SUFFICES ASSUME ~Halfway PROVE Cached'
      BY DEF Cached
    <2>1. ASSUME NEW d \in Cores, NEW v \in Pages, tlb'[d][v] # Absent
          PROVE  /\ tlb'[d][v] = tlb[d][v] /\ run'[d] = run[d]
                 /\ run[d] # NoSpace => pt'[run[d]][v] = pt[run[d]][v]
      <3>1. tlb'[d][v] = IF d = c /\ v \in span THEN Absent ELSE tlb[d][v]
        BY <1>6
      <3> QED
        BY <1>6, <1>7, <2>1, <3>1
    <2> QED
      BY <2>1, TlbKept DEF VInv
  <1>10. as' = [as EXCEPT ![run[c]] = as[s]] /\ pt' = [pt EXCEPT ![run[c]] = pt[s]]
    BY <1>1, <1>6, <1>7
  <1>11. as[s].refs >= as[run[c]].refs /\ FaultsFall /\ MemTypes' /\ UNCHANGED <<run, dead>>
    <2>1. \A y \in Nat : y >= y
      OBVIOUS
    <2> QED
      BY <1>1, <1>6, <2>1, FaultKept, FaultsSame DEF MemTypes
  <1> QED
    BY <1>1, <1>8, <1>9, <1>10, <1>11, CallStep

\* It has the type of tlb, and with nobody else looking it is the invlpg.
IsLeft(c, at, n, i, fs, prot, seen, t) ==
    /\ c \in Cores /\ at \in Nat /\ n \in Nat /\ i \in 0..(n - 1) /\ prot \in SUBSET Rights
    /\ tlb \in [Cores -> [Pages -> Entry]] /\ \A x \in 1..n : fs[x] \in Frames
    /\ t = LeftIn(c, at, i, fs, prot, seen)

LEMMA LeftInFacts ==
    ASSUME NEW c, NEW at, NEW n, NEW i, NEW fs, NEW prot, NEW seen, NEW t, IsLeft(c, at, n, i, fs, prot, seen, t)
    PROVE  /\ t \in [Cores -> [Pages -> Entry]]
           /\ seen = {} => Forgets(c, at, i, t)
  <1> USE DEF IsLeft
  <1>1. ASSUME NEW v \in at..(at + i - 1)
        PROVE  [frame |-> fs[v - at + 1], prot |-> prot] \in Entry
    <2>1. v - at + 1 \in 1..n
      OBVIOUS
    <2> QED
      BY <2>1 DEF Entry
  <1>2. PICK span : span = at..(at + i - 1)
    OBVIOUS
  <1>3. PICK e : e = [v \in span |-> [frame |-> fs[v - at + 1], prot |-> prot]]
    OBVIOUS
  <1>4. \A v \in span : e[v] \in Entry
    BY <1>1, <1>2, <1>3
  <1>5. t = [d \in Cores |-> [v \in Pages |->
               IF v \notin span THEN tlb[d][v]
               ELSE IF d \in seen /\ tlb[d][v] = Absent THEN e[v]
               ELSE IF d = c THEN Absent ELSE tlb[d][v]]]
    BY <1>2, <1>3 DEF LeftIn
  <1> QED
    BY <1>2, <1>4, <1>5, Plain DEF Forgets

\* shm_attach finds a place, and fills it or not.
Attaching(c, k, prot, s, n, at, r, j, b) ==
    /\ s \in Spaces /\ s = run[c] /\ run[c] # NoSpace /\ n \in Nat /\ n = Len(segs[k].frames) /\ at \in Nat
    /\ RoomFor(s, r, j, b) /\ IsPlaced(r, at, n, prot, segs[k].id + 1) /\ Span(r) = at..(at + n - 1) /\ ~r.stack
    /\ AttachDone(c, s, k, prot, at, n, b) \/ \E i \in 0..(n - 1) : AttachFailed(c, s, at, i)

LEMMA AttachCases ==
    ASSUME VInv, NEW c \in Cores, NEW k \in 1..NSegs, NEW prot \in SUBSET Rights, ShmAttach(c, k, prot)
    PROVE  \E s, n, at, r, j, b : Attaching(c, k, prot, s, n, at, r, j, b)
  <1>1. PICK s, n, at, id : s = run[c] /\ n = Len(segs[k].frames) /\ at = Place(s, n) /\ id = segs[k].id + 1
    OBVIOUS
  <1>2. s \in Spaces /\ run[c] # NoSpace /\ n \in Nat
    BY <1>1, AttachFacts
  <1>3. PICK r, j, b : /\ RoomFor(s, r, j, b)
                       /\ Reserved(s, n, prot, id, FALSE) = [as EXCEPT ![s] = b]
                       /\ IsPlaced(r, at, n, prot, id)
    <2>1. \E r, j, b : /\ RoomFor(run[c], r, j, b)
                       /\ Reserved(run[c], Len(segs[k].frames), prot, segs[k].id + 1, FALSE) = [as EXCEPT ![run[c]] = b]
                       /\ IsPlaced(r, Place(run[c], Len(segs[k].frames)), Len(segs[k].frames), prot, segs[k].id + 1)
      BY AttachFacts
    <2> QED
      BY <1>1, <2>1
  <1>4. at \in Nat /\ Span(r) = at..(at + n - 1)
    <2>1. r \in Region /\ r.base = at /\ Span(r) = at..(at + n - 1)
      BY <1>3 DEF RoomFor, IsPlaced
    <2> QED
      BY <2>1, RegionFacts
  <1>5. AttachDone(c, s, k, prot, at, n, b) \/ \E i \in 0..(n - 1) : AttachFailed(c, s, at, i)
    <2>1. PICK Q : Q = Filled(pt[s], at, n, segs[k].frames, prot)
      OBVIOUS
    <2>2. /\ \/ /\ as' = Reserved(s, n, prot, id, FALSE)
                /\ pt' = [pt EXCEPT ![s] = [v \in Pages |->
                      IF v \in at..(at + n - 1) THEN [frame |-> segs[k].frames[v - at + 1], prot |-> prot]
                      ELSE @[v]]]
                /\ segs' = [segs EXCEPT ![k].maps = @ + 1]
                /\ UNCHANGED tlb
             \/ \E i \in 0..(n - 1), seen \in SUBSET Others(c) :
                /\ seen # {} => Halfway
                /\ pt' = Cleared(s, at..(at + i - 1))
                /\ tlb' = LeftIn(c, at, i, segs[k].frames, prot, seen)
                /\ UNCHANGED <<as, segs>>
          /\ UNCHANGED <<free, nextId, dead, run, fault>>
      BY <1>1, ZenonT(60) DEF ShmAttach, FlagsOf
    <2>3. pt \in [Spaces -> [Pages -> Entry]]
      BY DEF VInv, SpaceTypes
    <2>4. [pt EXCEPT ![s] = [v \in Pages |->
                      IF v \in at..(at + n - 1) THEN [frame |-> segs[k].frames[v - at + 1], prot |-> prot]
                      ELSE @[v]]] = [pt EXCEPT ![s] = Filled(pt[s], at, n, segs[k].frames, prot)]
      BY <1>2, <2>3 DEF Filled
    <2>5. CASE /\ as' = Reserved(s, n, prot, id, FALSE)
               /\ pt' = [pt EXCEPT ![s] = [v \in Pages |->
                      IF v \in at..(at + n - 1) THEN [frame |-> segs[k].frames[v - at + 1], prot |-> prot]
                      ELSE @[v]]]
               /\ segs' = [segs EXCEPT ![k].maps = @ + 1]
               /\ UNCHANGED tlb
      BY <1>3, <2>2, <2>4, <2>5 DEF AttachDone
    <2>6. ASSUME NEW i \in 0..(n - 1), NEW seen \in SUBSET Others(c), seen # {} => Halfway,
                 pt' = Cleared(s, at..(at + i - 1)), tlb' = LeftIn(c, at, i, segs[k].frames, prot, seen),
                 UNCHANGED <<as, segs>>
          PROVE  AttachFailed(c, s, at, i)
      <3>1. PICK fs : fs = segs[k].frames
        OBVIOUS
      <3>2. tlb \in [Cores -> [Pages -> Entry]] /\ \A x \in 1..n : fs[x] \in Frames
        <4>1. segs[k] \in SegType
          BY AttachFacts
        <4>2. fs \in Seq(Frames) /\ n = Len(fs)
          BY <1>1, <3>1, <4>1 DEF SegType
        <4> QED
          BY <4>2, FaultKept
      <3>3. tlb' = LeftIn(c, at, i, fs, prot, seen)
        BY <2>6, <3>1
      <3>4. tlb' \in [Cores -> [Pages -> Entry]] /\ (seen = {} => Forgets(c, at, i, tlb'))
        <4>1. PICK t : t = tlb'
          OBVIOUS
        <4>2. t = LeftIn(c, at, i, fs, prot, seen)
          BY <3>3, <4>1
        <4>3. t \in [Cores -> [Pages -> Entry]] /\ (seen = {} => Forgets(c, at, i, t))
          <5>1. IsLeft(c, at, n, i, fs, prot, seen, t)
            BY <1>2, <1>4, <2>6, <3>2, <4>2 DEF IsLeft
          <5> QED
            BY <5>1, LeftInFacts, Zenon
        <4> QED
          BY <4>1, <4>3
      <3> QED
        BY <2>2, <2>6, <3>4 DEF AttachFailed
    <2> QED
      BY <2>2, <2>5, <2>6
  <1>6. ~r.stack
    <2>1. PICK l, q : /\ l = Min(Regions \ Used(s))
                      /\ q = [base |-> Place(s, n), len |-> n, prot |-> prot, shm |-> id, stack |-> FALSE]
      OBVIOUS
    <2>2. as \in [Spaces -> AsType] /\ as[s].vm \in [Regions -> Region]
      BY <1>2, SpaceFacts DEF VInv, SpaceTypes
    <2>3. [as EXCEPT ![s] = b] = [as EXCEPT ![s].vm[l] = q]
      BY <1>3, <2>1 DEF Reserved
    <2>4. b = [as[s] EXCEPT !.vm[l] = q]
      BY <1>2, <2>2, <2>3
    <2>5. b.vm = [as[s].vm EXCEPT ![l] = q]
      BY <1>2, <2>2, <2>4 DEF AsType
    <2>6. j \in Regions /\ as[s].vm[j].base = 0 /\ b.vm[j] = r /\ r.base # 0
      BY <1>3, <2>2 DEF RoomFor, InUse
    <2>7. r = q
      BY <2>2, <2>5, <2>6
    <2> QED
      BY <2>1, <2>7
  <1>7. Attaching(c, k, prot, s, n, at, r, j, b)
    BY <1>1, <1>2, <1>3, <1>4, <1>5, <1>6 DEF Attaching
  <1> QED
    BY <1>7

LEMMA ShmAttachStep ==
    ASSUME VInv, NEW c \in Cores, NEW k \in 1..NSegs, NEW prot \in SUBSET Rights, ShmAttach(c, k, prot)
    PROVE  VInv'
  <1>1. PICK s, n, at, r, j, b : Attaching(c, k, prot, s, n, at, r, j, b)
    BY AttachCases
  <1>2. /\ s \in Spaces /\ s = run[c] /\ run[c] # NoSpace /\ n \in Nat /\ n = Len(segs[k].frames) /\ at \in Nat
        /\ RoomFor(s, r, j, b) /\ IsPlaced(r, at, n, prot, segs[k].id + 1) /\ Span(r) = at..(at + n - 1)
        /\ AttachDone(c, s, k, prot, at, n, b) \/ \E i \in 0..(n - 1) : AttachFailed(c, s, at, i)
    BY <1>1 DEF Attaching
  <1>3. CASE AttachDone(c, s, k, prot, at, n, b)
    BY <1>2, <1>3, AttachDoneStep
  <1>4. ASSUME NEW i \in 0..(n - 1), AttachFailed(c, s, at, i) PROVE VInv'
    BY <1>2, <1>4, AttachFailedStep
  <1> QED
    BY <1>2, <1>3, <1>4

----------------------------------------------------------------------------
(* Pages that are built on demand.                                         *)

\* The rights of a page that is built are those of where it is.
LEMMA BuildsRight ==
    ASSUME NEW s \in Spaces, SpaceTypes, Laid(as[s], pt[s]), NEW v \in Pages, NEW kind, NEW prot \in BuildsAs(s, v, kind)
    PROVE  /\ prot \in SUBSET Rights
           /\ v < as[s].brk \/ \E i \in InUse(as[s]) : v \in Span(as[s].vm[i])
           /\ \A i \in InUse(as[s]) : v \in Span(as[s].vm[i]) => prot = as[s].vm[i].prot
  <1>1. as[s].vm \in [Regions -> Region] /\ Used(s) = InUse(as[s]) /\ Used(s) \subseteq Regions
    BY SpaceFacts
  <1>2. as[s].brk \in Nat /\ as[s].brk >= 1 /\ as[s].brk <= MmapTop /\ v \in Nat /\ v >= HeapBase
    <2>1. \A x \in Pages : x \in Nat /\ x >= HeapBase
      BY Numbers
    <2> QED
      BY <2>1, BreakFacts, Zenon
  <1>3. CASE v < as[s].brk
    <2>1. prot = {"w", "x"}
      BY <1>2, <1>3 DEF BuildsAs
    <2>2. \A i \in InUse(as[s]) : v \notin Span(as[s].vm[i])
      <3> SUFFICES ASSUME NEW i \in InUse(as[s]), v \in Span(as[s].vm[i]) PROVE FALSE
        OBVIOUS
      <3>1. v \in (as[s].brk + 1)..(MmapTop - 1)
        BY DEF Laid
      <3>2. \A b, x, t \in Nat : x \in (b + 1)..(t - 1) => ~(x < b)
        OBVIOUS
      <3> QED
        BY <1>2, <1>3, <3>1, <3>2, Numbers, Zenon
    <2> QED
      BY <1>3, <2>1, <2>2 DEF Rights
  <1>4. CASE ~(v < as[s].brk)
    <2>1. PICK j \in RegionAt(s, v) : prot = as[s].vm[j].prot
      BY <1>4 DEF BuildsAs
    <2>2. j \in InUse(as[s]) /\ v \in Span(as[s].vm[j])
      BY <1>1, <2>1 DEF RegionAt
    <2>3. prot \in SUBSET Rights
      <3>1. as[s].vm[j] \in Region
        BY <1>1, <2>2
      <3> QED
        BY <2>1, <3>1, RegionFacts
    <2>4. ASSUME NEW i \in InUse(as[s]), v \in Span(as[s].vm[i])
          PROVE  prot = as[s].vm[i].prot
      <3>1. i # j => Span(as[s].vm[i]) \cap Span(as[s].vm[j]) = {}
        BY <2>2, <2>4 DEF Laid
      <3>2. i = j
        BY <2>2, <2>4, <3>1
      <3> QED
        BY <2>1, <3>2
    <2> QED
      BY <2>2, <2>3, <2>4
  <1> QED
    BY <1>3, <1>4

\* A page is put in or was there; the core forgets it.
Built(c, v, kind) ==
    /\ run[c] # NoSpace /\ Build(run[c], v, kind)
    /\ tlb' = [tlb EXCEPT ![c][v] = Absent]
    /\ FaultsFall
    /\ UNCHANGED <<as, segs, nextId, dead, run>>

LEMMA BuiltStep ==
    ASSUME VInv, NEW c \in Cores, NEW v \in Pages, NEW kind, Built(c, v, kind)
    PROVE  VInv'
  <1>0. run[c] # NoSpace /\ FaultsFall /\ UNCHANGED <<as, segs, nextId, dead, run>>
    BY DEF Built
  <1>1. PICK s : s = run[c]
    OBVIOUS
  <1>2. /\ s \in Spaces /\ SpaceTypes /\ as[s] \in AsType /\ pt[s] \in [Pages -> Entry] /\ Laid(as[s], pt[s])
        /\ as[s].refs \in Nat /\ as \in [Spaces -> AsType] /\ pt \in [Spaces -> [Pages -> Entry]]
        /\ tlb \in [Cores -> [Pages -> Entry]] /\ free \subseteq Frames
    BY <1>0, <1>1, OwnSpace DEF AsType, VInv, SpaceTypes, CoreTypes, MemTypes
  <1>3. tlb' \in [Cores -> [Pages -> Entry]] /\ \A d \in Cores, w \in Pages :
                 tlb'[d][w] = IF d = c /\ w = v THEN Absent ELSE tlb[d][w]
    <2>1. tlb' = [tlb EXCEPT ![c][v] = Absent]
      BY DEF Built
    <2> QED
      BY <1>2, <2>1, Plain
  <1>4. PICK prot \in BuildsAs(s, v, kind) :
           \/ pt[s][v] # Absent /\ UNCHANGED <<pt, free>>
           \/ /\ pt[s][v] = Absent /\ free # {}
              /\ pt' = [pt EXCEPT ![s][v] = [frame |-> AllocFrame, prot |-> prot]]
              /\ free' = free \ {AllocFrame}
    BY <1>1 DEF Built, Build, FlagsOf
  <1>5. free' \subseteq Frames
    BY <1>2, <1>4
  <1>6. MemTypes'
    BY <1>0, <1>5, FaultKept DEF MemTypes
  <1>7. PICK m : m = pt'[s]
    OBVIOUS
  <1>8. m \in [Pages -> Entry] /\ pt' = [pt EXCEPT ![s] = m] /\ Laid(as[s], m)
        /\ \A w \in Pages : pt[s][w] # Absent => m[w] = pt[s][w]
    <2>1. CASE pt[s][v] # Absent /\ UNCHANGED <<pt, free>>
      BY <1>2, <1>7, <2>1
    <2>2. CASE /\ pt[s][v] = Absent /\ free # {}
               /\ pt' = [pt EXCEPT ![s][v] = [frame |-> AllocFrame, prot |-> prot]]
      <3>1. PICK e : e = [frame |-> AllocFrame, prot |-> prot]
        OBVIOUS
      <3>2. /\ prot \in SUBSET Rights
            /\ v < as[s].brk \/ \E i \in InUse(as[s]) : v \in Span(as[s].vm[i])
            /\ \A i \in InUse(as[s]) : v \in Span(as[s].vm[i]) => prot = as[s].vm[i].prot
        BY <1>2, BuildsRight
      <3>3. e \in Entry /\ e.prot = prot
        <4>1. AllocFrame \in free
          BY <1>2, <2>2, Numbers, MinFacts DEF AllocFrame
        <4> QED
          BY <1>2, <3>1, <3>2, <4>1 DEF Entry
      <3>4. m = [pt[s] EXCEPT ![v] = e] /\ pt' = [pt EXCEPT ![s] = m]
        BY <1>2, <1>7, <2>2, <3>1
      <3>5. m \in [Pages -> Entry] /\ m[v] = e /\ \A w \in Pages : w # v => m[w] = pt[s][w]
        BY <1>2, <3>3, <3>4
      <3>6. \A w \in Pages : m[w] # Absent =>
               /\ w < as[s].brk \/ \E i \in InUse(as[s]) : w \in Span(as[s].vm[i])
               /\ \A i \in InUse(as[s]) : w \in Span(as[s].vm[i]) => m[w].prot = as[s].vm[i].prot
        <4> SUFFICES ASSUME NEW w \in Pages, m[w] # Absent
                     PROVE  /\ w < as[s].brk \/ \E i \in InUse(as[s]) : w \in Span(as[s].vm[i])
                            /\ \A i \in InUse(as[s]) : w \in Span(as[s].vm[i]) => m[w].prot = as[s].vm[i].prot
          OBVIOUS
        <4>1. CASE w = v
          BY <3>2, <3>3, <3>5, <4>1
        <4>2. CASE w # v
          <5>1. m[w] = pt[s][w]
            BY <3>5, <4>2
          <5> QED
            BY <1>2, <5>1 DEF Laid
        <4> QED
          BY <4>1, <4>2
      <3>7. \A i \in InUse(as[s]) : Span(as[s].vm[i]) \subseteq (as[s].brk + 1)..(MmapTop - 1)
        BY <1>2 DEF Laid
      <3>8. Laid(as[s], m)
        BY <1>2, <3>5, <3>6, <3>7, SameRegions
      <3> QED
        BY <2>2, <3>4, <3>5, <3>8
    <2> QED
      BY <1>4, <2>1, <2>2
  <1>9. Cached'
    <2> SUFFICES ASSUME ~Halfway PROVE Cached'
      BY DEF Cached
    <2>1. ASSUME NEW d \in Cores, NEW w \in Pages, tlb'[d][w] # Absent
          PROVE  /\ tlb'[d][w] = tlb[d][w] /\ run'[d] = run[d]
                 /\ run[d] # NoSpace => pt'[run[d]][w] = pt[run[d]][w]
      <3>1. tlb'[d][w] = tlb[d][w] /\ tlb[d][w] # Absent
        BY <1>3, <2>1
      <3>2. tlb[d][w] = pt[run[d]][w] /\ run[d] \in Spaces
        BY <3>1 DEF VInv, Cached, TlbTrue, CoreTypes
      <3>3. pt'[run[d]][w] = pt[run[d]][w]
        <4>1. CASE run[d] = s
          BY <1>2, <1>8, <3>1, <3>2, <4>1
        <4>2. CASE run[d] # s
          BY <1>2, <1>8, <3>2, <4>2
        <4> QED
          BY <4>1, <4>2
      <3> QED
        BY <1>0, <3>1, <3>3
    <2> QED
      BY <2>1, TlbKept DEF VInv
  <1>10. as' = [as EXCEPT ![run[c]] = as[s]] /\ pt' = [pt EXCEPT ![run[c]] = m]
    BY <1>0, <1>1, <1>2, <1>8
  <1>11. as[s].refs >= as[run[c]].refs
    <2>1. \A y \in Nat : y >= y
      OBVIOUS
    <2> QED
      BY <1>1, <1>2, <2>1
  <1> QED
    BY <1>0, <1>2, <1>3, <1>6, <1>8, <1>9, <1>10, <1>11, CallStep

LEMMA TouchWriteStep ==
    ASSUME VInv, NEW c \in Cores, NEW v \in Pages, TouchWrite(c, v)
    PROVE  VInv'
  <1>1. FaultsFall
    BY FaultsSame DEF TouchWrite
  <1>2. Built(c, v, "w")
    BY <1>1 DEF TouchWrite, Built, InCall
  <1> QED
    BY <1>2, BuiltStep

LEMMA FaultStep ==
    ASSUME VInv, NEW c \in Cores, Fault(c)
    PROVE  VInv'
  <1>1. run[c] # NoSpace /\ fault[c].page \in Pages
    BY DEF Fault, VInv, Faulting
  <1>2. FaultsFall
    <2>1. fault' = [fault EXCEPT ![c] = NoFault] /\ fault \in [Cores -> FaultType]
      BY FaultKept DEF Fault
    <2> QED
      BY <2>1, Plain DEF FaultsFall
  <1>3. PICK v, kind : v = fault[c].page /\ kind = fault[c].kind
    OBVIOUS
  <1>4. Built(c, v, kind)
    BY <1>1, <1>2, <1>3 DEF Fault, Built
  <1> QED
    BY <1>1, <1>3, <1>4, BuiltStep

----------------------------------------------------------------------------
(* What the processor does by itself, and where programs run.              *)

\* Steps that change no space, no holder and no segment.
LEMMA StillStep ==
    ASSUME VInv, UNCHANGED <<as, pt, free, segs, nextId, dead, run>>,
           tlb' \in [Cores -> [Pages -> Entry]], fault' \in [Cores -> FaultType], Faulting', Cached'
    PROVE  VInv'
  <1>1. SpaceTypes' /\ MemTypes' /\ CoreTypes'
    BY DEF VInv, SpaceTypes, MemTypes, CoreTypes
  <1>2. AllLaid'
    BY ZenonT(60) DEF VInv, AllLaid, Laid, InUse
  <1>3. Counted' /\ Unheld'
    BY DEF VInv, Counted, Unheld, OnCores, NoAs
  <1> QED
    BY <1>1, <1>2, <1>3 DEF VInv

LEMMA WalkStep ==
    ASSUME VInv, NEW c \in Cores, Walk(c)
    PROVE  VInv'
  <1>1. /\ run[c] # NoSpace /\ UNCHANGED <<as, pt, free, segs, nextId, dead, run, fault>>
        /\ tlb' = [tlb EXCEPT ![c] = [v \in Pages |-> IF @[v] # Absent THEN @[v] ELSE pt[run[c]][v]]]
    BY DEF Walk, InCall
  <1>2. tlb \in [Cores -> [Pages -> Entry]] /\ fault \in [Cores -> FaultType] /\ pt[run[c]] \in [Pages -> Entry] /\ Cached
    BY <1>1, FaultKept, OwnSpace
  <1>3. PICK m : m = [v \in Pages |-> IF tlb[c][v] # Absent THEN tlb[c][v] ELSE pt[run[c]][v]]
    OBVIOUS
  <1>4. m \in [Pages -> Entry] /\ (~Halfway => \A v \in Pages : m[v] = pt[run[c]][v])
    BY <1>2, <1>3 DEF Cached, TlbTrue
  <1>5. tlb' = [tlb EXCEPT ![c] = m]
    BY <1>1, <1>2, <1>3
  <1>6. tlb' \in [Cores -> [Pages -> Entry]]
    BY <1>2, <1>4, <1>5
  <1>7. Cached'
    <2> SUFFICES ASSUME ~Halfway PROVE TlbTrue'
      BY DEF Cached
    <2>1. ASSUME NEW d \in Cores, NEW v \in Pages, tlb'[d][v] # Absent
          PROVE  run[d] # NoSpace /\ tlb'[d][v] = pt[run[d]][v]
      <3>1. CASE d = c
        BY <1>1, <1>2, <1>4, <1>5, <3>1
      <3>2. CASE d # c
        BY <1>2, <1>5, <2>1, <3>2 DEF Cached, TlbTrue
      <3> QED
        BY <3>1, <3>2
    <2> QED
      BY <1>1, <2>1 DEF TlbTrue, Absent
  <1>8. Faulting'
    BY <1>1 DEF VInv, Faulting, NoFault
  <1> QED
    BY <1>1, <1>2, <1>6, <1>7, <1>8, StillStep

LEMMA TrapStep ==
    ASSUME VInv, NEW c \in Cores, NEW v \in Pages, NEW kind \in {"r"} \cup Rights, Trap(c, v, kind)
    PROVE  VInv'
  <1>1. PICK q : q = [page |-> v, kind |-> kind, present |-> pt[run[c]][v] # Absent]
    OBVIOUS
  <1>2. /\ run[c] # NoSpace /\ UNCHANGED <<as, pt, free, segs, nextId, dead, run, tlb>>
        /\ fault' = [fault EXCEPT ![c] = q]
    BY <1>1 DEF Trap, InCall
  <1>3. q \in FaultType /\ q.page = v
    BY <1>1 DEF FaultType
  <1>4. fault \in [Cores -> FaultType] /\ tlb \in [Cores -> [Pages -> Entry]]
    BY FaultKept
  <1>5. fault' \in [Cores -> FaultType] /\ \A d \in Cores : fault'[d] = IF d = c THEN q ELSE fault[d]
    BY <1>2, <1>3, <1>4
  <1>6. Faulting'
    BY <1>2, <1>3, <1>5 DEF VInv, Faulting, NoFault
  <1>7. Cached'
    BY <1>2, TlbSame, FaultKept
  <1> QED
    BY <1>2, <1>4, <1>5, <1>6, <1>7, StillStep

LEMMA RefusedStep ==
    ASSUME VInv, NEW c \in Cores, Refused(c)
    PROVE  VInv'
  <1>1. UNCHANGED <<as, pt, free, segs, nextId, dead, run, tlb>> /\ fault' = [fault EXCEPT ![c] = NoFault]
    BY DEF Refused
  <1>2. fault \in [Cores -> FaultType] /\ tlb \in [Cores -> [Pages -> Entry]]
    BY FaultKept
  <1>3. fault' \in [Cores -> FaultType] /\ \A d \in Cores : fault'[d] = IF d = c THEN NoFault ELSE fault[d]
    BY <1>1, <1>2, Plain
  <1>4. Faulting'
    BY <1>1, <1>3 DEF VInv, Faulting, NoFault
  <1>5. Cached'
    BY <1>1, TlbSame, FaultKept
  <1> QED
    BY <1>1, <1>2, <1>3, <1>4, <1>5, StillStep

\* Space s becomes b with the table m, and holders come or go.
Becomes(s, b, m) ==
    /\ b \in AsType /\ m \in [Pages -> Entry] /\ Laid(b, m) /\ (b.refs = 0 => b = NoAs)
    /\ as' = [as EXCEPT ![s] = b] /\ pt' = [pt EXCEPT ![s] = m]

LEMMA HoldStep ==
    ASSUME VInv, NEW s \in Spaces, NEW b, NEW m, Becomes(s, b, m), MemTypes', CoreTypes', dead' \in [Spaces -> Nat],
           \A u \in Spaces : u # s => OnCores(u)' + dead'[u] <= as[u].refs,
           OnCores(s)' + dead'[s] <= b.refs, Faulting', Cached'
    PROVE  VInv'
  <1>1. /\ b \in AsType /\ m \in [Pages -> Entry] /\ Laid(b, m) /\ (b.refs = 0 => b = NoAs)
        /\ as' = [as EXCEPT ![s] = b] /\ pt' = [pt EXCEPT ![s] = m]
    BY DEF Becomes
  <1>2. as' \in [Spaces -> AsType] /\ pt' \in [Spaces -> [Pages -> Entry]] /\ AllLaid'
    BY <1>1, SpaceStep
  <1>3. \A u \in Spaces : as'[u] = IF u = s THEN b ELSE as[u]
    BY <1>1 DEF VInv, SpaceTypes
  <1>4. \A u \in Spaces : OnCores(u)' + dead'[u] <= as'[u].refs
    <2> SUFFICES ASSUME NEW u \in Spaces PROVE OnCores(u)' + dead'[u] <= as'[u].refs
      OBVIOUS
    <2>1. CASE u = s
      <3>1. as'[u] = b
        BY <1>3, <2>1
      <3> QED
        BY <2>1, <3>1, Zenon
    <2>2. CASE u # s
      <3>1. as'[u] = as[u]
        BY <1>3, <2>2
      <3> QED
        BY <2>2, <3>1, Zenon
    <2> QED
      BY <2>1, <2>2
  <1>5. \A u \in Spaces : as'[u].refs = 0 => as'[u] = NoAs
    BY <1>1, <1>3 DEF VInv, Unheld
  <1>6. Counted'
    BY <1>4 DEF Counted
  <1>7. Unheld'
    BY <1>5 DEF Unheld, NoAs
  <1>8. SpaceTypes'
    BY <1>2 DEF SpaceTypes
  <1> QED
    BY <1>2, <1>6, <1>7, <1>8 DEF VInv

\* The last holder leaves nothing, another one leaves the space as it is.
LEMMA UnrefFacts ==
    ASSUME VInv, NEW s \in Spaces, as[s].refs >= 1, Unref(s)
    PROVE  /\ \E b, m : /\ Becomes(s, b, m) /\ b.refs = as[s].refs - 1
                        /\ as[s].refs > 1 => m = pt[s]
           /\ segs' \in [1..NSegs -> SegType] /\ free' \in SUBSET Frames
  <1>1. /\ as[s] \in AsType /\ pt[s] \in [Pages -> Entry] /\ as[s].refs \in Nat /\ SpaceTypes /\ MemTypes
        /\ Laid(as[s], pt[s]) /\ as \in [Spaces -> AsType] /\ pt \in [Spaces -> [Pages -> Entry]]
    BY SpaceFacts DEF VInv, AllLaid, SpaceTypes
  <1>2. CASE as[s].refs > 1
    <2>1. as' = [as EXCEPT ![s].refs = @ - 1] /\ UNCHANGED <<pt, segs, free>>
      BY <1>2 DEF Unref
    <2>2. PICK n : n = as[s].refs - 1
      OBVIOUS
    <2>3. n \in Nat /\ n # 0
      <3>1. \A x \in Nat : x > 1 => x - 1 \in Nat /\ x - 1 # 0
        OBVIOUS
      <3> QED
        BY <1>1, <1>2, <2>2, <3>1, Zenon
    <2>4. PICK b : b = [as[s] EXCEPT !.refs = n]
      OBVIOUS
    <2>5. b \in AsType /\ b.refs = n /\ b.brk = as[s].brk /\ b.vm = as[s].vm
      BY <1>1, <2>3, <2>4 DEF AsType
    <2>6. Laid(b, pt[s])
      BY <1>1, <2>5, ZenonT(60) DEF Laid, InUse
    <2>7. as' = [as EXCEPT ![s] = b] /\ pt' = [pt EXCEPT ![s] = pt[s]]
      BY <1>1, <2>1, <2>2, <2>4
    <2>8. Becomes(s, b, pt[s])
      BY <1>1, <2>3, <2>5, <2>6, <2>7 DEF Becomes
    <2> QED
      BY <1>1, <2>1, <2>2, <2>5, <2>8 DEF MemTypes
  <1>3. CASE ~(as[s].refs > 1)
    <2>1. PICK shared, own : /\ shared = {i \in Used(s) : as[s].vm[i].shm # 0}
                             /\ own = Pages \ UNION {Span(as[s].vm[i]) : i \in shared}
      OBVIOUS
    <2>2. /\ as' = [as EXCEPT ![s] = NoAs] /\ pt' = [pt EXCEPT ![s] = NoTlb]
          /\ segs' = Dropped(s, shared) /\ free' = free \cup SegFreed(segs, segs') \cup FramesIn(s, own)
      BY <1>3, <2>1 DEF Unref
    <2>3. shared \in SUBSET Regions /\ own \in SUBSET Pages
      BY <1>1, <2>1, SpaceFacts
    <2>4. segs' \in [1..NSegs -> SegType]
      BY <1>1, <2>2, <2>3, DroppedType
    <2>5. FramesIn(s, own) \in SUBSET Frames
      BY <1>1, <2>3, FramesInType
    <2>6. free' \in SUBSET Frames
      BY <1>1, <2>2, <2>4, <2>5, FreedType
    <2>7. Laid(NoAs, NoTlb)
      BY Plain DEF Laid, NoTlb
    <2>8. Becomes(s, NoAs, NoTlb)
      BY <2>2, <2>7, Plain DEF Becomes
    <2>9. NoAs.refs = as[s].refs - 1
      <3>1. \A x \in Nat : x >= 1 /\ ~(x > 1) => 0 = x - 1
        OBVIOUS
      <3> QED
        BY <1>1, <1>3, <3>1, Plain, Zenon
    <2> QED
      BY <1>3, <2>4, <2>6, <2>8, <2>9
  <1> QED
    BY <1>2, <1>3

\* Core c is off its space.
LEMMA CoreGone ==
    ASSUME VInv, NEW c \in Cores, run[c] # NoSpace, run' = [run EXCEPT ![c] = NoSpace],
           tlb' = [tlb EXCEPT ![c] = NoTlb], fault' = [fault EXCEPT ![c] = NoFault]
    PROVE  CoreTypes' /\ Faulting'
  <1>1. /\ run \in [Cores -> Spaces \cup {NoSpace}] /\ tlb \in [Cores -> [Pages -> Entry]]
        /\ fault \in [Cores -> FaultType]
    BY DEF VInv, CoreTypes
  <1>2. CoreTypes'
    BY <1>1, Plain DEF CoreTypes
  <1>3. \A d \in Cores : fault'[d] = (IF d = c THEN NoFault ELSE fault[d]) /\ (d # c => run'[d] = run[d])
    BY <1>1
  <1>4. Faulting'
    BY <1>3 DEF VInv, Faulting, NoFault
  <1> QED
    BY <1>2, <1>4

LEMMA LeaveStep ==
    ASSUME VInv, NEW c \in Cores, Leave(c)
    PROVE  VInv'
  <1>1. /\ run[c] # NoSpace /\ fault[c] = NoFault /\ run' = [run EXCEPT ![c] = NoSpace]
        /\ tlb' = [tlb EXCEPT ![c] = NoTlb] /\ UNCHANGED <<as, pt, free, segs, nextId, dead, fault>>
    BY DEF Leave, InCall
  <1>2. /\ run \in [Cores -> Spaces \cup {NoSpace}] /\ tlb \in [Cores -> [Pages -> Entry]]
        /\ fault \in [Cores -> FaultType]
    BY DEF VInv, CoreTypes
  <1>3. fault' = [fault EXCEPT ![c] = NoFault]
    BY <1>1, <1>2
  <1>4. CoreTypes' /\ Faulting'
    BY <1>1, <1>3, CoreGone
  <1>5. PICK s : s = run[c]
    OBVIOUS
  <1>6. /\ s \in Spaces /\ as[s] \in AsType /\ as[s].refs >= 1 /\ pt[s] \in [Pages -> Entry] /\ Laid(as[s], pt[s])
        /\ as \in [Spaces -> AsType] /\ pt \in [Spaces -> [Pages -> Entry]] /\ dead \in [Spaces -> Nat]
    BY <1>1, <1>5, OwnSpace DEF VInv, SpaceTypes
  <1>7. Becomes(s, as[s], pt[s])
    BY <1>1, <1>6 DEF Becomes, VInv, Unheld
  <1>8. Cached'
    <2>1. ASSUME NEW d \in Cores, NEW v \in Pages, tlb'[d][v] # Absent
          PROVE  /\ tlb'[d][v] = tlb[d][v] /\ run'[d] = run[d]
                 /\ run[d] # NoSpace => pt'[run[d]][v] = pt[run[d]][v]
      <3>1. d # c
        BY <1>1, <1>2, <2>1 DEF NoTlb
      <3> QED
        BY <1>1, <1>2, <3>1
    <2> QED
      BY <2>1, TlbKept DEF VInv
  <1>9. \A u \in Spaces : OnCores(u)' + dead'[u] <= as[u].refs
    <2> SUFFICES ASSUME NEW u \in Spaces PROVE OnCores(u)' + dead'[u] <= as[u].refs
      OBVIOUS
    <2>1. OnCores(u)' = IF s = u THEN OnCores(u) - 1 ELSE OnCores(u)
      BY <1>1, <1>5, CoreLeaves DEF VInv
    <2>2. OnCores(u) + dead[u] <= as[u].refs /\ OnCores(u) \in Nat /\ dead[u] \in Nat /\ as[u].refs \in Nat
      BY <1>6, CoresIn DEF VInv, Counted, AsType
    <2>3. dead'[u] = dead[u]
      BY <1>1
    <2>4. CASE s = u
      <3>1. OnCores(u) >= 1
        BY <1>5, <2>4, OneCore
      <3>2. OnCores(u) - 1 + dead[u] <= as[u].refs
        BY <2>2, <3>1, OneLess
      <3> QED
        BY <2>1, <2>3, <2>4, <3>2, Zenon
    <2>5. CASE s # u
      BY <2>1, <2>2, <2>3, <2>5, Zenon
    <2> QED
      BY <2>4, <2>5
  <1>10. MemTypes' /\ dead' \in [Spaces -> Nat]
    BY <1>1, <1>6, FaultKept DEF MemTypes
  <1> QED
    BY <1>4, <1>6, <1>7, <1>8, <1>9, <1>10, HoldStep

LEMMA ResumeStep ==
    ASSUME VInv, NEW c \in Cores, NEW s \in Spaces, Resume(c, s)
    PROVE  VInv'
  <1>1. /\ run[c] = NoSpace /\ run' = [run EXCEPT ![c] = s] /\ OnCores(s) < as[s].refs - dead[s]
        /\ tlb' = [tlb EXCEPT ![c] = NoTlb] /\ UNCHANGED <<as, pt, free, segs, nextId, dead, fault>>
    BY DEF Resume
  <1>2. /\ run \in [Cores -> Spaces \cup {NoSpace}] /\ tlb \in [Cores -> [Pages -> Entry]]
        /\ fault \in [Cores -> FaultType]
    BY DEF VInv, CoreTypes
  <1>3. CoreTypes'
    BY <1>1, <1>2, Plain DEF CoreTypes
  <1>4. Faulting'
    <2>1. \A d \in Cores : run'[d] = IF d = c THEN s ELSE run[d]
      BY <1>1, <1>2
    <2> QED
      BY <1>1, <2>1, Numbers DEF VInv, Faulting, NoFault
  <1>6. /\ as[s] \in AsType /\ pt[s] \in [Pages -> Entry] /\ Laid(as[s], pt[s])
        /\ as \in [Spaces -> AsType] /\ pt \in [Spaces -> [Pages -> Entry]] /\ dead \in [Spaces -> Nat]
    BY SpaceFacts DEF VInv, SpaceTypes, AllLaid
  <1>7. Becomes(s, as[s], pt[s])
    BY <1>1, <1>6 DEF Becomes, VInv, Unheld
  <1>8. Cached'
    <2>1. ASSUME NEW d \in Cores, NEW v \in Pages, tlb'[d][v] # Absent
          PROVE  /\ tlb'[d][v] = tlb[d][v] /\ run'[d] = run[d]
                 /\ run[d] # NoSpace => pt'[run[d]][v] = pt[run[d]][v]
      <3>1. d # c
        BY <1>1, <1>2, <2>1 DEF NoTlb
      <3> QED
        BY <1>1, <1>2, <3>1
    <2> QED
      BY <2>1, TlbKept DEF VInv
  <1>9. \A u \in Spaces : OnCores(u)' + dead'[u] <= as[u].refs
    <2> SUFFICES ASSUME NEW u \in Spaces PROVE OnCores(u)' + dead'[u] <= as[u].refs
      OBVIOUS
    <2>1. OnCores(u)' = IF s = u THEN OnCores(u) + 1 ELSE OnCores(u)
      BY <1>1, CoreComes DEF VInv
    <2>2. OnCores(u) + dead[u] <= as[u].refs /\ OnCores(u) \in Nat /\ dead[u] \in Nat /\ as[u].refs \in Nat
      BY <1>6, CoresIn DEF VInv, Counted, AsType
    <2>3. dead'[u] = dead[u]
      BY <1>1
    <2>4. CASE s = u
      <3>1. OnCores(u) < as[u].refs - dead[u]
        BY <1>1, <2>4
      <3>2. OnCores(u) + 1 + dead[u] <= as[u].refs
        BY <2>2, <3>1, OneLess
      <3> QED
        BY <2>1, <2>3, <2>4, <3>2, Zenon
    <2>5. CASE s # u
      BY <2>1, <2>2, <2>3, <2>5, Zenon
    <2> QED
      BY <2>4, <2>5
  <1>10. MemTypes' /\ dead' \in [Spaces -> Nat]
    BY <1>1, <1>6, FaultKept DEF MemTypes
  <1> QED
    BY <1>3, <1>4, <1>6, <1>7, <1>8, <1>9, <1>10, HoldStep

LEMMA ExitStep ==
    ASSUME VInv, NEW c \in Cores, Exit(c)
    PROVE  VInv'
  <1>1. /\ run[c] # NoSpace /\ run' = [run EXCEPT ![c] = NoSpace] /\ fault' = [fault EXCEPT ![c] = NoFault]
        /\ tlb' = [tlb EXCEPT ![c] = NoTlb] /\ UNCHANGED <<nextId, dead>> /\ Unref(run[c])
    BY DEF Exit
  <1>2. CoreTypes' /\ Faulting'
    BY <1>1, CoreGone
  <1>3. /\ run \in [Cores -> Spaces \cup {NoSpace}] /\ tlb \in [Cores -> [Pages -> Entry]]
    BY DEF VInv, CoreTypes
  <1>4. PICK s : s = run[c]
    OBVIOUS
  <1>5. /\ s \in Spaces /\ as[s].refs >= 1 /\ Unref(s)
        /\ as \in [Spaces -> AsType] /\ pt \in [Spaces -> [Pages -> Entry]] /\ dead \in [Spaces -> Nat]
    BY <1>1, <1>4, OwnSpace DEF VInv, SpaceTypes
  <1>6. PICK b, m : /\ Becomes(s, b, m) /\ b.refs = as[s].refs - 1
                    /\ as[s].refs > 1 => m = pt[s]
    BY <1>5, UnrefFacts, Zenon
  <1>7. segs' \in [1..NSegs -> SegType] /\ free' \in SUBSET Frames
    BY <1>5, UnrefFacts
  <1>8. MemTypes' /\ dead' \in [Spaces -> Nat]
    BY <1>1, <1>5, <1>7, FaultKept DEF MemTypes
  <1>9. Cached'
    <2>0. pt' = [pt EXCEPT ![s] = m]
      BY <1>6 DEF Becomes
    <2>1. ASSUME NEW d \in Cores, NEW v \in Pages, tlb'[d][v] # Absent
          PROVE  /\ tlb'[d][v] = tlb[d][v] /\ run'[d] = run[d]
                 /\ run[d] # NoSpace => pt'[run[d]][v] = pt[run[d]][v]
      <3>1. d # c
        BY <1>1, <1>3, <2>1 DEF NoTlb
      <3>2. CASE as[s].refs > 1
        <4>1. pt' = pt
          BY <1>5, <1>6, <2>0, <3>2
        <4> QED
          BY <1>1, <1>3, <3>1, <4>1
      <3>3. CASE ~(as[s].refs > 1)
        <4>1. run[d] # s
          BY <1>1, <1>4, <3>1, <3>3, Alone
        <4> QED
          BY <1>1, <1>3, <1>5, <2>0, <3>1, <4>1
      <3> QED
        BY <3>2, <3>3
    <2> QED
      BY <2>1, TlbKept DEF VInv
  <1>10. ASSUME NEW u \in Spaces
         PROVE  /\ u # s => OnCores(u)' + dead'[u] <= as[u].refs
                /\ u = s => OnCores(u)' + dead'[u] <= b.refs
    <2>1. OnCores(u)' = IF s = u THEN OnCores(u) - 1 ELSE OnCores(u)
      BY <1>1, <1>4, CoreLeaves DEF VInv
    <2>2. OnCores(u) + dead[u] <= as[u].refs /\ OnCores(u) \in Nat /\ dead[u] \in Nat /\ as[u].refs \in Nat
      BY <1>5, CoresIn DEF VInv, Counted, AsType
    <2>3. dead'[u] = dead[u]
      BY <1>1
    <2>4. CASE s = u
      <3>1. OnCores(u) >= 1
        BY <1>4, <2>4, OneCore
      <3>2. OnCores(u) - 1 + dead[u] <= as[u].refs - 1
        BY <2>2, <3>1, OneLess
      <3> QED
        BY <1>6, <2>1, <2>3, <2>4, <3>2, Zenon
    <2>5. CASE s # u
      BY <2>1, <2>2, <2>3, <2>5, Zenon
    <2> QED
      BY <2>4, <2>5
  <1>11. (\A u \in Spaces : u # s => OnCores(u)' + dead'[u] <= as[u].refs) /\ OnCores(s)' + dead'[s] <= b.refs
    BY <1>5, <1>10, Zenon
  <1> QED
    BY <1>2, <1>5, <1>6, <1>8, <1>9, <1>11, HoldStep

LEMMA ReapStep ==
    ASSUME VInv, NEW s \in Spaces, Reap(s)
    PROVE  VInv'
  <1>1. /\ dead[s] > 0 /\ dead' = [dead EXCEPT ![s] = @ - 1] /\ UNCHANGED <<nextId, run, tlb, fault>> /\ Unref(s)
    BY DEF Reap
  <1>2. CoreTypes' /\ Faulting'
    BY <1>1 DEF VInv, CoreTypes, Faulting, NoFault
  <1>3. /\ as \in [Spaces -> AsType] /\ pt \in [Spaces -> [Pages -> Entry]] /\ dead \in [Spaces -> Nat]
        /\ run \in [Cores -> Spaces \cup {NoSpace}] /\ as[s].refs \in Nat /\ dead[s] \in Nat /\ OnCores(s) \in Nat
        /\ OnCores(s) + dead[s] <= as[s].refs
    BY SpaceFacts, CoresIn DEF VInv, SpaceTypes, CoreTypes, Counted
  <1>4. /\ OnCores(s) + (dead[s] - 1) <= as[s].refs - 1 /\ dead[s] - 1 \in Nat /\ as[s].refs >= 1
        /\ (~(as[s].refs > 1) => OnCores(s) = 0)
    BY <1>1, <1>3, OneLess, Zenon
  <1>5. PICK b, m : /\ Becomes(s, b, m) /\ b.refs = as[s].refs - 1
                    /\ as[s].refs > 1 => m = pt[s]
    BY <1>1, <1>4, UnrefFacts, Zenon
  <1>6. segs' \in [1..NSegs -> SegType] /\ free' \in SUBSET Frames
    BY <1>1, <1>4, UnrefFacts
  <1>7. MemTypes' /\ dead' \in [Spaces -> Nat]
    BY <1>1, <1>3, <1>4, <1>6, FaultKept DEF MemTypes
  <1>8. Cached'
    <2>0. pt' = [pt EXCEPT ![s] = m]
      BY <1>5 DEF Becomes
    <2>1. ASSUME NEW d \in Cores, NEW v \in Pages, tlb'[d][v] # Absent
          PROVE  /\ tlb'[d][v] = tlb[d][v] /\ run'[d] = run[d]
                 /\ run[d] # NoSpace => pt'[run[d]][v] = pt[run[d]][v]
      <3>2. CASE as[s].refs > 1
        <4>1. pt' = pt
          BY <1>3, <1>5, <2>0, <3>2
        <4> QED
          BY <1>1, <4>1
      <3>3. CASE ~(as[s].refs > 1)
        <4>1. run[d] # s
          <5>1. OnCores(s) = 0
            BY <1>4, <3>3
          <5>2. OnCores(run[d]) >= 1
            BY OneCore
          <5>3. ~(0 >= 1)
            OBVIOUS
          <5> QED
            BY <5>1, <5>2, <5>3
        <4> QED
          BY <1>1, <1>3, <2>0, <4>1
      <3> QED
        BY <3>2, <3>3
    <2> QED
      BY <2>1, TlbKept DEF VInv
  <1>9. \A u \in Spaces : OnCores(u)' = OnCores(u)
    BY <1>1 DEF OnCores
  <1>10. \A u \in Spaces : u # s => OnCores(u)' + dead'[u] <= as[u].refs
    <2> SUFFICES ASSUME NEW u \in Spaces, u # s PROVE OnCores(u)' + dead'[u] <= as[u].refs
      OBVIOUS
    <2>1. dead'[u] = dead[u]
      BY <1>1, <1>3
    <2>2. OnCores(u) + dead[u] <= as[u].refs
      BY DEF VInv, Counted
    <2> QED
      BY <1>9, <2>1, <2>2, Zenon
  <1>11. OnCores(s)' + dead'[s] <= b.refs
    <2>1. dead'[s] = dead[s] - 1
      BY <1>1, <1>3
    <2> QED
      BY <1>4, <1>5, <1>9, <2>1, Zenon
  <1> QED
    BY <1>2, <1>5, <1>7, <1>8, <1>10, <1>11, HoldStep

LEMMA SpaceNewStep ==
    ASSUME VInv, NEW s \in Spaces, SpaceNew(s)
    PROVE  VInv'
  <1>1. /\ as[s].refs = 0 /\ as' = [as EXCEPT ![s] = [NoAs EXCEPT !.refs = 1]]
        /\ UNCHANGED <<pt, free, segs, nextId, dead, run, tlb, fault>>
    BY DEF SpaceNew
  <1>2. /\ as \in [Spaces -> AsType] /\ pt \in [Spaces -> [Pages -> Entry]] /\ dead \in [Spaces -> Nat]
        /\ pt[s] \in [Pages -> Entry] /\ dead[s] \in Nat /\ OnCores(s) \in Nat /\ Laid(as[s], pt[s])
        /\ OnCores(s) + dead[s] <= 0 /\ as[s] = NoAs
    BY <1>1, SpaceFacts, CoresIn DEF VInv, SpaceTypes, Counted, AllLaid, Unheld
  <1>3. PICK b : b = [NoAs EXCEPT !.refs = 1]
    OBVIOUS
  <1>4. b \in AsType /\ b.refs = 1 /\ b.brk = as[s].brk /\ b.vm = as[s].vm
    BY <1>2, <1>3, Plain DEF AsType
  <1>5. Laid(b, pt[s])
    BY <1>2, <1>4, ZenonT(60) DEF Laid, InUse
  <1>6. Becomes(s, b, pt[s])
    BY <1>1, <1>2, <1>3, <1>4, <1>5 DEF Becomes
  <1>7. CoreTypes' /\ Faulting'
    BY <1>1 DEF VInv, CoreTypes, Faulting, NoFault
  <1>8. MemTypes' /\ dead' \in [Spaces -> Nat] /\ Cached'
    BY <1>1, <1>2, FaultKept, TlbSame DEF MemTypes
  <1>9. \A u \in Spaces : OnCores(u)' = OnCores(u) /\ dead'[u] = dead[u]
    BY <1>1 DEF OnCores
  <1>10. \A u \in Spaces : u # s => OnCores(u)' + dead'[u] <= as[u].refs
    BY <1>9 DEF VInv, Counted
  <1>11. OnCores(s)' + dead'[s] <= b.refs
    <2>1. \A x, y \in Nat : x + y <= 0 => x + y <= 1
      OBVIOUS
    <2> QED
      BY <1>2, <1>4, <1>9, <2>1, Zenon
  <1> QED
    BY <1>6, <1>7, <1>8, <1>10, <1>11, HoldStep

LEMMA ThreadExitStep ==
    ASSUME VInv, NEW c \in Cores, NEW i, ThreadExit(c, i)
    PROVE  VInv'
  <1>1. PICK s, span : s = run[c] /\ span = Span(as[s].vm[i])
    OBVIOUS
  <1>2. /\ run[c] # NoSpace /\ i \in Used(s) /\ run' = [run EXCEPT ![c] = NoSpace] /\ fault' = [fault EXCEPT ![c] = NoFault]
        /\ UNCHANGED <<segs, nextId>>
        /\ as' = [as EXCEPT ![s].vm[i] = NoRegion] /\ pt' = Cleared(s, span)
        /\ tlb' = [d \in Cores |-> IF d = c \/ as[s].refs > 1 THEN NoTlb ELSE tlb[d]]
        /\ free' = free \cup FramesIn(s, span) /\ dead' = [dead EXCEPT ![s] = @ + 1]
    BY <1>1 DEF ThreadExit
  <1>3. /\ s \in Spaces /\ as[s].refs >= 1 /\ SpaceTypes /\ MemTypes /\ as[s] \in AsType /\ pt[s] \in [Pages -> Entry]
        /\ as \in [Spaces -> AsType] /\ pt \in [Spaces -> [Pages -> Entry]] /\ dead \in [Spaces -> Nat]
        /\ Laid(as[s], pt[s]) /\ as[s].refs \in Nat
    BY <1>1, <1>2, OwnSpace DEF VInv, SpaceTypes, AsType
  <1>4. /\ run \in [Cores -> Spaces \cup {NoSpace}] /\ tlb \in [Cores -> [Pages -> Entry]] /\ fault \in [Cores -> FaultType]
    BY DEF VInv, CoreTypes
  <1>5. Used(s) = InUse(as[s]) /\ Used(s) \subseteq Regions
    BY <1>3, SpaceFacts
  <1>6. PICK b, p : b = Without(as[s], i) /\ p = Emptied(pt[s], span)
    OBVIOUS
  <1>7. b \in AsType /\ b.refs = as[s].refs /\ p \in [Pages -> Entry] /\ Laid(b, p) /\ span \subseteq Pages
    <2>1. PICK a, m : a = as[s] /\ m = pt[s]
      OBVIOUS
    <2>2. a \in AsType /\ m \in [Pages -> Entry] /\ Laid(a, m) /\ i \in InUse(a)
      BY <1>2, <1>3, <1>5, <2>1
    <2>3. b = Without(a, i) /\ span = Span(a.vm[i]) /\ p = Emptied(m, span)
      BY <1>1, <1>6, <2>1
    <2>4. /\ Without(a, i) \in AsType /\ Without(a, i).refs = a.refs /\ Emptied(m, Span(a.vm[i])) \in [Pages -> Entry]
          /\ Laid(Without(a, i), Emptied(m, Span(a.vm[i])))
          /\ Span(a.vm[i]) \subseteq Pages
      BY <2>2, WithoutRegion
    <2> QED
      BY <2>1, <2>3, <2>4
  <1>8. as' = [as EXCEPT ![s] = b] /\ pt' = [pt EXCEPT ![s] = p]
    BY <1>2, <1>3, <1>6, Unmapped
  <1>9. b.refs # 0
    <2>1. \A x \in Nat : x >= 1 => x # 0
      OBVIOUS
    <2> QED
      BY <1>3, <1>7, <2>1, Zenon
  <1>10. Becomes(s, b, p)
    BY <1>7, <1>8, <1>9 DEF Becomes
  <1>11. CoreTypes' /\ Faulting'
    <2>1. tlb' \in [Cores -> [Pages -> Entry]]
      BY <1>2, <1>4, Plain
    <2>2. CoreTypes'
      BY <1>2, <1>4, <2>1, Plain DEF CoreTypes
    <2>3. \A d \in Cores : fault'[d] = (IF d = c THEN NoFault ELSE fault[d]) /\ (d # c => run'[d] = run[d])
      BY <1>2, <1>4
    <2>4. Faulting'
      BY <2>3 DEF VInv, Faulting, NoFault
    <2> QED
      BY <2>2, <2>4
  <1>12. MemTypes' /\ dead' \in [Spaces -> Nat]
    <2>1. FramesIn(s, span) \subseteq Frames
      BY <1>3, <1>7, FramesInType
    <2>2. free' \subseteq Frames
      BY <1>2, <1>3, <2>1 DEF MemTypes
    <2>3. dead' \in [Spaces -> Nat]
      BY <1>2, <1>3
    <2> QED
      BY <1>2, <1>3, <2>2, <2>3 DEF MemTypes
  <1>13. Cached'
    <2>1. ASSUME NEW d \in Cores, NEW v \in Pages, tlb'[d][v] # Absent
          PROVE  /\ tlb'[d][v] = tlb[d][v] /\ run'[d] = run[d]
                 /\ run[d] # NoSpace => pt'[run[d]][v] = pt[run[d]][v]
      <3>1. tlb'[d] = IF d = c \/ as[s].refs > 1 THEN NoTlb ELSE tlb[d]
        BY <1>2
      <3>2. d # c /\ ~(as[s].refs > 1) /\ tlb'[d] = tlb[d]
        BY <2>1, <3>1 DEF NoTlb
      <3>3. run[d] # s
        BY <1>1, <1>2, <3>2, Alone
      <3> QED
        BY <1>2, <1>3, <1>4, <1>8, <3>2, <3>3
    <2> QED
      BY <2>1, TlbKept DEF VInv
  <1>14. ASSUME NEW u \in Spaces
         PROVE  /\ u # s => OnCores(u)' + dead'[u] <= as[u].refs
                /\ u = s => OnCores(u)' + dead'[u] <= b.refs
    <2>1. OnCores(u)' = IF s = u THEN OnCores(u) - 1 ELSE OnCores(u)
      BY <1>1, <1>2, CoreLeaves DEF VInv
    <2>2. OnCores(u) + dead[u] <= as[u].refs /\ OnCores(u) \in Nat /\ dead[u] \in Nat /\ as[u].refs \in Nat
      BY <1>3, CoresIn DEF VInv, Counted, AsType
    <2>3. dead'[u] = IF s = u THEN dead[u] + 1 ELSE dead[u]
      BY <1>2, <1>3
    <2>4. CASE s = u
      <3>1. OnCores(u) >= 1
        BY <1>1, <2>4, OneCore
      <3>2. OnCores(u) - 1 + (dead[u] + 1) <= as[u].refs
        BY <2>2, <3>1, OneLess
      <3> QED
        BY <1>7, <2>1, <2>3, <2>4, <3>2, Zenon
    <2>5. CASE s # u
      BY <2>1, <2>2, <2>3, <2>5, Zenon
    <2> QED
      BY <2>4, <2>5
  <1>15. (\A u \in Spaces : u # s => OnCores(u)' + dead'[u] <= as[u].refs) /\ OnCores(s)' + dead'[s] <= b.refs
    BY <1>3, <1>14, Zenon
  <1> QED
    BY <1>3, <1>10, <1>11, <1>12, <1>13, <1>15, HoldStep

----------------------------------------------------------------------------
(* Making and removing segments.                                           *)

\* The member of T that has k others below it.
LEMMA RankExists ==
    ASSUME NEW T \in SUBSET Nat, IsFiniteSet(T), NEW k \in Nat, k < Cardinality(T)
    PROVE  \E f \in T : Cardinality({g \in T : g < f}) = k
  <1> DEFINE Has(x) == \E f \in T : Cardinality({g \in T : g < f}) = x
             Bad == {x \in Nat : x < Cardinality(T) /\ ~Has(x)}
  <1> SUFFICES ASSUME ~Has(k) PROVE FALSE
    OBVIOUS
  <1>0. Cardinality(T) \in Nat
    BY FS_CardinalityType
  <1>1. Bad \in SUBSET Nat /\ Bad # {}
    <2> HIDE DEF Has
    <2>1. k \in Bad
      OBVIOUS
    <2> QED
      BY <2>1
  <1>2. PICK x \in Bad : \A y \in Bad : x <= y
    <2> HIDE DEF Bad
    <2> QED
      BY <1>1, LeastNat
  <1>3. x \in Nat /\ x < Cardinality(T) /\ ~Has(x)
    <2> HIDE DEF Has
    <2> QED
      BY <1>2
  <1>4. CASE x = 0
    <2>1. T # {}
      BY <1>0, <1>3, <1>4, FS_EmptySet
    <2>2. PICK f \in T : \A y \in T : f <= y
      BY <2>1, LeastNat
    <2>3. {g \in T : g < f} = {}
      <3> SUFFICES ASSUME NEW g \in T, g < f PROVE FALSE
        OBVIOUS
      <3>1. f <= g /\ f \in Nat /\ g \in Nat
        BY <2>2
      <3> QED
        BY <3>1
    <2>4. Cardinality({g \in T : g < f}) = 0
      BY <2>3, FS_EmptySet
    <2> QED
      BY <1>3, <1>4, <2>4
  <1>5. CASE x # 0
    <2>1. x - 1 \in Nat /\ x - 1 < Cardinality(T) /\ ~(x <= x - 1)
      BY <1>0, <1>3, <1>5
    <2>2. Has(x - 1)
      <3> HIDE DEF Has
      <3>1. x - 1 \notin Bad
        <4> HIDE DEF Bad
        <4> QED
          BY <1>2, <2>1
      <3> QED
        BY <2>1, <3>1
    <2>3. PICK f \in T : Cardinality({g \in T : g < f}) = x - 1
      BY <2>2
    <2>4. PICK B, U : B = {g \in T : g < f} /\ U = T \ (B \cup {f})
      OBVIOUS
    <2>5. B \in SUBSET T /\ IsFiniteSet(B) /\ f \notin B /\ f \in Nat
      <3>1. f \notin B
        BY <2>4
      <3> QED
        BY <2>4, <3>1, FS_Subset
    <2>6. IsFiniteSet(B \cup {f}) /\ Cardinality(B \cup {f}) = x
      <3>1. IsFiniteSet(B \cup {f}) /\ Cardinality(B \cup {f}) = Cardinality(B) + 1
        BY <2>5, FS_AddElement
      <3> QED
        BY <1>3, <2>3, <2>4, <3>1
    <2>7. U # {}
      <3> SUFFICES ASSUME U = {} PROVE FALSE
        OBVIOUS
      <3>1. T = B \cup {f}
        BY <2>4, <2>5
      <3> QED
        BY <1>0, <1>3, <2>6, <3>1
    <2>8. PICK h \in U : \A y \in U : h <= y
      <3>1. U \in SUBSET Nat
        BY <2>4
      <3> QED
        BY <2>7, <3>1, LeastNat
    <2>9. {g \in T : g < h} = B \cup {f}
      <3>1. h \in T /\ h \in Nat /\ f < h
        BY <2>4, <2>5, <2>8
      <3>2. ASSUME NEW g \in T PROVE g < h <=> g \in B \cup {f}
        <4>1. g \in Nat
          OBVIOUS
        <4>2. CASE g \in U
          <5>1. h <= g
            BY <2>8, <4>2
          <5> QED
            BY <2>4, <3>1, <4>1, <4>2, <5>1
        <4>3. CASE g \notin U
          <5>1. g \in B \cup {f}
            BY <2>4, <4>3
          <5>2. g <= f
            BY <2>4, <2>5, <4>1, <5>1
          <5> QED
            BY <2>5, <3>1, <4>1, <5>1, <5>2
        <4> QED
          BY <4>2, <4>3
      <3> QED
        BY <2>5, <3>2
    <2>10. Cardinality({g \in T : g < h}) = x /\ h \in T
      BY <2>4, <2>6, <2>8, <2>9
    <2> QED
      BY <1>3, <2>10
  <1> QED
    BY <1>4, <1>5

\* n calls of pmm_alloc_frame give n frames.
LEMMA LowestType ==
    ASSUME MemTypes, NEW n \in Nat, Cardinality(free) >= n
    PROVE  Lowest(n) \in Seq(Frames) /\ Len(Lowest(n)) = n
  <1>1. free \in SUBSET Nat /\ IsFiniteSet(free) /\ free \subseteq Frames /\ Cardinality(free) \in Nat
    <2>1. 1 \in Int /\ NFrames \in Int /\ Frames = 1..NFrames /\ Frames \subseteq Nat
      BY Numbers
    <2>2. IsFiniteSet(Frames)
      BY <2>1, FS_Interval
    <2>3. free \subseteq Frames
      BY DEF MemTypes
    <2> QED
      BY <2>1, <2>2, <2>3, FS_Subset, FS_CardinalityType
  <1>2. ASSUME NEW i \in 1..n
        PROVE  (CHOOSE f \in free : Cardinality({g \in free : g < f}) = i - 1) \in Frames
    <2>1. i - 1 \in Nat /\ i - 1 < Cardinality(free)
      BY <1>1
    <2>2. \E f \in free : Cardinality({g \in free : g < f}) = i - 1
      BY <1>1, <2>1, RankExists
    <2> QED
      BY <1>1, <2>2
  <1>3. Lowest(n) \in [1..n -> Frames]
    BY <1>2 DEF Lowest
  <1> QED
    BY <1>3

\* Steps that change segments and free frames only.
LEMMA MemStep ==
    ASSUME VInv, UNCHANGED <<as, pt, dead, run, tlb, fault>>, MemTypes'
    PROVE  VInv'
  <1>1. SpaceTypes' /\ CoreTypes'
    BY DEF VInv, SpaceTypes, CoreTypes
  <1>2. AllLaid'
    BY ZenonT(60) DEF VInv, AllLaid, Laid, InUse
  <1>3. Counted' /\ Unheld'
    BY DEF VInv, Counted, Unheld, OnCores, NoAs
  <1>4. Faulting' /\ Cached'
    BY DEF VInv, Faulting, Cached, TlbTrue, NoFault, Absent
  <1> QED
    BY <1>1, <1>2, <1>3, <1>4 DEF VInv

LEMMA ShmGetStep ==
    ASSUME VInv, NEW key \in Keys, NEW n \in Nat, ShmGet(key, n)
    PROVE  VInv'
  <1>1. MemTypes /\ free \subseteq Frames /\ segs \in [1..NSegs -> SegType] /\ nextId \in 1..(MaxId + 1)
    BY DEF VInv, MemTypes
  <1>2. PICK k, fs : k = Min({j \in 1..NSegs : ~segs[j].used}) /\ fs = Lowest(n)
    OBVIOUS
  <1>3. PICK q : q = [used |-> TRUE, id |-> nextId, key |-> key, removed |-> FALSE, frames |-> fs, maps |-> 0]
    OBVIOUS
  <1>4. /\ nextId <= MaxId /\ Cardinality(free) >= n /\ (\E j \in 1..NSegs : ~segs[j].used)
        /\ segs' = [segs EXCEPT ![k] = q] /\ free' = free \ {fs[i] : i \in 1..n} /\ nextId' = nextId + 1
        /\ UNCHANGED <<as, pt, dead, run, tlb, fault>>
    BY <1>2, <1>3 DEF ShmGet
  <1>5. k \in 1..NSegs
    <2>1. PICK J : J = {j \in 1..NSegs : ~segs[j].used}
      OBVIOUS
    <2>2. J \in SUBSET Nat /\ J # {}
      BY <1>4, <2>1
    <2>3. Min(J) \in J
      BY <2>2, MinFacts
    <2> QED
      BY <1>2, <2>1, <2>3
  <1>6. fs \in Seq(Frames)
    BY <1>1, <1>2, <1>4, LowestType
  <1>7. q \in SegType
    <2>1. nextId \in 0..MaxId
      BY <1>1, <1>4, Numbers
    <2> QED
      BY <1>3, <1>6, <2>1 DEF SegType
  <1>8. nextId' \in 1..(MaxId + 1)
    BY <1>1, <1>4, Numbers
  <1>9. segs' \in [1..NSegs -> SegType] /\ free' \subseteq Frames
    BY <1>1, <1>4, <1>5, <1>7
  <1>10. MemTypes'
    BY <1>8, <1>9 DEF MemTypes
  <1> QED
    BY <1>4, <1>10, MemStep

LEMMA ShmCtlStep ==
    ASSUME VInv, NEW k \in 1..NSegs, ShmCtl(k)
    PROVE  VInv'
  <1>1. MemTypes /\ free \subseteq Frames /\ segs \in [1..NSegs -> SegType] /\ nextId \in 1..(MaxId + 1)
    BY DEF VInv, MemTypes
  <1>2. PICK q : q = IF segs[k].maps = 0 THEN NoSeg ELSE [segs[k] EXCEPT !.removed = TRUE, !.key = Private]
    OBVIOUS
  <1>3. /\ segs' = [segs EXCEPT ![k] = q] /\ free' = free \cup SegFreed(segs, segs')
        /\ UNCHANGED <<as, pt, nextId, dead, run, tlb, fault>>
    BY <1>1, <1>2 DEF ShmCtl
  <1>4. q \in SegType
    <2>1. segs[k] \in SegType
      BY <1>1
    <2>2. [segs[k] EXCEPT !.removed = TRUE, !.key = Private] \in SegType
      BY <2>1 DEF SegType
    <2> QED
      BY <1>2, <2>2, Plain
  <1>5. segs' \in [1..NSegs -> SegType]
    BY <1>1, <1>3, <1>4
  <1>6. free' \in SUBSET Frames
    <2>1. {} \in SUBSET Frames
      OBVIOUS
    <2> QED
      BY <1>1, <1>3, <1>5, <2>1, FreedType
  <1>7. MemTypes'
    BY <1>1, <1>3, <1>5, <1>6 DEF MemTypes
  <1> QED
    BY <1>3, <1>7, MemStep

----------------------------------------------------------------------------
(* The invariant.                                                          *)

LEMMA InitVInv == Init => VInv
  <1> SUFFICES ASSUME Init PROVE VInv
    OBVIOUS
  <1>1. SpaceTypes /\ MemTypes /\ CoreTypes
    <2>1. SpaceTypes
      BY Plain DEF Init, SpaceTypes
    <2>2. MemTypes
      BY Plain, Numbers DEF Init, MemTypes
    <2>3. CoreTypes
      BY Plain DEF Init, CoreTypes
    <2> QED
      BY <2>1, <2>2, <2>3
  <1>2. AllLaid
    <2>1. Laid(NoAs, NoTlb)
      BY Plain DEF Laid, NoTlb
    <2> QED
      BY <2>1 DEF Init, AllLaid
  <1>3. Counted
    <2> SUFFICES ASSUME NEW s \in Spaces PROVE OnCores(s) + dead[s] <= as[s].refs
      BY DEF Counted
    <2>1. {c \in Cores : run[c] = s} = {}
      BY Numbers DEF Init
    <2>2. OnCores(s) = 0
      BY <2>1, FS_EmptySet DEF OnCores
    <2>3. dead[s] = 0 /\ as[s].refs = 0
      BY Plain DEF Init
    <2> QED
      BY <2>2, <2>3
  <1>4. Unheld /\ Faulting /\ Cached
    BY DEF Init, Unheld, Faulting, Cached, TlbTrue, NoTlb
  <1> QED
    BY <1>1, <1>2, <1>3, <1>4 DEF VInv

LEMMA InputTypes ==
    /\ MapProts \subseteq SUBSET Rights /\ Prots \subseteq SUBSET Rights
    /\ \A c \in Cores : CoreTypes => Lens(c) \subseteq Nat /\ KindsOf(c) \subseteq {"r"} \cup Rights
  <1>1. MapProts \subseteq SUBSET Rights /\ Prots \subseteq SUBSET Rights
    BY VmAssumption
  <1>2. ASSUME NEW c \in Cores, CoreTypes PROVE Lens(c) \subseteq Nat /\ KindsOf(c) \subseteq {"r"} \cup Rights
    <2>1. CASE run[c] = NoSpace
      BY <2>1 DEF Lens, KindsOf
    <2>2. CASE run[c] # NoSpace
      <3>1. run[c] \in Spaces
        BY <1>2, <2>2 DEF CoreTypes
      <3>2. MaxLen[run[c]] \in Nat /\ Kinds[run[c]] \subseteq {"r"} \cup Rights
        BY <3>1, VmAssumption
      <3> QED
        BY <2>2, <3>2 DEF Lens, KindsOf
    <2> QED
      BY <2>1, <2>2
  <1> QED
    BY <1>1, <1>2

LEMMA CallsVInv ==
    ASSUME VInv, ~Leftovers, NEW c \in Cores, Calls(c)
    PROVE  VInv'
  <1>1. /\ MapProts \subseteq SUBSET Rights /\ Prots \subseteq SUBSET Rights /\ Lens(c) \subseteq Nat
    BY InputTypes DEF VInv
  <1>2. ASSUME NEW n \in Lens(c), ThreadCreate(c, n) \/ Grow(c, n) \/ Shrink(c, n) PROVE VInv'
    BY <1>1, <1>2, ThreadCreateStep, GrowStep, ShrinkStep
  <1>3. ASSUME NEW n \in Lens(c), NEW prot \in MapProts, Mmap(c, n, prot) PROVE VInv'
    BY <1>1, <1>3, MmapStep
  <1>4. ASSUME NEW i \in Regions, Munmap(c, i) PROVE VInv'
    BY <1>4, MunmapStep
  <1>5. ASSUME NEW i \in Regions, NEW prot \in Prots, Mprotect(c, i, prot) PROVE VInv'
    BY <1>1, <1>5, MprotectStep
  <1>6. ASSUME NEW k \in 1..NSegs, NEW prot \in MapProts, ShmAttach(c, k, prot) PROVE VInv'
    BY <1>1, <1>6, ShmAttachStep
  <1>7. ASSUME NEW v \in Pages, TouchWrite(c, v) PROVE VInv'
    BY <1>7, TouchWriteStep
  <1> QED
    BY <1>2, <1>3, <1>4, <1>5, <1>6, <1>7 DEF Calls

LEMMA RunsVInv ==
    ASSUME VInv, NEW c \in Cores, Runs(c)
    PROVE  VInv'
  <1>1. KindsOf(c) \subseteq {"r"} \cup Rights
    BY InputTypes DEF VInv
  <1>2. ASSUME NEW v \in Pages, NEW kind \in KindsOf(c), Trap(c, v, kind) PROVE VInv'
    BY <1>1, <1>2, TrapStep
  <1>3. ASSUME NEW s \in Spaces, Resume(c, s) PROVE VInv'
    BY <1>3, ResumeStep
  <1>4. ASSUME NEW i \in Regions, ThreadExit(c, i) PROVE VInv'
    BY <1>4, ThreadExitStep
  <1>5. CASE Walk(c) \/ Fault(c) \/ Refused(c) \/ Leave(c) \/ Exit(c)
    BY <1>5, WalkStep, FaultStep, RefusedStep, LeaveStep, ExitStep
  <1> QED
    BY <1>2, <1>3, <1>4, <1>5 DEF Runs

LEMMA NextVInv == ASSUME VInv, ~Leftovers, [Next]_vars PROVE VInv'
  <1>1. ASSUME NEW c \in Cores, Calls(c) \/ Runs(c) PROVE VInv'
    BY <1>1, CallsVInv, RunsVInv
  <1>2. ASSUME NEW s \in Spaces, SpaceNew(s) \/ Reap(s) PROVE VInv'
    BY <1>2, SpaceNewStep, ReapStep
  <1>3. ASSUME NEW key \in Keys, NEW n \in 1..MaxSeg, ShmGet(key, n) PROVE VInv'
    <2>1. n \in Nat
      BY VmAssumption
    <2> QED
      BY <1>3, <2>1, ShmGetStep
  <1>4. ASSUME NEW k \in 1..NSegs, ShmCtl(k) PROVE VInv'
    BY <1>4, ShmCtlStep
  <1>5. CASE UNCHANGED vars
    <2>1. UNCHANGED <<as, pt, dead, run, tlb, fault>> /\ MemTypes'
      BY <1>5 DEF vars, VInv, MemTypes
    <2> QED
      BY <2>1, MemStep
  <1> QED
    BY <1>1, <1>2, <1>3, <1>4, <1>5 DEF Next

\* The window of a program, from the invariant.
LEMMA VInvLaidOut == VInv => LaidOut
  <1> SUFFICES ASSUME VInv PROVE LaidOut
    OBVIOUS
  <1>0. SpaceTypes /\ MemTypes /\ CoreTypes
    BY DEF VInv
  <1>1. TypeOK
    <2>1. \A k \in 1..NSegs : segs[k] \in SegType
      BY <1>0 DEF MemTypes
    <2>2. \A k \in 1..NSegs : /\ segs[k].used \in BOOLEAN /\ segs[k].removed \in BOOLEAN
                              /\ segs[k].id \in 0..MaxId /\ segs[k].maps \in Nat
                              /\ segs[k].key \in Keys \cup {Private}
                              /\ segs[k].frames \in Seq(Frames)
      BY <2>1 DEF SegType
    <2> QED
      BY <1>0, <2>2 DEF TypeOK, SpaceTypes, MemTypes, CoreTypes, AsType, FaultType
  <1>2. Apart
    <2> SUFFICES ASSUME NEW s \in Spaces, NEW i \in Used(s)
                 PROVE  /\ Span(as[s].vm[i]) \subseteq (as[s].brk + 1)..(MmapTop - 1)
                        /\ \A j \in Used(s) : i # j => Span(as[s].vm[i]) \cap Span(as[s].vm[j]) = {}
                        /\ \A v \in Span(as[s].vm[i]) :
                               pt[s][v] # Absent => pt[s][v].prot = FlagsOf(as[s].vm[i].prot)
      BY DEF Apart
    <2>1. Used(s) = InUse(as[s]) /\ Laid(as[s], pt[s])
      BY <1>0, SpaceFacts DEF VInv, AllLaid
    <2> QED
      BY <2>1 DEF Laid, FlagsOf
  <1>3. GapIsGuard
    <2> SUFFICES ASSUME NEW s \in Spaces, NEW v \in Pages, pt[s][v] # Absent
                 PROVE  v < as[s].brk \/ RegionAt(s, v) # {}
      BY DEF GapIsGuard
    <2>1. Used(s) = InUse(as[s]) /\ Laid(as[s], pt[s])
      BY <1>0, SpaceFacts DEF VInv, AllLaid
    <2> QED
      BY <2>1 DEF Laid, RegionAt
  <1> QED
    BY <1>1, <1>2, <1>3 DEF LaidOut

\* The inductive invariant: what is in a space and who holds it agree, and what
\* the cores have cached as well unless an attaching that fails may be seen by
\* another core, for any number of spaces, cores, pages, frames, regions and
\* segments, where programs give back only heap they have not touched.
THEOREM VmInvariant ==
    ASSUME ~Leftovers
    PROVE  Spec => []VInv
  <1>1. Init => VInv
    BY InitVInv
  <1>2. VInv /\ [Next]_vars => VInv'
    BY NextVInv
  <1> QED
    BY <1>1, <1>2, PTL DEF Spec

\* What a core has cached of a page table is what the table says, although the
\* other cores are told of a change only if the space has more than one holder;
\* where no core reaches a page of a segment while its attaching fails.
THEOREM VmTlbTrue ==
    ASSUME ~Leftovers, ~Halfway
    PROVE  Spec => []TlbTrue
  <1>1. VInv => TlbTrue
    BY DEF VInv, Cached
  <1> QED
    BY <1>1, VmInvariant, PTL

\* Mappings do not overlap, the heap stays a page below them, nothing is
\* elsewhere, and each page has the rights it was last given.
THEOREM VmLaidOut ==
    ASSUME ~Leftovers
    PROVE  Spec => []LaidOut
  BY VInvLaidOut, VmInvariant, PTL

----------------------------------------------------------------------------
(* Frames.  The same facts as FramesOnce and SegmentsHeld, with what is    *)
(* changed by a step as a parameter.                                       *)

Sharing(a) == {i \in InUse(a) : a.vm[i].shm # 0}
SharedIn(a) == UNION {Span(a.vm[i]) : i \in Sharing(a)}
OwnIn(a, m) == {v \in Pages \ SharedIn(a) : m[v] # Absent}
FramesOf(q) == {q.frames[i] : i \in DOMAIN q.frames}

OwnAll == [s \in Spaces |-> OwnIn(as[s], pt[s])]
SegAll == [k \in 1..NSegs |-> FramesOf(segs[k])]

\* O: each space's own pages; m: the tables; fr: the free frames; g: each
\* segment's.
OnceOf(O, m, fr, g) ==
    /\ \A s \in Spaces : \A v \in O[s] :
           m[s][v].frame \notin fr /\ \A k \in 1..NSegs : m[s][v].frame \notin g[k]
    /\ \A s, t \in Spaces : \A v \in O[s], w \in O[t] : m[s][v].frame = m[t][w].frame => s = t /\ v = w
    /\ \A k \in 1..NSegs : \A f \in g[k] : f \notin fr
    /\ \A j, k \in 1..NSegs : \A f \in g[j] : f \in g[k] => j = k
    /\ \A f : f \in Frames <=> \/ f \in fr \/ \E k \in 1..NSegs : f \in g[k]
                               \/ \E s \in Spaces : \E v \in O[s] : f = m[s][v].frame
Once == OnceOf(OwnAll, pt, free, SegAll)

\* A region r with the pages m has all of a segment of S.
MappedBy(r, m, q) ==
    /\ q.used /\ q.id = r.shm - 1 /\ r.len = Len(q.frames)
    /\ \A v \in Span(r) : m[v].frame = q.frames[v - r.base + 1]
Backed ==
    \A s \in Spaces : \A i \in Sharing(as[s]) : \E k \in 1..NSegs : MappedBy(as[s].vm[i], pt[s], segs[k])

\* The regions of the spaces A that map the segment id.
MapsOf(A, id) ==
    {p \in Spaces \X Regions : p[2] \in Sharing(A[p[1]]) /\ A[p[1]].vm[p[2]].shm = id + 1}
MapsCounted ==
    \A k \in 1..NSegs : segs[k].used => /\ segs[k].maps = Cardinality(MapsOf(as, segs[k].id))
                                        /\ segs[k].removed => segs[k].maps > 0

\* Ids are handed out once; a slot that is not used is empty.
SegIds ==
    /\ \A k \in 1..NSegs : IF segs[k].used THEN segs[k].id < nextId ELSE segs[k] = NoSeg
    /\ \A j, k \in 1..NSegs : segs[j].used /\ segs[k].used /\ segs[j].id = segs[k].id => j = k

\* A thread's stack is no shared memory.
StacksOwn == \A s \in Spaces : \A i \in Sharing(as[s]) : ~as[s].vm[i].stack

FInv == Once /\ Backed /\ MapsCounted /\ SegIds /\ StacksOwn

\* Pages and segments are given up, and their frames freed.
Shrinks(O, m, fr, g, P, n, er, h, G) ==
    /\ \A s \in Spaces : \A v \in P[s] : v \in O[s] /\ n[s][v].frame = m[s][v].frame
    /\ \A k \in 1..NSegs : h[k] = g[k] \/ h[k] = {}
    /\ \A f : f \in er <=> \/ f \in fr \/ f \in G
                           \/ \E k \in 1..NSegs : f \in g[k] /\ \A j \in 1..NSegs : f \notin h[j]
    /\ \A s \in Spaces : \A v \in O[s] : v \notin P[s] => m[s][v].frame \in G
    /\ \A f \in G : \E s \in Spaces : \E v \in O[s] : v \notin P[s] /\ f = m[s][v].frame

LEMMA OnceShrinks ==
    ASSUME NEW O, NEW m, NEW fr, NEW g, NEW P, NEW n, NEW er, NEW h, NEW G,
           OnceOf(O, m, fr, g), Shrinks(O, m, fr, g, P, n, er, h, G)
    PROVE  OnceOf(P, n, er, h)
  <1>1. \A s \in Spaces : \A v \in P[s] : v \in O[s] /\ n[s][v].frame = m[s][v].frame
    BY DEF Shrinks
  <1>2. \A k \in 1..NSegs : \A f \in h[k] : f \in g[k]
    BY DEF Shrinks
  <1>3. ASSUME NEW s \in Spaces, NEW v \in P[s]
        PROVE  n[s][v].frame \notin er /\ \A k \in 1..NSegs : n[s][v].frame \notin h[k]
    <2>1. PICK f : f = m[s][v].frame
      OBVIOUS
    <2>2. f \notin fr /\ \A k \in 1..NSegs : f \notin g[k]
      BY <1>1, <1>3, <2>1 DEF OnceOf
    <2>3. f \notin G
      <3> SUFFICES ASSUME f \in G PROVE FALSE
        OBVIOUS
      <3>1. PICK t \in Spaces : \E w \in O[t] : w \notin P[t] /\ f = m[t][w].frame
        BY DEF Shrinks
      <3>2. PICK w \in O[t] : w \notin P[t] /\ f = m[t][w].frame
        BY <3>1
      <3>3. v \in O[s] /\ w \in O[t] /\ m[s][v].frame = m[t][w].frame
        BY <1>1, <1>3, <2>1, <3>2
      <3>4. \A x, y \in Spaces : \A z \in O[x], u \in O[y] : m[x][z].frame = m[y][u].frame => x = y /\ z = u
        BY DEF OnceOf
      <3>5. s = t /\ v = w
        BY <1>3, <3>1, <3>3, <3>4
      <3> QED
        BY <1>3, <3>2, <3>5
    <2>4. f \notin er
      BY <2>2, <2>3 DEF Shrinks
    <2> QED
      BY <1>1, <1>2, <1>3, <2>1, <2>2, <2>4
  <1>4. \A s, t \in Spaces : \A v \in P[s], w \in P[t] : n[s][v].frame = n[t][w].frame => s = t /\ v = w
    BY <1>1 DEF OnceOf
  <1>5. ASSUME NEW k \in 1..NSegs, NEW f \in h[k] PROVE f \notin er
    <2>1. f \in g[k] /\ f \notin fr
      BY <1>2, <1>5 DEF OnceOf
    <2>2. f \notin G
      <3> SUFFICES ASSUME f \in G PROVE FALSE
        OBVIOUS
      <3>1. PICK t \in Spaces : \E w \in O[t] : w \notin P[t] /\ f = m[t][w].frame
        BY DEF Shrinks
      <3> QED
        BY <2>1, <3>1 DEF OnceOf
    <2> QED
      BY <1>5, <2>1, <2>2 DEF Shrinks
  <1>6. \A j, k \in 1..NSegs : \A f \in h[j] : f \in h[k] => j = k
    BY <1>2 DEF OnceOf
  <1>7. ASSUME NEW f
        PROVE  f \in Frames <=> \/ f \in er \/ \E k \in 1..NSegs : f \in h[k]
                                \/ \E s \in Spaces : \E v \in P[s] : f = n[s][v].frame
    <2>1. f \in Frames <=> \/ f \in fr \/ \E k \in 1..NSegs : f \in g[k]
                           \/ \E s \in Spaces : \E v \in O[s] : f = m[s][v].frame
      BY DEF OnceOf
    <2>2. ASSUME f \in er PROVE f \in Frames
      BY <2>1, <2>2 DEF Shrinks
    <2>3. ASSUME NEW k \in 1..NSegs, f \in h[k] PROVE f \in Frames
      BY <1>2, <2>1, <2>3
    <2>4. ASSUME NEW s \in Spaces, NEW v \in P[s], f = n[s][v].frame PROVE f \in Frames
      BY <1>1, <2>1, <2>4
    <2>5. ASSUME f \in fr PROVE f \in er
      BY <2>5 DEF Shrinks
    <2>6. ASSUME NEW k \in 1..NSegs, f \in g[k] PROVE f \in er \/ \E j \in 1..NSegs : f \in h[j]
      BY <2>6 DEF Shrinks
    <2>7. ASSUME NEW s \in Spaces, NEW v \in O[s], f = m[s][v].frame
          PROVE  f \in er \/ \E u \in Spaces : \E w \in P[u] : f = n[u][w].frame
      <3>1. CASE v \in P[s]
        BY <1>1, <2>7, <3>1
      <3>2. CASE v \notin P[s]
        BY <2>7, <3>2 DEF Shrinks
      <3> QED
        BY <3>1, <3>2
    <2> QED
      BY <2>1, <2>2, <2>3, <2>4, <2>5, <2>6, <2>7
  <1> QED
    BY <1>3, <1>4, <1>5, <1>6, <1>7 DEF OnceOf

----------------------------------------------------------------------------
(* Steps that leave shared memory, and the frames behind pages, alone.     *)

LEMMA StillFrames ==
    ASSUME FInv, UNCHANGED <<as, pt, free, segs, nextId>>
    PROVE  FInv'
  <1>1. OwnAll' = OwnAll /\ SegAll' = SegAll
    BY DEF OwnAll, SegAll
  <1>2. Once'
    BY <1>1 DEF FInv, Once
  <1>3. Backed' /\ SegIds' /\ StacksOwn'
    BY DEF FInv, Backed, SegIds, StacksOwn
  <1>4. MapsCounted'
    BY DEF FInv, MapsCounted
  <1> QED
    BY <1>2, <1>3, <1>4 DEF FInv

\* The own pages and their frames, the segments' frames and the free ones are
\* what they were.
LEMMA OnceKept ==
    ASSUME Once, free' = free, SegAll' = SegAll, OwnAll' = OwnAll,
           \A t \in Spaces : \A v \in OwnAll[t] : pt'[t][v].frame = pt[t][v].frame
    PROVE  Once'
  <1>1. PICK O, g, m, n, fr : O = OwnAll /\ g = SegAll /\ m = pt /\ n = pt' /\ fr = free
    OBVIOUS
  <1>2. OnceOf(O, m, fr, g)
    BY <1>1 DEF Once
  <1>3. \A t \in Spaces : \A v \in O[t] : n[t][v].frame = m[t][v].frame
    BY <1>1
  <1>4. Shrinks(O, m, fr, g, O, n, fr, g, {})
    BY <1>3 DEF Shrinks
  <1>5. OnceOf(O, n, fr, g)
    BY <1>2, <1>4, OnceShrinks
  <1> QED
    BY <1>1, <1>5 DEF Once

\* The regions of b that share memory, and what is behind the pages p, are
\* those of a and m.
KeepsShares(a, m, b, p) ==
    /\ Sharing(b) = Sharing(a)
    /\ \A i \in Sharing(a) : /\ b.vm[i].base = a.vm[i].base /\ b.vm[i].len = a.vm[i].len
                             /\ b.vm[i].shm = a.vm[i].shm /\ b.vm[i].stack = a.vm[i].stack
    /\ \A v \in Pages : p[v].frame = m[v].frame /\ (p[v] = Absent <=> m[v] = Absent)

LEMMA MappedSame ==
    ASSUME NEW r, NEW m, NEW q, NEW x, NEW n, MappedBy(r, m, q),
           x.base = r.base /\ x.len = r.len /\ x.shm = r.shm, \A v \in Span(r) : n[v].frame = m[v].frame
    PROVE  MappedBy(x, n, q)
  <1>1. Span(x) = Span(r)
    BY DEF Span
  <1> QED
    BY <1>1 DEF MappedBy

LEMMA SpanIn ==
    ASSUME VInv, NEW t \in Spaces, NEW i \in InUse(as[t])
    PROVE  Span(as[t].vm[i]) \subseteq Pages
  <1>1. Span(as[t].vm[i]) \subseteq (as[t].brk + 1)..(MmapTop - 1)
    BY DEF VInv, AllLaid, Laid
  <1>2. as[t].brk \in Nat
    BY BreakFacts DEF VInv
  <1> QED
    BY <1>1, <1>2, Numbers, Between

LEMMA SameStep ==
    ASSUME VInv, FInv, \A t \in Spaces : KeepsShares(as[t], pt[t], as'[t], pt'[t]), UNCHANGED <<free, segs, nextId>>
    PROVE  FInv'
  <1>2. \A t \in Spaces : KeepsShares(as[t], pt[t], as'[t], pt'[t])
    OBVIOUS
  <1>3. ASSUME NEW t \in Spaces
        PROVE  /\ \A i \in Sharing(as[t]) : Span(as'[t].vm[i]) = Span(as[t].vm[i])
               /\ SharedIn(as'[t]) = SharedIn(as[t]) /\ OwnIn(as'[t], pt'[t]) = OwnIn(as[t], pt[t])
    <2>1. \A i \in Sharing(as[t]) : Span(as'[t].vm[i]) = Span(as[t].vm[i])
      BY <1>2 DEF KeepsShares, Span
    <2>2. SharedIn(as'[t]) = SharedIn(as[t])
      BY <1>2, <2>1 DEF KeepsShares, SharedIn
    <2> QED
      BY <1>2, <2>1, <2>2 DEF KeepsShares, OwnIn
  <1>4. OwnAll' = OwnAll /\ SegAll' = SegAll
    BY <1>3 DEF OwnAll, SegAll
  <1>5. Once'
    <2>1. \A t \in Spaces : \A v \in OwnAll[t] : v \in Pages
      BY DEF OwnAll, OwnIn
    <2>2. \A t \in Spaces : \A v \in OwnAll[t] : pt'[t][v].frame = pt[t][v].frame
      BY <1>2, <2>1 DEF KeepsShares
    <2> QED
      BY <1>4, <2>2, OnceKept DEF FInv
  <1>6. Backed'
    <2> SUFFICES ASSUME NEW t \in Spaces, NEW i \in Sharing(as'[t])
                 PROVE  \E k \in 1..NSegs : MappedBy(as'[t].vm[i], pt'[t], segs[k])
      BY DEF Backed
    <2>1. i \in Sharing(as[t])
      BY <1>2 DEF KeepsShares
    <2>2. PICK k \in 1..NSegs : MappedBy(as[t].vm[i], pt[t], segs[k])
      BY <2>1 DEF FInv, Backed
    <2>3. Span(as[t].vm[i]) \subseteq Pages
      BY <2>1, SpanIn DEF Sharing
    <2>4. MappedBy(as'[t].vm[i], pt'[t], segs[k])
      <3>1. /\ as'[t].vm[i].base = as[t].vm[i].base /\ as'[t].vm[i].len = as[t].vm[i].len
            /\ as'[t].vm[i].shm = as[t].vm[i].shm
        BY <1>2, <2>1 DEF KeepsShares
      <3>2. \A v \in Span(as[t].vm[i]) : pt'[t][v].frame = pt[t][v].frame
        BY <1>2, <2>3 DEF KeepsShares
      <3>3. PICK r, m, q, x, n : r = as[t].vm[i] /\ m = pt[t] /\ q = segs[k] /\ x = as'[t].vm[i] /\ n = pt'[t]
        OBVIOUS
      <3>4. /\ MappedBy(r, m, q) /\ x.base = r.base /\ x.len = r.len /\ x.shm = r.shm
            /\ \A v \in Span(r) : n[v].frame = m[v].frame
        BY <2>2, <3>1, <3>2, <3>3
      <3>5. MappedBy(x, n, q)
        BY <3>4, MappedSame
      <3> QED
        BY <3>3, <3>5
    <2> QED
      BY <2>4
  <1>7. MapsCounted'
    <2>1. ASSUME NEW id PROVE MapsOf(as', id) = MapsOf(as, id)
      <3>1. ASSUME NEW x \in Spaces \X Regions PROVE x \in MapsOf(as', id) <=> x \in MapsOf(as, id)
        <4>1. x[1] \in Spaces
          OBVIOUS
        <4>2. KeepsShares(as[x[1]], pt[x[1]], as'[x[1]], pt'[x[1]])
          BY <1>2, <4>1
        <4> QED
          BY <4>2 DEF MapsOf, KeepsShares
      <3> QED
        BY <3>1 DEF MapsOf
    <2> QED
      BY <2>1 DEF FInv, MapsCounted
  <1>8. SegIds' /\ StacksOwn'
    <2>1. SegIds'
      BY DEF FInv, SegIds
    <2>2. ASSUME NEW t \in Spaces, NEW i \in Sharing(as'[t]) PROVE ~as'[t].vm[i].stack
      <3>1. i \in Sharing(as[t]) /\ as'[t].vm[i].stack = as[t].vm[i].stack
        BY <1>2 DEF KeepsShares
      <3> QED
        BY <3>1 DEF FInv, StacksOwn
    <2> QED
      BY <2>1, <2>2 DEF StacksOwn
  <1> QED
    BY <1>5, <1>6, <1>7, <1>8 DEF FInv

\* The regions are the same.
LEMMA SameVmStep ==
    ASSUME VInv, FInv, \A t \in Spaces : as'[t].vm = as[t].vm, UNCHANGED <<pt, free, segs, nextId>>
    PROVE  FInv'
  <1>1. ASSUME NEW t \in Spaces PROVE KeepsShares(as[t], pt[t], as'[t], pt'[t])
    BY DEF KeepsShares, Sharing, InUse
  <1> QED
    BY <1>1, SameStep

\* A region more, that shares nothing.
LEMMA MappedFrames ==
    ASSUME VInv, FInv, NEW c \in Cores, NEW n \in Nat, NEW prot \in SUBSET Rights,
           NEW stack \in BOOLEAN, NEW x \in {0, 1}, Mapped(c, n, prot, stack, x)
    PROVE  FInv'
  <1>1. PICK s, k, r : /\ s = run[c] /\ k = Min(Regions \ Used(s))
                       /\ r = [base |-> Place(s, n), len |-> n, prot |-> prot, shm |-> 0, stack |-> stack]
    OBVIOUS
  <1>2. s \in Spaces /\ as \in [Spaces -> AsType] /\ as[s].vm \in [Regions -> Region] /\ Used(s) = InUse(as[s])
    BY <1>1, OwnSpace, SpaceFacts DEF Mapped, VInv, SpaceTypes
  <1>3. k \in Regions /\ k \notin InUse(as[s])
    BY <1>1, <1>2, ReserveFacts DEF Mapped, VInv
  <1>4. Reserved(s, n, prot, 0, stack) = [as EXCEPT ![s].vm[k] = r]
    BY <1>1 DEF Reserved
  <1>5. (\A t \in Spaces : t # s => as'[t] = as[t]) /\ as'[s].vm = [as[s].vm EXCEPT ![k] = r]
    <2>1. PICK A : A = [as EXCEPT ![s].vm[k] = r]
      OBVIOUS
    <2>2. /\ \A t \in Spaces : t # s => A[t] = as[t]
          /\ A[s].vm = [as[s].vm EXCEPT ![k] = r] /\ DOMAIN A = Spaces /\ A[s] = [as[s] EXCEPT !.vm[k] = r]
      BY <1>2, <2>1 DEF AsType
    <2>3. CASE x = 0
      BY <1>1, <1>4, <2>1, <2>2, <2>3 DEF Mapped
    <2>4. CASE x = 1
      <3>1. as' = [A EXCEPT ![s].refs = @ + 1]
        BY <1>1, <1>4, <2>1, <2>4 DEF Mapped
      <3>2. \A t \in Spaces : t # s => as'[t] = A[t]
        BY <2>2, <3>1
      <3>3. as'[s] = [A[s] EXCEPT !.refs = @ + 1]
        BY <1>2, <2>2, <3>1
      <3>4. as'[s].vm = A[s].vm
        BY <1>2, <2>2, <3>3 DEF AsType
      <3> QED
        BY <2>2, <3>2, <3>4
    <2> QED
      BY <2>3, <2>4
  <1>6. \A i \in Regions : as'[s].vm[i] = IF i = k THEN r ELSE as[s].vm[i]
    BY <1>2, <1>5
  <1>7. Sharing(as'[s]) = Sharing(as[s]) /\ \A i \in Sharing(as[s]) : as'[s].vm[i] = as[s].vm[i]
    <2>1. r.shm = 0
      BY <1>1
    <2> QED
      BY <1>3, <1>6, <2>1 DEF Sharing, InUse
  <1>8. UNCHANGED <<pt, free, segs, nextId>>
    BY DEF Mapped
  <1>9. ASSUME NEW t \in Spaces PROVE KeepsShares(as[t], pt[t], as'[t], pt'[t])
    <2>1. CASE t = s
      BY <1>7, <1>8, <2>1 DEF KeepsShares
    <2>2. CASE t # s
      BY <1>5, <1>8, <2>2 DEF KeepsShares
    <2> QED
      BY <2>1, <2>2
  <1> QED
    BY <1>8, <1>9, SameStep

LEMMA MmapFrames ==
    ASSUME VInv, FInv, NEW c \in Cores, NEW n \in Nat, NEW prot \in SUBSET Rights, Mmap(c, n, prot)
    PROVE  FInv'
  <1>1. Mapped(c, n, prot, FALSE, 0)
    BY DEF Mapped, Mmap, InCall
  <1> QED
    BY <1>1, MappedFrames

LEMMA ThreadCreateFrames ==
    ASSUME VInv, FInv, NEW c \in Cores, NEW n \in Nat, ThreadCreate(c, n)
    PROVE  FInv'
  <1>1. Mapped(c, n, {"w"}, TRUE, 1)
    BY DEF Mapped, ThreadCreate, InCall
  <1>2. {"w"} \in SUBSET Rights
    BY DEF Rights
  <1> QED
    BY <1>1, <1>2, MappedFrames

\* sbrk, both ways.
LEMMA BreakFrames ==
    ASSUME VInv, FInv, NEW c \in Cores, NEW n, Grow(c, n) \/ Shrink(c, n)
    PROVE  FInv'
  <1>1. PICK k : as' = [as EXCEPT ![run[c]].brk = k]
    BY DEF Grow, Shrink
  <1>2. as \in [Spaces -> AsType]
    BY DEF VInv, SpaceTypes
  <1>3. ASSUME NEW t \in Spaces PROVE as'[t].vm = as[t].vm
    BY <1>1, <1>2 DEF AsType
  <1> QED
    BY <1>3, SameVmStep DEF Grow, Shrink

LEMMA SpaceNewFrames ==
    ASSUME VInv, FInv, NEW s \in Spaces, SpaceNew(s)
    PROVE  FInv'
  <1>1. as[s] = NoAs /\ as \in [Spaces -> AsType] /\ as' = [as EXCEPT ![s] = [NoAs EXCEPT !.refs = 1]]
    BY DEF SpaceNew, VInv, Unheld, SpaceTypes
  <1>2. [NoAs EXCEPT !.refs = 1].vm = NoAs.vm
    BY DEF NoAs
  <1>3. ASSUME NEW t \in Spaces PROVE as'[t].vm = as[t].vm
    BY <1>1, <1>2
  <1> QED
    BY <1>3, SameVmStep DEF SpaceNew

\* A page of shared memory has the frame of the segment.
LEMMA SharedFrame ==
    ASSUME NEW r \in Region, NEW m, NEW q \in SegType, MappedBy(r, m, q), NEW v \in Span(r)
    PROVE  m[v].frame \in FramesOf(q) /\ m[v].frame \in Frames
  <1>1. r.base \in Nat /\ r.len = Len(q.frames) /\ q.frames \in Seq(Frames) /\ m[v].frame = q.frames[v - r.base + 1]
    BY RegionFacts DEF MappedBy, SegType
  <1>2. v \in r.base..(r.base + Len(q.frames) - 1)
    BY <1>1 DEF Span
  <1>3. v - r.base + 1 \in 1..Len(q.frames) /\ DOMAIN q.frames = 1..Len(q.frames)
    BY <1>1, <1>2
  <1>4. q.frames[v - r.base + 1] \in Frames
    BY <1>1, <1>3
  <1> QED
    BY <1>1, <1>3, <1>4 DEF FramesOf

LEMMA Present ==
    ASSUME VInv, FInv, NEW s \in Spaces, NEW v \in Pages, pt[s][v] # Absent
    PROVE  pt[s][v].frame \in Frames
  <1>1. CASE v \in SharedIn(as[s])
    <2>1. PICK i \in Sharing(as[s]) : v \in Span(as[s].vm[i])
      BY <1>1 DEF SharedIn
    <2>2. PICK k \in 1..NSegs : MappedBy(as[s].vm[i], pt[s], segs[k])
      BY <2>1 DEF FInv, Backed
    <2>3. as[s].vm[i] \in Region /\ segs[k] \in SegType
      BY SpaceFacts DEF VInv, MemTypes, Sharing, InUse
    <2> QED
      BY <2>1, <2>2, <2>3, SharedFrame
  <1>2. CASE v \notin SharedIn(as[s])
    <2>1. v \in OwnAll[s]
      BY <1>2 DEF OwnAll, OwnIn
    <2> QED
      BY <2>1 DEF FInv, Once, OnceOf
  <1> QED
    BY <1>1, <1>2

LEMMA MprotectFrames ==
    ASSUME VInv, FInv, NEW c \in Cores, NEW i, NEW prot \in SUBSET Rights, Mprotect(c, i, prot)
    PROVE  FInv'
  <1>1. PICK s : s = run[c]
    OBVIOUS
  <1>2. /\ s \in Spaces /\ as \in [Spaces -> AsType] /\ pt \in [Spaces -> [Pages -> Entry]]
        /\ as[s].vm \in [Regions -> Region] /\ i \in Regions
    BY <1>1, OwnSpace, SpaceFacts DEF Mprotect, InCall, VInv, SpaceTypes, Used
  <1>3. /\ as' = [as EXCEPT ![s].vm[i].prot = prot]
        /\ pt' = [pt EXCEPT ![s] = [v \in Pages |->
                  IF v \in Span(as[s].vm[i]) /\ @[v] # Absent THEN [@[v] EXCEPT !.prot = prot] ELSE @[v]]]
        /\ UNCHANGED <<free, segs, nextId>>
    BY <1>1 DEF Mprotect, FlagsOf
  <1>4. \A t \in Spaces : t # s => as'[t] = as[t] /\ pt'[t] = pt[t]
    BY <1>2, <1>3
  <1>5. as'[s].vm = [as[s].vm EXCEPT ![i] = [as[s].vm[i] EXCEPT !.prot = prot]]
    BY <1>2, <1>3 DEF AsType
  <1>6. \A j \in Regions : /\ as'[s].vm[j].base = as[s].vm[j].base /\ as'[s].vm[j].len = as[s].vm[j].len
                           /\ as'[s].vm[j].shm = as[s].vm[j].shm /\ as'[s].vm[j].stack = as[s].vm[j].stack
    <2>1. as[s].vm[i] \in Region
      BY <1>2
    <2>2. PICK r : r = [as[s].vm[i] EXCEPT !.prot = prot]
      OBVIOUS
    <2>3. /\ r.base = as[s].vm[i].base /\ r.len = as[s].vm[i].len
          /\ r.shm = as[s].vm[i].shm /\ r.stack = as[s].vm[i].stack
      BY <2>1, <2>2 DEF Region
    <2>4. \A j \in Regions : as'[s].vm[j] = IF j = i THEN r ELSE as[s].vm[j]
      BY <1>2, <1>5, <2>2
    <2> QED
      BY <2>3, <2>4
  <1>7. Sharing(as'[s]) = Sharing(as[s])
    BY <1>6 DEF Sharing, InUse
  <1>8. ASSUME NEW v \in Pages PROVE pt'[s][v].frame = pt[s][v].frame /\ (pt'[s][v] = Absent <=> pt[s][v] = Absent)
    <2>1. PICK e : e = pt[s][v]
      OBVIOUS
    <2>2. e \in Entry
      BY <1>2, <2>1
    <2>3. pt'[s][v] = IF v \in Span(as[s].vm[i]) /\ e # Absent THEN [e EXCEPT !.prot = prot] ELSE e
      BY <1>2, <1>3, <2>1
    <2>4. e # Absent => [e EXCEPT !.prot = prot].frame = e.frame
      BY <2>2 DEF Entry
    <2>5. e # Absent => e.frame # 0
      BY <1>2, <2>1, Present, Numbers
    <2>6. Absent.frame = 0
      BY DEF Absent
    <2>7. CASE v \in Span(as[s].vm[i]) /\ e # Absent
      BY <2>1, <2>3, <2>4, <2>5, <2>6, <2>7
    <2>8. CASE ~(v \in Span(as[s].vm[i]) /\ e # Absent)
      BY <2>1, <2>3, <2>8
    <2> QED
      BY <2>7, <2>8
  <1>9. ASSUME NEW t \in Spaces PROVE KeepsShares(as[t], pt[t], as'[t], pt'[t])
    <2>1. CASE t = s
      <3>1. \A j \in Sharing(as[s]) : j \in Regions
        BY DEF Sharing, InUse
      <3> QED
        BY <1>6, <1>7, <1>8, <2>1, <3>1 DEF KeepsShares
    <2>2. CASE t # s
      BY <1>4, <2>2 DEF KeepsShares
    <2> QED
      BY <2>1, <2>2
  <1> QED
    BY <1>3, <1>9, SameStep

----------------------------------------------------------------------------
(* A page is built.                                                        *)

\* Page v of s gets the free frame f.
Adds(O, m, fr, s, v, f, P, n, er) ==
    /\ s \in Spaces /\ f \in fr /\ v \notin O[s] /\ n[s][v].frame = f
    /\ \A t \in Spaces : \A w : w \in P[t] <=> w \in O[t] \/ (t = s /\ w = v)
    /\ \A t \in Spaces : \A w \in O[t] : n[t][w].frame = m[t][w].frame
    /\ \A x : x \in er <=> x \in fr /\ x # f

LEMMA OnceAdds ==
    ASSUME NEW O, NEW m, NEW fr, NEW g, NEW s, NEW v, NEW f, NEW P, NEW n, NEW er,
           OnceOf(O, m, fr, g), Adds(O, m, fr, s, v, f, P, n, er)
    PROVE  OnceOf(P, n, er, g)
  <1>0. s \in Spaces /\ f \in fr /\ v \notin O[s] /\ n[s][v].frame = f /\ v \in P[s]
    BY DEF Adds
  <1>1. ASSUME NEW t \in Spaces, NEW w \in P[t]
        PROVE  \/ w \in O[t] /\ n[t][w].frame = m[t][w].frame /\ n[t][w].frame \notin fr
                  /\ \A k \in 1..NSegs : n[t][w].frame \notin g[k]
               \/ t = s /\ w = v /\ n[t][w].frame = f
    <2>1. CASE w \in O[t]
      <3>1. n[t][w].frame = m[t][w].frame
        BY <2>1 DEF Adds
      <3>2. m[t][w].frame \notin fr /\ \A k \in 1..NSegs : m[t][w].frame \notin g[k]
        BY <2>1 DEF OnceOf
      <3> QED
        BY <2>1, <3>1, <3>2
    <2>2. CASE t = s /\ w = v
      BY <1>0, <2>2
    <2> QED
      BY <2>1, <2>2 DEF Adds
  <1>2. \A k \in 1..NSegs : f \notin g[k]
    BY <1>0 DEF OnceOf
  <1>3. \A x : x \in er <=> x \in fr /\ x # f
    BY DEF Adds
  <1>4. \A t \in Spaces : \A w \in P[t] : n[t][w].frame \notin er /\ \A k \in 1..NSegs : n[t][w].frame \notin g[k]
    BY <1>1, <1>2, <1>3
  <1>5. ASSUME NEW t \in Spaces, NEW u \in Spaces, NEW w \in P[t], NEW x \in P[u], n[t][w].frame = n[u][x].frame
        PROVE  t = u /\ w = x
    <2>1. CASE w \in O[t] /\ x \in O[u] /\ n[t][w].frame = m[t][w].frame /\ n[u][x].frame = m[u][x].frame
      <3>1. m[t][w].frame = m[u][x].frame
        BY <1>5, <2>1
      <3>2. \A y, z \in Spaces : \A a \in O[y], b \in O[z] : m[y][a].frame = m[z][b].frame => y = z /\ a = b
        BY DEF OnceOf
      <3> QED
        BY <2>1, <3>1, <3>2
    <2>2. CASE (t = s /\ w = v /\ n[t][w].frame = f) \/ (u = s /\ x = v /\ n[u][x].frame = f)
      <3>1. n[t][w].frame \in fr /\ n[u][x].frame \in fr
        BY <1>0, <1>5, <2>2
      <3>2. t = s /\ w = v /\ u = s /\ x = v
        BY <1>1, <1>5, <3>1
      <3> QED
        BY <3>2
    <2> QED
      BY <1>1, <1>5, <2>1, <2>2
  <1>6. \A k \in 1..NSegs : \A x \in g[k] : x \notin er
    BY <1>3 DEF OnceOf
  <1>7. \A j, k \in 1..NSegs : \A x \in g[j] : x \in g[k] => j = k
    BY DEF OnceOf
  <1>8. ASSUME NEW x
        PROVE  x \in Frames <=> \/ x \in er \/ \E k \in 1..NSegs : x \in g[k]
                                \/ \E t \in Spaces : \E w \in P[t] : x = n[t][w].frame
    <2>1. x \in Frames <=> \/ x \in fr \/ \E k \in 1..NSegs : x \in g[k]
                           \/ \E t \in Spaces : \E w \in O[t] : x = m[t][w].frame
      BY DEF OnceOf
    <2>2. ASSUME NEW t \in Spaces, NEW w \in O[t], x = m[t][w].frame
          PROVE  \E y \in Spaces : \E z \in P[y] : x = n[y][z].frame
      BY <2>2 DEF Adds
    <2>3. ASSUME NEW t \in Spaces, NEW w \in P[t], x = n[t][w].frame PROVE x \in Frames
      <3>1. CASE w \in O[t] /\ n[t][w].frame = m[t][w].frame
        BY <2>1, <2>3, <3>1
      <3>2. CASE n[t][w].frame = f
        BY <1>0, <2>1, <2>3, <3>2
      <3> QED
        BY <1>1, <2>3, <3>1, <3>2
    <2>4. x \in fr => x \in er \/ \E t \in Spaces : \E w \in P[t] : x = n[t][w].frame
      BY <1>0, <1>3
    <2>5. x \in er => x \in fr
      BY <1>3
    <2> QED
      BY <2>1, <2>2, <2>3, <2>4, <2>5
  <1> QED
    BY <1>4, <1>5, <1>6, <1>7, <1>8 DEF OnceOf

\* Only pages that share nothing are built.
LEMMA BuildsOwn ==
    ASSUME NEW s \in Spaces, SpaceTypes, Laid(as[s], pt[s]), NEW v \in Pages, NEW kind, NEW prot \in BuildsAs(s, v, kind)
    PROVE  v \notin SharedIn(as[s])
  <1> SUFFICES ASSUME NEW i \in Sharing(as[s]), v \in Span(as[s].vm[i]) PROVE FALSE
    BY DEF SharedIn
  <1>0. i \in InUse(as[s]) /\ as[s].vm[i].shm # 0
    BY DEF Sharing
  <1>1. Used(s) = InUse(as[s])
    BY SpaceFacts
  <1>2. as[s].brk \in Nat /\ v \in Nat /\ MmapTop \in Nat
    BY BreakFacts, Numbers
  <1>3. ~(v < as[s].brk)
    <2>1. v \in (as[s].brk + 1)..(MmapTop - 1)
      BY <1>0 DEF Laid
    <2>2. \A b, x, t \in Nat : x \in (b + 1)..(t - 1) => ~(x < b)
      OBVIOUS
    <2> QED
      BY <1>2, <2>1, <2>2, Zenon
  <1>4. PICK j \in RegionAt(s, v) : as[s].vm[j].shm = 0
    BY <1>3 DEF BuildsAs
  <1>5. j \in InUse(as[s]) /\ v \in Span(as[s].vm[j])
    BY <1>1, <1>4 DEF RegionAt
  <1>6. i # j => Span(as[s].vm[i]) \cap Span(as[s].vm[j]) = {}
    BY <1>0, <1>5 DEF Laid
  <1> QED
    BY <1>0, <1>4, <1>5, <1>6

LEMMA BuildFrames ==
    ASSUME VInv, FInv, NEW s \in Spaces, NEW v \in Pages, NEW kind, Build(s, v, kind), UNCHANGED <<as, segs, nextId>>
    PROVE  FInv'
  <1>1. PICK prot \in BuildsAs(s, v, kind) :
           \/ pt[s][v] # Absent /\ UNCHANGED <<pt, free>>
           \/ /\ pt[s][v] = Absent /\ free # {}
              /\ pt' = [pt EXCEPT ![s][v] = [frame |-> AllocFrame, prot |-> prot]]
              /\ free' = free \ {AllocFrame}
    BY DEF Build, FlagsOf
  <1>2. CASE UNCHANGED <<pt, free>>
    BY <1>2, StillFrames
  <1>3. CASE /\ pt[s][v] = Absent /\ free # {}
             /\ pt' = [pt EXCEPT ![s][v] = [frame |-> AllocFrame, prot |-> prot]]
             /\ free' = free \ {AllocFrame}
    <2>1. PICK f : f = AllocFrame
      OBVIOUS
    <2>2. f \in free /\ free \subseteq Frames /\ f # 0
      BY <1>3, <2>1, Numbers, MinFacts DEF AllocFrame, VInv, MemTypes
    <2>3. v \notin SharedIn(as[s])
      BY BuildsOwn DEF VInv, AllLaid
    <2>4. /\ pt \in [Spaces -> [Pages -> Entry]] /\ pt'[s][v] = [frame |-> f, prot |-> prot]
          /\ \A t \in Spaces, w \in Pages : ~(t = s /\ w = v) => pt'[t][w] = pt[t][w]
      BY <1>3, <2>1 DEF VInv, SpaceTypes
    <2>5. pt'[s][v].frame = f /\ pt'[s][v] # Absent
      BY <2>2, <2>4 DEF Absent
    <2>6. PICK O, P, m, n, fr, er, g : /\ O = OwnAll /\ P = OwnAll' /\ m = pt /\ n = pt'
                                       /\ fr = free /\ er = free' /\ g = SegAll
      OBVIOUS
    <2>7. ASSUME NEW t \in Spaces, NEW w PROVE w \in P[t] <=> w \in O[t] \/ (t = s /\ w = v)
      <3>1. O[t] = OwnIn(as[t], pt[t]) /\ P[t] = OwnIn(as[t], pt'[t])
        BY <2>6 DEF OwnAll
      <3>2. CASE t = s /\ w = v
        BY <2>3, <2>5, <3>1, <3>2 DEF OwnIn
      <3>3. CASE ~(t = s /\ w = v)
        BY <2>4, <3>1, <3>3 DEF OwnIn
      <3> QED
        BY <3>2, <3>3
    <2>8. v \notin O[s] /\ \A t \in Spaces : \A w \in O[t] : n[t][w].frame = m[t][w].frame
      <3>1. v \notin O[s]
        BY <1>3, <2>6 DEF OwnAll, OwnIn
      <3>2. \A t \in Spaces : \A w \in O[t] : w \in Pages
        BY <2>6 DEF OwnAll, OwnIn
      <3> QED
        BY <2>4, <2>6, <3>1, <3>2
    <2>9. Adds(O, m, fr, s, v, f, P, n, er)
      BY <1>3, <2>1, <2>2, <2>5, <2>6, <2>7, <2>8 DEF Adds
    <2>10. OnceOf(O, m, fr, g)
      BY <2>6 DEF FInv, Once
    <2>11. OnceOf(P, n, er, g)
      BY <2>9, <2>10, OnceAdds
    <2>12. Once'
      <3>1. SegAll' = SegAll
        BY DEF SegAll
      <3> QED
        BY <2>6, <2>11, <3>1 DEF Once
    <2>13. Backed'
      <3> SUFFICES ASSUME NEW t \in Spaces, NEW i \in Sharing(as[t])
                   PROVE  \E k \in 1..NSegs : MappedBy(as[t].vm[i], pt'[t], segs[k])
        BY DEF Backed
      <3>1. PICK k \in 1..NSegs : MappedBy(as[t].vm[i], pt[t], segs[k])
        BY DEF FInv, Backed
      <3>2. Span(as[t].vm[i]) \subseteq Pages
        BY SpanIn DEF Sharing
      <3>3. \A w \in Span(as[t].vm[i]) : pt'[t][w] = pt[t][w]
        BY <2>3, <2>4, <3>2 DEF SharedIn
      <3>4. MappedBy(as[t].vm[i], pt'[t], segs[k])
        BY <3>1, <3>3 DEF MappedBy
      <3> QED
        BY <3>4
    <2>14. MapsCounted' /\ SegIds' /\ StacksOwn'
      BY DEF FInv, MapsCounted, SegIds, StacksOwn
    <2> QED
      BY <2>12, <2>13, <2>14 DEF FInv
  <1> QED
    BY <1>1, <1>2, <1>3

----------------------------------------------------------------------------
(* Segments are made and removed.                                          *)

LEMMA LowestFree ==
    ASSUME MemTypes, NEW n \in Nat, Cardinality(free) >= n, NEW i \in 1..n
    PROVE  Lowest(n)[i] \in free
  <1>1. free \in SUBSET Nat /\ IsFiniteSet(free) /\ Cardinality(free) \in Nat
    <2>1. 1 \in Int /\ NFrames \in Int /\ Frames = 1..NFrames /\ Frames \subseteq Nat
      BY Numbers
    <2>2. IsFiniteSet(Frames)
      BY <2>1, FS_Interval
    <2>3. free \subseteq Frames
      BY DEF MemTypes
    <2> QED
      BY <2>1, <2>2, <2>3, FS_Subset, FS_CardinalityType
  <1>2. i - 1 \in Nat /\ i - 1 < Cardinality(free)
    BY <1>1
  <1>3. \E f \in free : Cardinality({g \in free : g < f}) = i - 1
    BY <1>1, <1>2, RankExists
  <1> QED
    BY <1>3 DEF Lowest

\* Segment k gets the free frames F.
Makes(g, fr, k, F, er, h) ==
    /\ k \in 1..NSegs /\ g[k] = {} /\ F \subseteq fr
    /\ \A x : x \in er <=> x \in fr /\ x \notin F
    /\ \A j \in 1..NSegs : h[j] = IF j = k THEN F ELSE g[j]

LEMMA OnceMakes ==
    ASSUME NEW O, NEW m, NEW fr, NEW g, NEW k, NEW F, NEW er, NEW h,
           OnceOf(O, m, fr, g), Makes(g, fr, k, F, er, h)
    PROVE  OnceOf(O, m, er, h)
  <1>1. /\ \A s \in Spaces : \A v \in O[s] :
               m[s][v].frame \notin fr /\ \A j \in 1..NSegs : m[s][v].frame \notin g[j]
        /\ \A s, t \in Spaces : \A v \in O[s], w \in O[t] : m[s][v].frame = m[t][w].frame => s = t /\ v = w
        /\ \A j \in 1..NSegs : \A f \in g[j] : f \notin fr
        /\ \A i, j \in 1..NSegs : \A f \in g[i] : f \in g[j] => i = j
        /\ \A f : f \in Frames <=> \/ f \in fr \/ \E j \in 1..NSegs : f \in g[j]
                                   \/ \E s \in Spaces : \E v \in O[s] : f = m[s][v].frame
    BY DEF OnceOf
  <1>2. /\ k \in 1..NSegs /\ g[k] = {} /\ F \subseteq fr
        /\ \A x : x \in er <=> x \in fr /\ x \notin F
        /\ \A j \in 1..NSegs : h[j] = IF j = k THEN F ELSE g[j]
    BY DEF Makes
  <1>3. ASSUME NEW f PROVE (f \in er \/ \E j \in 1..NSegs : f \in h[j]) <=> (f \in fr \/ \E j \in 1..NSegs : f \in g[j])
    BY <1>2
  <1>4. \A s \in Spaces : \A v \in O[s] :
               m[s][v].frame \notin er /\ \A j \in 1..NSegs : m[s][v].frame \notin h[j]
    BY <1>1, <1>2
  <1>5. \A j \in 1..NSegs : \A f \in h[j] : f \notin er
    BY <1>1, <1>2
  <1>6. \A i, j \in 1..NSegs : \A f \in h[i] : f \in h[j] => i = j
    BY <1>1, <1>2
  <1>7. \A f : f \in Frames <=> \/ f \in er \/ \E j \in 1..NSegs : f \in h[j]
                                \/ \E s \in Spaces : \E v \in O[s] : f = m[s][v].frame
    BY <1>1, <1>3
  <1> QED
    BY <1>1, <1>4, <1>5, <1>6, <1>7 DEF OnceOf

\* The regions that map a segment are a finite set.
LEMMA MapsFinite ==
    ASSUME NEW A, NEW id
    PROVE  IsFiniteSet(MapsOf(A, id)) /\ Cardinality(MapsOf(A, id)) \in Nat
  <1>1. IsFiniteSet(Regions)
    BY Numbers, FS_Interval
  <1>2. IsFiniteSet(Spaces \X Regions)
    BY <1>1, Numbers, FS_Product
  <1>3. MapsOf(A, id) \subseteq Spaces \X Regions
    BY DEF MapsOf
  <1> QED
    BY <1>2, <1>3, FS_Subset, FS_CardinalityType

\* A segment that is mapped counts at least one.
LEMMA MappedCounts ==
    ASSUME NEW A, NEW id, NEW s \in Spaces, NEW i \in Sharing(A[s]), A[s].vm[i].shm = id + 1
    PROVE  Cardinality(MapsOf(A, id)) > 0
  <1>1. i \in Regions
    BY DEF Sharing, InUse
  <1>2. <<s, i>> \in MapsOf(A, id)
    BY <1>1 DEF MapsOf
  <1>3. Cardinality(MapsOf(A, id)) # 0
    BY <1>2, MapsFinite, FS_EmptySet
  <1> QED
    BY <1>3, MapsFinite

LEMMA ShmGetFrames ==
    ASSUME VInv, FInv, NEW key, NEW n \in Nat, ShmGet(key, n)
    PROVE  FInv'
  <1>1. PICK k, fs, q : /\ k = Min({j \in 1..NSegs : ~segs[j].used}) /\ fs = Lowest(n)
                        /\ q = [used |-> TRUE, id |-> nextId, key |-> key, removed |-> FALSE, frames |-> fs, maps |-> 0]
    OBVIOUS
  <1>2. /\ segs' = [segs EXCEPT ![k] = q] /\ free' = free \ {fs[i] : i \in 1..n} /\ nextId' = nextId + 1
        /\ UNCHANGED <<as, pt>> /\ Cardinality(free) >= n /\ \E j \in 1..NSegs : ~segs[j].used
    BY <1>1 DEF ShmGet
  <1>3. k \in 1..NSegs /\ ~segs[k].used /\ segs[k] = NoSeg
    <2>1. {j \in 1..NSegs : ~segs[j].used} \in SUBSET Nat /\ {j \in 1..NSegs : ~segs[j].used} # {}
      BY <1>2, Numbers
    <2>2. k \in {j \in 1..NSegs : ~segs[j].used}
      BY <1>1, <2>1, MinFacts
    <2> QED
      BY <2>2 DEF FInv, SegIds
  <1>4. MemTypes /\ segs \in [1..NSegs -> SegType] /\ nextId \in Nat
    BY Numbers DEF VInv, MemTypes
  <1>5. \A j \in 1..NSegs : segs'[j] = IF j = k THEN q ELSE segs[j]
    BY <1>2, <1>3, <1>4
  <1>6. FramesOf(q) = {fs[i] : i \in 1..n} /\ FramesOf(q) \subseteq free
    <2>1. DOMAIN fs = 1..n /\ q.frames = fs
      BY <1>1 DEF Lowest
    <2>2. \A i \in 1..n : fs[i] \in free
      BY <1>1, <1>2, <1>4, LowestFree
    <2> QED
      BY <2>1, <2>2 DEF FramesOf
  <1>7. Once'
    <2>1. PICK O, m, fr, er, g, h, F : /\ O = OwnAll /\ m = pt /\ fr = free /\ er = free'
                                       /\ g = SegAll /\ h = SegAll' /\ F = FramesOf(q)
      OBVIOUS
    <2>2. Makes(g, fr, k, F, er, h)
      <3>1. g[k] = {}
        BY <1>3, <2>1 DEF SegAll, FramesOf, NoSeg
      <3>2. \A j \in 1..NSegs : h[j] = IF j = k THEN F ELSE g[j]
        BY <1>5, <2>1 DEF SegAll
      <3> QED
        BY <1>2, <1>3, <1>6, <2>1, <3>1, <3>2 DEF Makes
    <2>3. OnceOf(O, m, fr, g)
      BY <2>1 DEF FInv, Once
    <2>4. OnceOf(O, m, er, h)
      BY <2>2, <2>3, OnceMakes
    <2>5. OwnAll' = OwnAll
      BY <1>2 DEF OwnAll
    <2> QED
      BY <1>2, <2>1, <2>4, <2>5 DEF Once
  <1>8. Backed'
    <2> SUFFICES ASSUME NEW s \in Spaces, NEW i \in Sharing(as[s])
                 PROVE  \E j \in 1..NSegs : MappedBy(as[s].vm[i], pt[s], segs'[j])
      BY <1>2 DEF Backed
    <2>1. PICK j \in 1..NSegs : MappedBy(as[s].vm[i], pt[s], segs[j])
      BY DEF FInv, Backed
    <2>2. segs'[j] = segs[j]
      BY <1>3, <1>5, <2>1 DEF MappedBy
    <2> QED
      BY <2>1, <2>2
  <1>9. q.used /\ q.id = nextId /\ ~q.removed /\ q.maps = 0
    BY <1>1
  <1>10. MapsCounted'
    <2>1. MapsOf(as, nextId) = {}
      <3> SUFFICES ASSUME NEW x \in MapsOf(as, nextId) PROVE FALSE
        OBVIOUS
      <3>1. PICK s, i : s = x[1] /\ i = x[2] /\ s \in Spaces /\ i \in Sharing(as[s]) /\ as[s].vm[i].shm = nextId + 1
        BY DEF MapsOf
      <3>2. PICK j \in 1..NSegs : MappedBy(as[s].vm[i], pt[s], segs[j])
        BY <3>1 DEF FInv, Backed
      <3>3. segs[j].used /\ segs[j].id = nextId
        <4>1. segs[j].used /\ segs[j].id = as[s].vm[i].shm - 1
          BY <3>2, Zenon DEF MappedBy
        <4>2. PICK y : y = as[s].vm[i].shm
          OBVIOUS
        <4>3. y = nextId + 1 /\ segs[j].id = y - 1
          BY <3>1, <4>1, <4>2, Zenon
        <4>4. segs[j].id = nextId
          BY <1>4, <4>3
        <4> QED
          BY <4>1, <4>4
      <3>4. segs[j].id < nextId
        BY <3>3 DEF FInv, SegIds
      <3> QED
        BY <1>4, <3>3, <3>4
    <2>2. Cardinality(MapsOf(as, nextId)) = 0
      BY <2>1, FS_EmptySet
    <2>3. ASSUME NEW j \in 1..NSegs, segs'[j].used
          PROVE  /\ segs'[j].maps = Cardinality(MapsOf(as, segs'[j].id))
                 /\ segs'[j].removed => segs'[j].maps > 0
      <3>1. CASE j = k
        BY <1>5, <1>9, <2>2, <3>1
      <3>2. CASE j # k
        BY <1>5, <2>3, <3>2 DEF FInv, MapsCounted
      <3> QED
        BY <3>1, <3>2
    <2> QED
      BY <1>2, <2>3 DEF MapsCounted
  <1>11. SegIds'
    <2>1. \A y, z \in Nat : y < z => y < z + 1 /\ y # z
      OBVIOUS
    <2>2. \A j \in 1..NSegs : segs[j].used => segs[j].id < nextId /\ segs[j].id \in Nat
      BY <1>4, Numbers DEF FInv, SegIds, SegType
    <2>3. \A j \in 1..NSegs : IF segs'[j].used THEN segs'[j].id < nextId' ELSE segs'[j] = NoSeg
      <3> SUFFICES ASSUME NEW j \in 1..NSegs PROVE IF segs'[j].used THEN segs'[j].id < nextId' ELSE segs'[j] = NoSeg
        OBVIOUS
      <3>1. CASE j = k
        BY <1>2, <1>4, <1>5, <1>9, <3>1
      <3>2. CASE j # k
        <4>1. segs'[j] = segs[j]
          BY <1>5, <3>2
        <4>2. IF segs[j].used THEN segs[j].id < nextId ELSE segs[j] = NoSeg
          BY DEF FInv, SegIds
        <4> QED
          BY <1>2, <1>4, <2>1, <2>2, <4>1, <4>2
      <3> QED
        BY <3>1, <3>2
    <2>4. \A i, j \in 1..NSegs : segs'[i].used /\ segs'[j].used /\ segs'[i].id = segs'[j].id => i = j
      <3> SUFFICES ASSUME NEW i \in 1..NSegs, NEW j \in 1..NSegs, segs'[i].used, segs'[j].used, segs'[i].id = segs'[j].id,
                          i # j
                   PROVE  FALSE
        OBVIOUS
      <3>1. CASE i = k
        BY <1>4, <1>5, <1>9, <2>1, <2>2, <3>1
      <3>2. CASE j = k
        BY <1>4, <1>5, <1>9, <2>1, <2>2, <3>2
      <3>3. CASE i # k /\ j # k
        BY <1>5, <3>3 DEF FInv, SegIds
      <3> QED
        BY <3>1, <3>2, <3>3
    <2> QED
      BY <2>3, <2>4 DEF SegIds
  <1>12. StacksOwn'
    BY <1>2 DEF FInv, StacksOwn
  <1> QED
    BY <1>7, <1>8, <1>10, <1>11, <1>12 DEF FInv

LEMMA FreedFacts ==
    ASSUME NEW S, NEW T, NEW f
    PROVE  f \in SegFreed(S, T) <=>
               /\ \E k \in 1..NSegs : f \in FramesOf(S[k])
               /\ \A j \in 1..NSegs : f \notin FramesOf(T[j])
  <1>1. SegFrames(S) = UNION {FramesOf(S[k]) : k \in 1..NSegs} /\ SegFrames(T) = UNION {FramesOf(T[k]) : k \in 1..NSegs}
    BY DEF SegFrames, FramesOf
  <1> QED
    BY <1>1 DEF SegFreed

LEMMA ShmCtlFrames ==
    ASSUME VInv, FInv, NEW k \in 1..NSegs, ShmCtl(k)
    PROVE  FInv'
  <1>1. PICK q : q = segs[k]
    OBVIOUS
  <1>2. PICK r : r = IF q.maps = 0 THEN NoSeg ELSE [q EXCEPT !.removed = TRUE, !.key = Private]
    OBVIOUS
  <1>3. segs \in [1..NSegs -> SegType] /\ q \in SegType /\ q.used
    BY <1>1 DEF VInv, MemTypes, ShmCtl
  <1>4. /\ segs' = [segs EXCEPT ![k] = r] /\ free' = free \cup SegFreed(segs, segs') /\ UNCHANGED <<as, pt, nextId>>
    BY <1>1, <1>2, <1>3 DEF ShmCtl
  <1>5. \A j \in 1..NSegs : segs'[j] = IF j = k THEN r ELSE segs[j]
    BY <1>3, <1>4
  <1>6. q.maps # 0 => r.used /\ r.id = q.id /\ r.frames = q.frames /\ r.maps = q.maps
    BY <1>2, <1>3 DEF SegType
  <1>7. q.maps = 0 => r = NoSeg /\ ~r.used /\ FramesOf(r) = {}
    BY <1>2 DEF NoSeg, FramesOf
  <1>8. Once'
    <2>1. PICK O, m, fr, er, g, h : /\ O = OwnAll /\ m = pt /\ fr = free /\ er = free'
                                    /\ g = SegAll /\ h = SegAll'
      OBVIOUS
    <2>2. /\ \A j \in 1..NSegs : h[j] = FramesOf(segs'[j]) /\ g[j] = FramesOf(segs[j])
      BY <2>1 DEF SegAll
    <2>3. \A j \in 1..NSegs : h[j] = g[j] \/ h[j] = {}
      <3> SUFFICES ASSUME NEW j \in 1..NSegs, j = k PROVE h[j] = g[j] \/ h[j] = {}
        BY <1>5, <2>2
      <3>1. FramesOf(r) = FramesOf(q) \/ FramesOf(r) = {}
        BY <1>6, <1>7 DEF FramesOf
      <3> QED
        BY <1>1, <1>5, <2>2, <3>1
    <2>4. ASSUME NEW f
          PROVE  f \in er <=> f \in fr \/ \E j \in 1..NSegs : f \in g[j] /\ \A i \in 1..NSegs : f \notin h[i]
      <3>1. f \in SegFreed(segs, segs') <=> /\ \E j \in 1..NSegs : f \in FramesOf(segs[j])
                                            /\ \A j \in 1..NSegs : f \notin FramesOf(segs'[j])
        BY FreedFacts
      <3> QED
        BY <1>4, <2>1, <2>2, <3>1
    <2>5. Shrinks(O, m, fr, g, O, m, er, h, {})
      BY <2>3, <2>4 DEF Shrinks
    <2>6. OnceOf(O, m, fr, g)
      BY <2>1 DEF FInv, Once
    <2>7. OnceOf(O, m, er, h)
      BY <2>5, <2>6, OnceShrinks
    <2>8. OwnAll' = OwnAll
      BY <1>4 DEF OwnAll
    <2> QED
      BY <1>4, <2>1, <2>7, <2>8 DEF Once
  <1>9. Backed'
    <2> SUFFICES ASSUME NEW s \in Spaces, NEW i \in Sharing(as[s])
                 PROVE  \E j \in 1..NSegs : MappedBy(as[s].vm[i], pt[s], segs'[j])
      BY <1>4 DEF Backed
    <2>1. PICK j \in 1..NSegs : MappedBy(as[s].vm[i], pt[s], segs[j])
      BY DEF FInv, Backed
    <2>2. CASE j # k
      BY <1>5, <2>1, <2>2
    <2>3. CASE j = k
      <3>1. as[s].vm[i].shm = q.id + 1
        <4>1. as[s].vm[i] \in Region
          BY SpaceFacts DEF VInv, Sharing, InUse
        <4>2. as[s].vm[i].shm \in Nat /\ q.id = as[s].vm[i].shm - 1
          BY <1>1, <2>1, <2>3, <4>1, RegionFacts DEF MappedBy
        <4>3. \A x \in Nat : \A y : y = x - 1 => x = y + 1
          OBVIOUS
        <4> QED
          BY <4>2, <4>3, Zenon
      <3>2. q.maps > 0
        BY <1>1, <1>3, <3>1, MappedCounts DEF FInv, MapsCounted
      <3>3. q.maps # 0
        BY <3>2
      <3>4. r.used /\ r.id = q.id /\ r.frames = q.frames
        BY <1>6, <3>3
      <3>5. MappedBy(as[s].vm[i], pt[s], r)
        BY <1>1, <1>3, <2>1, <2>3, <3>4, Zenon DEF MappedBy
      <3> QED
        BY <1>5, <2>3, <3>5
    <2> QED
      BY <2>2, <2>3
  <1>10. MapsCounted'
    <2>1. ASSUME NEW j \in 1..NSegs, segs'[j].used
          PROVE  /\ segs'[j].maps = Cardinality(MapsOf(as, segs'[j].id))
                 /\ segs'[j].removed => segs'[j].maps > 0
      <3>1. CASE j = k
        <4>1. q.maps # 0 /\ q.maps \in Nat
          BY <1>3, <1>5, <1>7, <2>1, <3>1 DEF SegType
        <4>2. q.maps = Cardinality(MapsOf(as, q.id))
          BY <1>1, <1>3 DEF FInv, MapsCounted
        <4>3. q.maps > 0
          BY <4>1
        <4>4. segs'[j] = r /\ r.maps = q.maps /\ r.id = q.id
          BY <1>5, <1>6, <3>1, <4>1
        <4> QED
          BY <4>2, <4>3, <4>4
      <3>2. CASE j # k
        BY <1>5, <2>1, <3>2 DEF FInv, MapsCounted
      <3> QED
        BY <3>1, <3>2
    <2> QED
      BY <1>4, <2>1 DEF MapsCounted
  <1>11. SegIds'
    <2>1. ASSUME NEW j \in 1..NSegs
          PROVE  (segs'[j] = NoSeg /\ ~segs'[j].used) \/ (segs[j].used /\ segs'[j].used /\ segs'[j].id = segs[j].id)
      <3>1. CASE j = k
        BY <1>1, <1>3, <1>5, <1>6, <1>7, <3>1
      <3>2. CASE j # k
        <4>1. segs[j].used \/ segs[j] = NoSeg
          BY DEF FInv, SegIds
        <4> QED
          BY <1>5, <3>2, <4>1 DEF NoSeg
      <3> QED
        BY <3>1, <3>2
    <2> QED
      BY <1>4, <2>1 DEF FInv, SegIds
  <1>12. StacksOwn'
    BY <1>4 DEF FInv, StacksOwn
  <1> QED
    BY <1>8, <1>9, <1>10, <1>11, <1>12 DEF FInv

----------------------------------------------------------------------------
(* A segment is attached.                                                  *)

\* The space of a region more, over pages that were absent.
LEMMA AbsentThere ==
    ASSUME VInv, NEW s \in Spaces, NEW r, NEW j, NEW b, RoomFor(s, r, j, b)
    PROVE  \A v \in Span(r) : v \in Pages /\ pt[s][v] = Absent
  <1>1. PICK a, m : a = as[s] /\ m = pt[s]
    OBVIOUS
  <1>2. a \in AsType /\ m \in [Pages -> Entry] /\ Laid(a, m)
    BY <1>1, SpaceFacts DEF VInv, AllLaid
  <1>3. Joins(a, m, j, r, b, m)
    BY <1>1, <1>2 DEF RoomFor, Joins
  <1>4. \A v \in Span(r) : m[v] = Absent
    BY <1>3, NewRegion
  <1> QED
    BY <1>1, <1>4 DEF RoomFor

LEMMA FilledFrames ==
    ASSUME NEW m, NEW at, NEW fs, NEW prot, NEW n
    PROVE  \A v \in Pages : /\ v \in at..(at + n - 1) => Filled(m, at, n, fs, prot)[v].frame = fs[v - at + 1]
                            /\ v \notin at..(at + n - 1) => Filled(m, at, n, fs, prot)[v] = m[v]
  BY DEF Filled

\* A segment with the same frames.
LEMMA MappedSeg ==
    ASSUME NEW r, NEW m, NEW n, NEW q, NEW x, MappedBy(r, m, q), q.used => x.used, x.id = q.id, x.frames = q.frames,
           \A v \in Span(r) : n[v] = m[v]
    PROVE  MappedBy(r, n, x)
  BY DEF MappedBy

LEMMA AttachedFrames ==
    ASSUME VInv, FInv, NEW c \in Cores, NEW s \in Spaces, NEW k \in 1..NSegs, segs[k].used, NEW prot \in SUBSET Rights,
           NEW n \in Nat, n = Len(segs[k].frames), NEW at \in Nat, NEW r, NEW j, NEW b, RoomFor(s, r, j, b),
           IsPlaced(r, at, n, prot, segs[k].id + 1), ~r.stack, AttachDone(c, s, k, prot, at, n, b)
    PROVE  FInv'
  <1>1. PICK a, m, p, q, x : /\ a = as[s] /\ m = pt[s] /\ p = Filled(pt[s], at, n, segs[k].frames, prot)
                             /\ q = segs[k] /\ x = [segs[k] EXCEPT !.maps = @ + 1]
    OBVIOUS
  <1>2. /\ as \in [Spaces -> AsType] /\ pt \in [Spaces -> [Pages -> Entry]] /\ segs \in [1..NSegs -> SegType]
        /\ a \in AsType /\ a.vm \in [Regions -> Region] /\ q \in SegType
    BY <1>1, SpaceFacts DEF VInv, SpaceTypes, MemTypes
  <1>3. /\ as' = [as EXCEPT ![s] = b] /\ pt' = [pt EXCEPT ![s] = p] /\ segs' = [segs EXCEPT ![k] = x]
        /\ UNCHANGED <<free, nextId>>
    BY <1>1, <1>2 DEF AttachDone
  <1>4. /\ as'[s] = b /\ pt'[s] = p /\ segs'[k] = x
        /\ \A t \in Spaces : t # s => as'[t] = as[t] /\ pt'[t] = pt[t]
        /\ \A l \in 1..NSegs : l # k => segs'[l] = segs[l]
    BY <1>2, <1>3
  <1>5. q.used /\ x.used /\ x.id = q.id /\ x.frames = q.frames /\ x.maps = q.maps + 1 /\ x.removed = q.removed /\ q.id \in Nat
    BY <1>1, <1>2, Numbers DEF SegType
  <1>6. /\ j \in Regions /\ j \notin InUse(a) /\ b.vm = [a.vm EXCEPT ![j] = r] /\ r.base # 0 /\ r.shm = q.id + 1
        /\ r.base = at /\ r.len = n /\ Span(r) = at..(at + n - 1)
        /\ \A i \in InUse(a) : Span(r) \cap Span(a.vm[i]) = {}
    BY <1>1 DEF RoomFor, IsPlaced
  <1>7. \A v \in Span(r) : v \in Pages /\ m[v] = Absent
    BY <1>1, AbsentThere
  <1>8. \A v \in Pages : (v \in Span(r) => p[v].frame = q.frames[v - at + 1]) /\ (v \notin Span(r) => p[v] = m[v])
    <2>1. \A v \in Pages : /\ v \in at..(at + n - 1) => Filled(m, at, n, q.frames, prot)[v].frame = q.frames[v - at + 1]
                           /\ v \notin at..(at + n - 1) => Filled(m, at, n, q.frames, prot)[v] = m[v]
      BY FilledFrames, SMTT(40)
    <2>2. p = Filled(m, at, n, q.frames, prot)
      BY <1>1
    <2> QED
      BY <1>6, <2>1, <2>2, Zenon
  <1>9. /\ \A i : i \in Sharing(b) <=> i \in Sharing(a) \/ i = j
        /\ b.vm[j] = r /\ j \notin Sharing(a) /\ \A i \in Sharing(a) : b.vm[i] = a.vm[i] /\ i \in InUse(a)
    <2>1. r.shm # 0
      BY <1>5, <1>6
    <2>2. \A i \in Regions : b.vm[i] = IF i = j THEN r ELSE a.vm[i]
      BY <1>2, <1>6
    <2> QED
      BY <1>6, <2>1, <2>2 DEF Sharing, InUse
  <1>10. OwnAll' = OwnAll /\ \A t \in Spaces : \A v \in OwnAll[t] : pt'[t][v].frame = pt[t][v].frame
    <2>1. \A v : v \in SharedIn(b) <=> v \in SharedIn(a) \/ v \in Span(r)
      BY <1>9 DEF SharedIn
    <2>2. OwnIn(b, p) = OwnIn(a, m)
      BY <1>7, <1>8, <2>1 DEF OwnIn
    <2>3. \A v \in OwnIn(a, m) : p[v] = m[v]
      BY <1>7, <1>8 DEF OwnIn
    <2>4. \A t \in Spaces : OwnIn(as'[t], pt'[t]) = OwnIn(as[t], pt[t])
      BY <1>1, <1>4, <2>2, ZenonT(60)
    <2>5. \A t \in Spaces : \A v \in OwnIn(as[t], pt[t]) : pt'[t][v] = pt[t][v]
      <3>1. \A v \in OwnIn(as[s], pt[s]) : pt'[s][v] = pt[s][v]
        BY <1>1, <1>4, <2>3, ZenonT(60)
      <3>2. \A t \in Spaces : t # s => pt'[t] = pt[t]
        BY <1>4
      <3> QED
        BY <3>1, <3>2, ZenonT(60)
    <2> QED
      BY <2>4, <2>5 DEF OwnAll
  <1>11. SegAll' = SegAll
    <2>1. FramesOf(x) = FramesOf(q)
      BY <1>5 DEF FramesOf
    <2>2. \A l \in 1..NSegs : FramesOf(segs'[l]) = FramesOf(segs[l])
      BY <1>1, <1>4, <2>1
    <2> QED
      BY <2>2 DEF SegAll
  <1>12. Once'
    BY <1>3, <1>10, <1>11, OnceKept DEF FInv
  <1>13. ASSUME NEW l \in 1..NSegs
         PROVE  segs'[l].used = segs[l].used /\ segs'[l].id = segs[l].id /\ segs'[l].frames = segs[l].frames
    BY <1>1, <1>4, <1>5
  <1>14. Backed'
    <2> SUFFICES ASSUME NEW t \in Spaces, NEW i \in Sharing(as'[t])
                 PROVE  \E l \in 1..NSegs : MappedBy(as'[t].vm[i], pt'[t], segs'[l])
      BY DEF Backed
    <2>1. CASE t = s /\ i = j
      <3>1. MappedBy(r, p, x)
        <4>1. x.id = r.shm - 1
          BY <1>5, <1>6
        <4>2. r.len = Len(x.frames)
          BY <1>1, <1>5, <1>6
        <4>3. \A v \in Span(r) : p[v].frame = x.frames[v - r.base + 1]
          BY <1>5, <1>6, <1>7, <1>8
        <4> QED
          BY <1>5, <4>1, <4>2, <4>3 DEF MappedBy
      <3> QED
        BY <1>4, <1>9, <2>1, <3>1
    <2>2. CASE ~(t = s /\ i = j)
      <3>1. i \in Sharing(as[t]) /\ as'[t].vm[i] = as[t].vm[i] /\ i \in InUse(as[t])
        <4>1. CASE t = s
          BY <1>1, <1>4, <1>9, <2>2, <4>1
        <4>2. CASE t # s
          BY <1>4, <4>2 DEF Sharing
        <4> QED
          BY <4>1, <4>2
      <3>2. Span(as[t].vm[i]) \subseteq Pages
        BY <3>1, SpanIn
      <3>3. \A v \in Span(as[t].vm[i]) : pt'[t][v] = pt[t][v]
        <4>1. CASE t = s
          BY <1>1, <1>4, <1>6, <1>8, <3>1, <3>2, <4>1
        <4>2. CASE t # s
          BY <1>4, <4>2
        <4> QED
          BY <4>1, <4>2
      <3>4. PICK l \in 1..NSegs : MappedBy(as[t].vm[i], pt[t], segs[l])
        BY <3>1 DEF FInv, Backed
      <3>5. MappedBy(as[t].vm[i], pt'[t], segs'[l])
        <4>1. (segs[l].used => segs'[l].used) /\ segs'[l].id = segs[l].id /\ segs'[l].frames = segs[l].frames
          BY <1>13
        <4> QED
          BY <3>3, <3>4, <4>1, MappedSeg, ZenonT(60)
      <3> QED
        BY <3>1, <3>5
    <2> QED
      BY <2>1, <2>2
  <1>15. MapsCounted'
    <2>1. ASSUME NEW id \in Nat, NEW y \in Spaces \X Regions
          PROVE  y \in MapsOf(as', id) <=> y \in MapsOf(as, id) \/ (id = q.id /\ y = <<s, j>>)
      <3>1. PICK t, i : y = <<t, i>> /\ t \in Spaces /\ i \in Regions
        OBVIOUS
      <3>2. /\ y \in MapsOf(as', id) <=> i \in Sharing(as'[t]) /\ as'[t].vm[i].shm = id + 1
            /\ y \in MapsOf(as, id) <=> i \in Sharing(as[t]) /\ as[t].vm[i].shm = id + 1
        BY <3>1 DEF MapsOf
      <3>3. CASE t # s
        BY <1>4, <3>1, <3>2, <3>3
      <3>4. CASE t = s /\ i # j
        BY <1>1, <1>4, <1>9, <3>1, <3>2, <3>4
      <3>5. CASE t = s /\ i = j
        <4>1. y \in MapsOf(as', id) <=> q.id + 1 = id + 1
          BY <1>4, <1>6, <1>9, <3>2, <3>5
        <4>2. y \notin MapsOf(as, id)
          BY <1>1, <1>9, <3>2, <3>5
        <4>3. q.id + 1 = id + 1 <=> q.id = id
          BY <1>5
        <4> QED
          BY <3>1, <3>5, <4>1, <4>2, <4>3
      <3> QED
        BY <3>3, <3>4, <3>5
    <2>2. \A id : MapsOf(as', id) \subseteq Spaces \X Regions /\ MapsOf(as, id) \subseteq Spaces \X Regions
      BY DEF MapsOf
    <2>3. \A id \in Nat : id # q.id => MapsOf(as', id) = MapsOf(as, id)
      BY <2>1, <2>2
    <2>4. MapsOf(as', q.id) = MapsOf(as, q.id) \cup {<<s, j>>} /\ <<s, j>> \notin MapsOf(as, q.id)
      <3>1. <<s, j>> \in Spaces \X Regions
        BY <1>6
      <3>2. MapsOf(as', q.id) = MapsOf(as, q.id) \cup {<<s, j>>}
        BY <1>5, <2>1, <2>2, <3>1
      <3>3. <<s, j>> \notin MapsOf(as, q.id)
        BY <1>1, <1>9 DEF MapsOf
      <3> QED
        BY <3>2, <3>3
    <2>5. Cardinality(MapsOf(as', q.id)) = Cardinality(MapsOf(as, q.id)) + 1
      BY <2>4, MapsFinite, FS_AddElement
    <2>6. ASSUME NEW l \in 1..NSegs, segs'[l].used
          PROVE  /\ segs'[l].maps = Cardinality(MapsOf(as', segs'[l].id))
                 /\ segs'[l].removed => segs'[l].maps > 0
      <3>1. CASE l = k
        <4>1. q.maps = Cardinality(MapsOf(as, q.id)) /\ q.maps \in Nat
          BY <1>1, <1>2, <1>5 DEF FInv, MapsCounted, SegType
        <4>2. x.maps = Cardinality(MapsOf(as', q.id)) /\ x.maps > 0
          <5>1. \A y, z \in Nat : y = z => y + 1 = z + 1 /\ y + 1 > 0
            OBVIOUS
          <5> QED
            BY <1>5, <2>5, <4>1, <5>1
        <4> QED
          BY <1>4, <1>5, <3>1, <4>2
      <3>2. CASE l # k
        <4>1. segs'[l] = segs[l] /\ segs[l].used /\ segs[l].id \in Nat
          <5>1. \A y \in SegType : y.id \in Nat
            BY Numbers DEF SegType
          <5> QED
            BY <1>2, <1>4, <2>6, <3>2, <5>1
        <4>2. segs[l].id # q.id
          BY <1>1, <1>5, <3>2, <4>1 DEF FInv, SegIds
        <4> QED
          BY <2>3, <4>1, <4>2 DEF FInv, MapsCounted
      <3> QED
        BY <3>1, <3>2
    <2> QED
      BY <2>6 DEF MapsCounted
  <1>16. SegIds'
    <2>1. ASSUME NEW l \in 1..NSegs PROVE segs'[l] = segs[l] \/ (segs'[l].used /\ segs[l].used /\ segs'[l].id = segs[l].id)
      BY <1>1, <1>4, <1>5
    <2> QED
      BY <1>3, <1>13, <2>1 DEF FInv, SegIds
  <1>17. StacksOwn'
    <2> SUFFICES ASSUME NEW t \in Spaces, NEW i \in Sharing(as'[t]) PROVE ~as'[t].vm[i].stack
      BY DEF StacksOwn
    <2>1. CASE t = s
      BY <1>1, <1>4, <1>9, <2>1 DEF FInv, StacksOwn
    <2>2. CASE t # s
      BY <1>4, <2>2 DEF FInv, StacksOwn
    <2> QED
      BY <2>1, <2>2
  <1> QED
    BY <1>12, <1>14, <1>15, <1>16, <1>17 DEF FInv

LEMMA ShmAttachFrames ==
    ASSUME VInv, FInv, NEW c \in Cores, NEW k \in 1..NSegs, NEW prot \in SUBSET Rights, ShmAttach(c, k, prot)
    PROVE  FInv'
  <1>1. PICK s, n, at, r, j, b : Attaching(c, k, prot, s, n, at, r, j, b)
    BY AttachCases
  <1>2. /\ s \in Spaces /\ s = run[c] /\ run[c] # NoSpace /\ n \in Nat /\ n = Len(segs[k].frames) /\ at \in Nat
        /\ RoomFor(s, r, j, b) /\ IsPlaced(r, at, n, prot, segs[k].id + 1) /\ Span(r) = at..(at + n - 1) /\ ~r.stack
        /\ AttachDone(c, s, k, prot, at, n, b) \/ \E i \in 0..(n - 1) : AttachFailed(c, s, at, i)
    BY <1>1 DEF Attaching
  <1>3. segs[k].used
    BY DEF ShmAttach
  <1>4. CASE AttachDone(c, s, k, prot, at, n, b)
    BY <1>2, <1>3, <1>4, AttachedFrames
  <1>5. ASSUME NEW i \in 0..(n - 1), AttachFailed(c, s, at, i) PROVE FInv'
    <2>1. PICK span : span = at..(at + i - 1)
      OBVIOUS
    <2>2. span \subseteq Span(r)
      BY <1>2, <1>5, <2>1
    <2>3. \A v \in span : v \in Pages /\ pt[s][v] = Absent
      BY <1>2, <2>2, AbsentThere
    <2>4. pt \in [Spaces -> [Pages -> Entry]]
      BY DEF VInv, SpaceTypes
    <2>5. [v \in Pages |-> IF v \in span THEN Absent ELSE pt[s][v]] = pt[s]
      BY <1>2, <2>3, <2>4
    <2>6. Cleared(s, span) = pt
      BY <1>2, <2>4, <2>5 DEF Cleared
    <2> QED
      BY <1>5, <2>1, <2>6, StillFrames DEF AttachFailed
  <1> QED
    BY <1>2, <1>4, <1>5

----------------------------------------------------------------------------
(* Regions go: munmap, the end of a thread, the end of a space.            *)

\* The spaces B are A, but s no longer shares what its regions I did.
Gives(A, B, s, I) ==
    /\ s \in Spaces /\ I \subseteq Sharing(A[s])
    /\ \A t \in Spaces : t # s => B[t] = A[t]
    /\ \A i : i \in Sharing(B[s]) <=> i \in Sharing(A[s]) /\ i \notin I
    /\ \A i \in Sharing(B[s]) : B[s].vm[i] = A[s].vm[i]

\* Those of I that map the segment id.
Of(A, s, I, id) == {i \in I : A[s].vm[i].shm = id + 1}

\* Each segment has as many regions fewer as I has of it.
LEMMA MapsLess ==
    ASSUME NEW A, NEW B, NEW s, NEW I, NEW id, NEW D, Gives(A, B, s, I), D = Of(A, s, I, id)
    PROVE  /\ Cardinality(D) \in Nat /\ Cardinality(D) <= Cardinality(MapsOf(A, id))
           /\ Cardinality(MapsOf(B, id)) = Cardinality(MapsOf(A, id)) - Cardinality(D)
  <1>1. I \subseteq Regions /\ s \in Spaces
    BY DEF Gives, Sharing, InUse
  <1>02. D = {i \in I : A[s].vm[i].shm = id + 1}
    BY DEF Of
  <1>2. IsFiniteSet(Regions) /\ D \in SUBSET Regions
    <2>1. IsFiniteSet(Regions)
      BY Numbers, FS_Interval
    <2> QED
      BY <1>1, <1>02, <2>1
  <1>3. IsFiniteSet(D) /\ Cardinality(D) \in Nat
    BY <1>2, FS_Subset, FS_CardinalityType
  <1>4. PICK E : E = {s} \X D
    OBVIOUS
  <1>5. IsFiniteSet(E) /\ Cardinality(E) = Cardinality(D)
    <2>1. IsFiniteSet({s}) /\ Cardinality({s}) = 1
      BY FS_Singleton
    <2>2. IsFiniteSet(E) /\ Cardinality(E) = Cardinality({s}) * Cardinality(D)
      BY <1>3, <1>4, <2>1, FS_Product
    <2>3. \A x \in Nat : 1 * x = x
      OBVIOUS
    <2> QED
      BY <1>3, <2>1, <2>2, <2>3
  <1>6. E \in SUBSET MapsOf(A, id)
    <2> SUFFICES ASSUME NEW x \in E PROVE x \in MapsOf(A, id)
      OBVIOUS
    <2>1. PICK i \in D : x = <<s, i>>
      BY <1>4
    <2>2. i \in I /\ A[s].vm[i].shm = id + 1 /\ i \in Sharing(A[s]) /\ i \in Regions
      BY <1>1, <1>02, <2>1 DEF Gives
    <2> QED
      BY <1>1, <2>1, <2>2 DEF MapsOf
  <1>7. MapsOf(B, id) = MapsOf(A, id) \ E
    <2>1. ASSUME NEW x \in Spaces \X Regions PROVE x \in MapsOf(B, id) <=> x \in MapsOf(A, id) \ E
      <3>1. PICK t, i : x = <<t, i>> /\ t \in Spaces /\ i \in Regions
        OBVIOUS
      <3>2. /\ x \in MapsOf(B, id) <=> i \in Sharing(B[t]) /\ B[t].vm[i].shm = id + 1
            /\ x \in MapsOf(A, id) <=> i \in Sharing(A[t]) /\ A[t].vm[i].shm = id + 1
            /\ x \in E <=> t = s /\ i \in I /\ A[s].vm[i].shm = id + 1
        BY <1>02, <1>4, <3>1 DEF MapsOf
      <3>3. CASE t = s
        <4>1. i \in Sharing(B[s]) <=> i \in Sharing(A[s]) /\ i \notin I
          BY DEF Gives
        <4>2. i \in Sharing(B[s]) => B[s].vm[i] = A[s].vm[i]
          BY DEF Gives
        <4> QED
          BY <3>2, <3>3, <4>1, <4>2
      <3>4. CASE t # s
        BY <3>1, <3>2, <3>4 DEF Gives
      <3> QED
        BY <3>3, <3>4
    <2>2. MapsOf(B, id) \subseteq Spaces \X Regions /\ MapsOf(A, id) \subseteq Spaces \X Regions
      BY DEF MapsOf
    <2> QED
      BY <2>1, <2>2
  <1>8. MapsOf(A, id) \cap E = E
    BY <1>6
  <1>9. /\ Cardinality(MapsOf(A, id) \ E) = Cardinality(MapsOf(A, id)) - Cardinality(MapsOf(A, id) \cap E)
        /\ Cardinality(E) <= Cardinality(MapsOf(A, id))
    BY <1>6, MapsFinite, FS_Difference, FS_Subset
  <1> QED
    BY <1>3, <1>5, <1>7, <1>8, <1>9

\* What becomes of a segment q with c mappings left.
Left(q, x, c) ==
    \/ ~q.used /\ x = q
    \/ q.used /\ q.removed /\ c = 0 /\ x = NoSeg
    \/ /\ q.used /\ x.used /\ x.id = q.id /\ x.frames = q.frames /\ x.maps = c
       /\ x.removed = q.removed /\ (x.removed => c > 0)

LEMMA DroppedFacts ==
    ASSUME VInv, FInv, NEW s \in Spaces, NEW I, NEW B, Gives(as, B, s, I), NEW k \in 1..NSegs
    PROVE  Left(segs[k], Dropped(s, I)[k], Cardinality(MapsOf(B, segs[k].id)))
  <1>1. PICK q, D, n, c, w : /\ q = segs[k] /\ D = {i \in I : as[s].vm[i].shm = segs[k].id + 1} /\ n = Cardinality(D)
                             /\ c = Cardinality(MapsOf(B, segs[k].id))
                             /\ w = Cardinality(MapsOf(as, segs[k].id))
    OBVIOUS
  <1>2. q \in SegType /\ q.maps \in Nat /\ q.removed \in BOOLEAN /\ q.used \in BOOLEAN
    BY <1>1 DEF VInv, MemTypes, SegType
  <1>3. n \in Nat /\ n <= w /\ c = w - n /\ w \in Nat
    <2>1. PICK A, id : A = as /\ id = segs[k].id
      OBVIOUS
    <2>2. Gives(A, B, s, I) /\ D = Of(A, s, I, id)
      BY <1>1, <2>1 DEF Of
    <2>3. /\ Cardinality(D) \in Nat /\ Cardinality(D) <= Cardinality(MapsOf(A, id))
          /\ Cardinality(MapsOf(B, id)) = Cardinality(MapsOf(A, id)) - Cardinality(D)
      BY <2>2, MapsLess
    <2>4. Cardinality(MapsOf(A, id)) \in Nat
      BY MapsFinite
    <2> QED
      BY <1>1, <2>1, <2>3, <2>4
  <1>4. PICK left : left = IF q.maps > n THEN q.maps - n ELSE 0
    OBVIOUS
  <1>5. Dropped(s, I)[k] = IF ~q.used \/ n = 0 THEN q
                           ELSE IF left = 0 /\ q.removed THEN NoSeg
                           ELSE [q EXCEPT !.maps = left]
    BY <1>1, <1>4 DEF Dropped, Mapping
  <1>6. CASE ~q.used
    BY <1>1, <1>5, <1>6 DEF Left
  <1>7. CASE q.used
    <2>1. q.maps = w /\ (q.removed => w > 0)
      BY <1>1, <1>7 DEF FInv, MapsCounted
    <2>2. left = c /\ c \in Nat
      BY <1>2, <1>3, <1>4, <2>1
    <2>3. CASE n = 0
      <3>1. c = w
        BY <1>3, <2>3
      <3> QED
        BY <1>1, <1>5, <1>7, <2>1, <2>3, <3>1 DEF Left
    <2>4. CASE n # 0 /\ left = 0 /\ q.removed
      BY <1>1, <1>5, <1>7, <2>2, <2>4 DEF Left
    <2>5. CASE n # 0 /\ ~(left = 0 /\ q.removed)
      <3>1. PICK x : x = [q EXCEPT !.maps = left]
        OBVIOUS
      <3>2. x.used = q.used /\ x.id = q.id /\ x.frames = q.frames /\ x.maps = left /\ x.removed = q.removed
        BY <1>2, <3>1 DEF SegType
      <3>3. q.removed => c > 0
        BY <2>2, <2>5
      <3>4. Dropped(s, I)[k] = x
        BY <1>5, <1>7, <2>5, <3>1
      <3> QED
        BY <1>1, <1>7, <2>2, <3>2, <3>3, <3>4 DEF Left
    <2> QED
      BY <2>3, <2>4, <2>5
  <1> QED
    BY <1>2, <1>6, <1>7

\* The regions I of space s go, and its pages C with them.
Drops(s, I, C) ==
    /\ Gives(as, as', s, I) /\ C \subseteq Pages
    /\ pt' = [pt EXCEPT ![s] = Emptied(pt[s], C)]
    /\ segs' = Dropped(s, I) /\ nextId' = nextId
    /\ \A f : f \in free' <=> f \in free \/ f \in SegFreed(segs, segs') \/ f \in FramesIn(s, C \ SharedIn(as[s]))
    /\ \A i \in I : Span(as[s].vm[i]) \subseteq C
    /\ \A i \in Sharing(as'[s]) : Span(as[s].vm[i]) \cap C = {}

LEMMA DropOnce ==
    ASSUME VInv, FInv, NEW s \in Spaces, NEW I, NEW C, Drops(s, I, C)
    PROVE  Once'
  <1>1. PICK O, P, m, n, fr, er, g, h, G : /\ O = OwnAll /\ P = OwnAll' /\ m = pt /\ n = pt' /\ fr = free /\ er = free'
                                           /\ g = SegAll /\ h = SegAll' /\ G = FramesIn(s, C \ SharedIn(as[s]))
    OBVIOUS
  <1>2. pt \in [Spaces -> [Pages -> Entry]] /\ C \subseteq Pages /\ Gives(as, as', s, I)
    BY DEF VInv, SpaceTypes, Drops
  <1>3. /\ \A t \in Spaces : t # s => as'[t] = as[t] /\ n[t] = m[t]
        /\ \A v \in Pages : n[s][v] = IF v \in C THEN Absent ELSE m[s][v]
    BY <1>1, <1>2 DEF Drops, Gives, Emptied
  <1>4. \A v : v \in SharedIn(as'[s]) => v \in SharedIn(as[s])
    BY <1>2 DEF SharedIn, Gives
  <1>5. \A v : v \in SharedIn(as[s]) /\ v \notin C => v \in SharedIn(as'[s])
    <2> SUFFICES ASSUME NEW v, v \in SharedIn(as[s]), v \notin C PROVE v \in SharedIn(as'[s])
      OBVIOUS
    <2>1. PICK i \in Sharing(as[s]) : v \in Span(as[s].vm[i])
      BY DEF SharedIn
    <2>2. i \notin I
      BY <2>1 DEF Drops
    <2>3. i \in Sharing(as'[s]) /\ as'[s].vm[i] = as[s].vm[i]
      BY <1>2, <2>1, <2>2 DEF Gives
    <2> QED
      BY <2>1, <2>3 DEF SharedIn
  <1>6. /\ \A t \in Spaces : O[t] = OwnIn(as[t], m[t]) /\ P[t] = OwnIn(as'[t], n[t])
        /\ \A j \in 1..NSegs : g[j] = FramesOf(segs[j]) /\ h[j] = FramesOf(segs'[j])
    BY <1>1 DEF OwnAll, SegAll
  <1>7. ASSUME NEW t \in Spaces, NEW v \in P[t] PROVE v \in O[t] /\ n[t][v].frame = m[t][v].frame
    <2>1. CASE t = s
      <3>1. v \in Pages /\ v \notin SharedIn(as'[s]) /\ n[s][v] # Absent
        BY <1>6, <1>7, <2>1 DEF OwnIn
      <3>2. v \notin C /\ n[s][v] = m[s][v]
        BY <1>3, <3>1
      <3> QED
        BY <1>5, <1>6, <2>1, <3>1, <3>2 DEF OwnIn
    <2>2. CASE t # s
      BY <1>3, <1>6, <1>7, <2>2
    <2> QED
      BY <2>1, <2>2
  <1>8. ASSUME NEW t \in Spaces, NEW v \in O[t], v \notin P[t]
        PROVE  t = s /\ v \in C /\ v \in Pages /\ v \notin SharedIn(as[s]) /\ m[s][v] # Absent
    <2>1. t = s
      BY <1>3, <1>6, <1>8
    <2>2. v \in Pages /\ v \notin SharedIn(as[s]) /\ m[s][v] # Absent
      BY <1>6, <1>8, <2>1 DEF OwnIn
    <2>3. v \in C
      BY <1>3, <1>4, <1>6, <1>8, <2>1, <2>2 DEF OwnIn
    <2> QED
      BY <2>1, <2>2, <2>3
  <1>9. ASSUME NEW t \in Spaces, NEW v \in O[t], v \notin P[t] PROVE m[t][v].frame \in G
    <2>1. t = s /\ v \in C /\ v \in Pages /\ v \notin SharedIn(as[s]) /\ m[s][v] # Absent
      BY <1>8, <1>9
    <2>2. m[s][v].frame # 0
      BY <1>1, <2>1, Present, Numbers
    <2> QED
      BY <1>1, <2>1, <2>2 DEF FramesIn
  <1>10. ASSUME NEW f \in G PROVE \E t \in Spaces : \E v \in O[t] : v \notin P[t] /\ f = m[t][v].frame
    <2>1. PICK v \in C : v \notin SharedIn(as[s]) /\ f = m[s][v].frame /\ f # 0
      BY <1>1 DEF FramesIn
    <2>2. v \in Pages /\ m[s][v] # Absent
      BY <1>2, <2>1 DEF Absent
    <2>3. v \in O[s] /\ v \notin P[s]
      BY <1>3, <1>6, <2>1, <2>2, ZenonT(60) DEF OwnIn
    <2> QED
      BY <2>1, <2>3
  <1>11. \A j \in 1..NSegs : h[j] = g[j] \/ h[j] = {}
    <2> SUFFICES ASSUME NEW j \in 1..NSegs PROVE FramesOf(segs'[j]) = FramesOf(segs[j]) \/ FramesOf(segs'[j]) = {}
      BY <1>6
    <2>1. PICK q, x, c : q = segs[j] /\ x = segs'[j] /\ c = Cardinality(MapsOf(as', segs[j].id))
      OBVIOUS
    <2>2. Left(q, x, c)
      BY <1>2, <2>1, DroppedFacts DEF Drops
    <2>3. x.frames = q.frames \/ x.frames = <<>>
      BY <2>2 DEF Left, NoSeg
    <2>4. FramesOf(x) = FramesOf(q) \/ FramesOf(x) = {}
      BY <2>3 DEF FramesOf
    <2> QED
      BY <2>1, <2>4
  <1>12. ASSUME NEW f
         PROVE  f \in er <=> \/ f \in fr \/ f \in G
                             \/ \E j \in 1..NSegs : f \in g[j] /\ \A i \in 1..NSegs : f \notin h[i]
    <2>1. f \in SegFreed(segs, segs') <=> /\ \E j \in 1..NSegs : f \in FramesOf(segs[j])
                                          /\ \A j \in 1..NSegs : f \notin FramesOf(segs'[j])
      BY FreedFacts
    <2>2. f \in er <=> f \in fr \/ f \in SegFreed(segs, segs') \/ f \in G
      BY <1>1 DEF Drops
    <2> QED
      BY <1>6, <2>1, <2>2
  <1>13. Shrinks(O, m, fr, g, P, n, er, h, G)
    BY <1>7, <1>9, <1>10, <1>11, <1>12 DEF Shrinks
  <1>14. OnceOf(O, m, fr, g)
    BY <1>1 DEF FInv, Once
  <1>15. OnceOf(P, n, er, h)
    BY <1>13, <1>14, OnceShrinks
  <1> QED
    BY <1>1, <1>15 DEF Once

LEMMA DropStep ==
    ASSUME VInv, FInv, NEW s \in Spaces, NEW I, NEW C, Drops(s, I, C)
    PROVE  FInv'
  <1>1. pt \in [Spaces -> [Pages -> Entry]] /\ C \subseteq Pages /\ Gives(as, as', s, I) /\ nextId' = nextId
    BY DEF VInv, SpaceTypes, Drops
  <1>2. ASSUME NEW k \in 1..NSegs PROVE Left(segs[k], segs'[k], Cardinality(MapsOf(as', segs[k].id)))
    BY <1>1, DroppedFacts DEF Drops
  <1>3. ASSUME NEW t \in Spaces, NEW i \in Sharing(as'[t])
        PROVE  /\ i \in Sharing(as[t]) /\ as'[t].vm[i] = as[t].vm[i]
               /\ \A v \in Span(as[t].vm[i]) : pt'[t][v] = pt[t][v]
    <2>1. CASE t = s
      <3>1. i \in Sharing(as[s]) /\ as'[s].vm[i] = as[s].vm[i]
        BY <1>1, <1>3, <2>1 DEF Gives
      <3>2. Span(as[s].vm[i]) \subseteq Pages
        BY <3>1, SpanIn DEF Sharing
      <3>3. \A v \in Span(as[s].vm[i]) : v \notin C
        BY <1>3, <2>1 DEF Drops
      <3>4. \A v \in Pages : pt'[s][v] = IF v \in C THEN Absent ELSE pt[s][v]
        BY <1>1 DEF Drops, Emptied
      <3> QED
        BY <2>1, <3>1, <3>2, <3>3, <3>4
    <2>2. CASE t # s
      <3>1. as'[t] = as[t] /\ pt'[t] = pt[t]
        BY <1>1, <2>2 DEF Gives, Drops
      <3> QED
        BY <1>3, <3>1
    <2> QED
      BY <2>1, <2>2
  <1>4. Backed'
    <2> SUFFICES ASSUME NEW t \in Spaces, NEW i \in Sharing(as'[t])
                 PROVE  \E k \in 1..NSegs : MappedBy(as'[t].vm[i], pt'[t], segs'[k])
      BY DEF Backed
    <2>1. PICK k \in 1..NSegs : MappedBy(as[t].vm[i], pt[t], segs[k])
      BY <1>3 DEF FInv, Backed
    <2>2. PICK q, x, c, r : /\ q = segs[k] /\ x = segs'[k] /\ c = Cardinality(MapsOf(as', segs[k].id)) /\ r = as[t].vm[i]
      OBVIOUS
    <2>3. q.used /\ q.id = r.shm - 1 /\ r.shm \in Nat
      <3>1. r \in Region
        BY <1>3, <2>2, SpaceFacts DEF VInv, Sharing, InUse
      <3> QED
        BY <2>1, <2>2, <3>1, RegionFacts DEF MappedBy
    <2>4. r.shm = q.id + 1
      <3>1. \A y \in Nat : \A z : z = y - 1 => y = z + 1
        OBVIOUS
      <3> QED
        BY <2>3, <3>1, Zenon
    <2>5. as'[t].vm[i].shm = segs[k].id + 1
      BY <1>3, <2>2, <2>4
    <2>6. c > 0
      BY <2>2, <2>5, MappedCounts
    <2>7. Left(q, x, c) /\ c # 0
      BY <1>2, <2>2, <2>6
    <2>8. x.used /\ x.id = q.id /\ x.frames = q.frames
      BY <2>3, <2>7 DEF Left
    <2>9. MappedBy(as[t].vm[i], pt'[t], x)
      <3>1. PICK m, n : m = pt[t] /\ n = pt'[t]
        OBVIOUS
      <3>2. MappedBy(r, m, q) /\ \A v \in Span(r) : n[v] = m[v]
        BY <1>3, <2>1, <2>2, <3>1
      <3>3. MappedBy(r, n, x)
        BY <2>8, <3>2, MappedSeg
      <3> QED
        BY <2>2, <3>1, <3>3
    <2> QED
      BY <1>3, <2>2, <2>9
  <1>5. MapsCounted'
    <2>1. ASSUME NEW k \in 1..NSegs, segs'[k].used
          PROVE  /\ segs'[k].maps = Cardinality(MapsOf(as', segs'[k].id))
                 /\ segs'[k].removed => segs'[k].maps > 0
      <3>1. PICK q, x, c : q = segs[k] /\ x = segs'[k] /\ c = Cardinality(MapsOf(as', segs[k].id))
        OBVIOUS
      <3>2. Left(q, x, c) /\ x.used
        BY <1>2, <2>1, <3>1
      <3>3. x.id = q.id /\ x.maps = c /\ (x.removed => c > 0)
        BY <3>2 DEF Left, NoSeg
      <3> QED
        BY <3>1, <3>3
    <2> QED
      BY <2>1 DEF MapsCounted
  <1>6. SegIds'
    <2>1. ASSUME NEW k \in 1..NSegs
          PROVE  (segs'[k] = NoSeg /\ ~segs'[k].used) \/ (segs[k].used /\ segs'[k].used /\ segs'[k].id = segs[k].id)
      <3>1. PICK q, x, c : q = segs[k] /\ x = segs'[k] /\ c = Cardinality(MapsOf(as', segs[k].id))
        OBVIOUS
      <3>2. Left(q, x, c) /\ (q.used \/ q = NoSeg)
        BY <1>2, <3>1 DEF FInv, SegIds
      <3> QED
        BY <3>1, <3>2 DEF Left, NoSeg
    <2> QED
      BY <1>1, <2>1 DEF FInv, SegIds
  <1>7. StacksOwn'
    BY <1>3 DEF FInv, StacksOwn
  <1> QED
    BY <1>4, <1>5, <1>6, <1>7, DropOnce DEF FInv

LEMMA NothingDropped ==
    ASSUME VInv, NEW s
    PROVE  Dropped(s, {}) = segs /\ SegFreed(segs, segs) = {}
  <1>1. segs \in [1..NSegs -> SegType]
    BY DEF VInv, MemTypes
  <1>2. \A k \in 1..NSegs : Mapping(s, {}, k) = 0
    <2>1. \A k \in 1..NSegs : {i \in {} : as[s].vm[i].shm = segs[k].id + 1} = {}
      OBVIOUS
    <2> QED
      BY <2>1, FS_EmptySet DEF Mapping
  <1>3. Dropped(s, {}) = [k \in 1..NSegs |-> segs[k]]
    BY <1>2 DEF Dropped
  <1> QED
    BY <1>1, <1>3 DEF SegFreed

\* Region i of s goes with its pages: the frames are given back, unless they
\* are a segment's.
Unmaps(s, i) ==
    /\ as' = [as EXCEPT ![s].vm[i] = NoRegion] /\ pt' = Cleared(s, Span(as[s].vm[i])) /\ nextId' = nextId
    /\ as[s].vm[i].shm # 0 => segs' = Dropped(s, {i}) /\ free' = free \cup SegFreed(segs, segs')
    /\ as[s].vm[i].shm = 0 => segs' = segs /\ free' = free \cup FramesIn(s, Span(as[s].vm[i]))

LEMMA UnmapsFrames ==
    ASSUME VInv, FInv, NEW s \in Spaces, NEW i \in Used(s), Unmaps(s, i)
    PROVE  FInv'
  <1>1. PICK a, b, C : a = as[s] /\ b = Without(as[s], i) /\ C = Span(as[s].vm[i])
    OBVIOUS
  <1>2. /\ as \in [Spaces -> AsType] /\ a \in AsType /\ a.vm \in [Regions -> Region] /\ i \in InUse(a) /\ i \in Regions
        /\ InUse(a) \subseteq Regions /\ Laid(a, pt[s])
    BY <1>1, SpaceFacts DEF VInv, SpaceTypes, AllLaid
  <1>3. as' = [as EXCEPT ![s] = b] /\ pt' = [pt EXCEPT ![s] = Emptied(pt[s], C)] /\ nextId' = nextId
    BY <1>1, Unmapped DEF Unmaps, VInv
  <1>4. as'[s] = b /\ \A t \in Spaces : t # s => as'[t] = as[t]
    BY <1>2, <1>3
  <1>5. b.vm = [a.vm EXCEPT ![i] = NoRegion]
    BY <1>1, <1>2 DEF Without, AsType
  <1>6. C \subseteq Pages
    BY <1>1, <1>2, SpanIn
  <1>7. \A j \in InUse(a) : j # i => Span(a.vm[j]) \cap C = {}
    BY <1>1, <1>2 DEF Laid
  <1>8. /\ \A j : j \in Sharing(b) <=> j \in Sharing(a) /\ j # i
        /\ \A j \in Sharing(b) : b.vm[j] = a.vm[j] /\ j \in InUse(a) /\ j # i
    <2>1. \A j \in Regions : b.vm[j] = IF j = i THEN NoRegion ELSE a.vm[j]
      BY <1>2, <1>5
    <2> QED
      BY <1>2, <2>1, Plain DEF Sharing, InUse
  <1>9. \A j \in Sharing(as'[s]) : Span(as[s].vm[j]) \cap C = {}
    BY <1>1, <1>4, <1>7, <1>8
  <1>10. CASE a.vm[i].shm # 0
    <2>1. i \in Sharing(a)
      BY <1>2, <1>10 DEF Sharing
    <2>2. Gives(as, as', s, {i})
      BY <1>1, <1>4, <1>8, <2>1 DEF Gives
    <2>3. segs' = Dropped(s, {i}) /\ free' = free \cup SegFreed(segs, segs')
      BY <1>1, <1>10 DEF Unmaps
    <2>4. C \ SharedIn(as[s]) = {}
      BY <1>1, <2>1 DEF SharedIn
    <2>5. FramesIn(s, {}) = {}
      BY DEF FramesIn
    <2>6. \A f : f \in free' <=> f \in free \/ f \in SegFreed(segs, segs') \/ f \in FramesIn(s, C \ SharedIn(as[s]))
      BY <2>3, <2>4, <2>5
    <2>7. Drops(s, {i}, C)
      BY <1>1, <1>3, <1>6, <1>9, <2>2, <2>3, <2>6 DEF Drops
    <2> QED
      BY <2>7, DropStep
  <1>11. CASE a.vm[i].shm = 0
    <2>1. i \notin Sharing(a)
      BY <1>11 DEF Sharing
    <2>2. Gives(as, as', s, {})
      BY <1>1, <1>4, <1>8, <2>1 DEF Gives
    <2>3. segs' = segs /\ free' = free \cup FramesIn(s, C)
      BY <1>1, <1>11 DEF Unmaps
    <2>4. segs' = Dropped(s, {}) /\ SegFreed(segs, segs') = {}
      BY <2>3, NothingDropped
    <2>5. C \ SharedIn(as[s]) = C
      <3> SUFFICES ASSUME NEW v \in C, v \in SharedIn(as[s]) PROVE FALSE
        OBVIOUS
      <3>1. PICK j \in Sharing(a) : v \in Span(a.vm[j])
        BY <1>1 DEF SharedIn
      <3>2. j \in InUse(a) /\ j # i
        BY <2>1, <3>1 DEF Sharing
      <3> QED
        BY <1>7, <3>1, <3>2
    <2>6. \A f : f \in free' <=> f \in free \/ f \in SegFreed(segs, segs') \/ f \in FramesIn(s, C \ SharedIn(as[s]))
      BY <2>3, <2>4, <2>5
    <2>7. Drops(s, {}, C)
      BY <1>3, <1>6, <1>9, <2>2, <2>4, <2>6 DEF Drops
    <2> QED
      BY <2>7, DropStep
  <1> QED
    BY <1>10, <1>11

LEMMA MunmapFrames ==
    ASSUME VInv, FInv, NEW c \in Cores, NEW i, Munmap(c, i)
    PROVE  FInv'
  <1>1. PICK s : s = run[c]
    OBVIOUS
  <1>2. s \in Spaces /\ i \in Used(s)
    BY <1>1, OwnSpace DEF Munmap, InCall
  <1>3. Unmaps(s, i)
    BY <1>1 DEF Munmap, UnmapRegion, Unmaps
  <1> QED
    BY <1>2, <1>3, UnmapsFrames

LEMMA ThreadExitFrames ==
    ASSUME VInv, FInv, NEW c \in Cores, NEW i, ThreadExit(c, i)
    PROVE  FInv'
  <1>1. PICK s : s = run[c]
    OBVIOUS
  <1>2. s \in Spaces /\ i \in Used(s) /\ i \in InUse(as[s]) /\ as[s].vm[i].stack
    BY <1>1, OwnSpace, SpaceFacts DEF ThreadExit, VInv
  <1>3. as[s].vm[i].shm = 0
    BY <1>2 DEF FInv, StacksOwn, Sharing
  <1>4. Unmaps(s, i)
    BY <1>1, <1>3 DEF ThreadExit, Unmaps
  <1> QED
    BY <1>2, <1>4, UnmapsFrames

LEMMA UnrefFrames ==
    ASSUME VInv, FInv, NEW s \in Spaces, Unref(s), nextId' = nextId
    PROVE  FInv'
  <1>1. as \in [Spaces -> AsType] /\ Used(s) = InUse(as[s])
    BY SpaceFacts DEF VInv, SpaceTypes
  <1>2. CASE as[s].refs > 1
    <2>1. as' = [as EXCEPT ![s].refs = @ - 1] /\ UNCHANGED <<pt, segs, free>>
      BY <1>2 DEF Unref
    <2>2. \A t \in Spaces : as'[t].vm = as[t].vm
      BY <1>1, <2>1 DEF AsType
    <2> QED
      BY <2>1, <2>2, SameVmStep
  <1>3. CASE ~(as[s].refs > 1)
    <2>1. PICK I : I = Sharing(as[s])
      OBVIOUS
    <2>2. I = {i \in Used(s) : as[s].vm[i].shm # 0} /\ SharedIn(as[s]) = UNION {Span(as[s].vm[i]) : i \in I}
      BY <1>1, <2>1 DEF Sharing, SharedIn
    <2>3. /\ as' = [as EXCEPT ![s] = NoAs] /\ pt' = [pt EXCEPT ![s] = NoTlb] /\ segs' = Dropped(s, I)
          /\ free' = free \cup SegFreed(segs, segs') \cup FramesIn(s, Pages \ SharedIn(as[s]))
      BY <1>3, <2>2 DEF Unref
    <2>4. Emptied(pt[s], Pages) = NoTlb
      BY DEF Emptied, NoTlb
    <2>5. Sharing(NoAs) = {}
      BY Plain DEF Sharing
    <2>6. as'[s] = NoAs /\ \A t \in Spaces : t # s => as'[t] = as[t]
      BY <1>1, <2>3
    <2>7. Gives(as, as', s, I)
      BY <2>1, <2>5, <2>6 DEF Gives
    <2>8. \A i \in I : Span(as[s].vm[i]) \subseteq Pages
      BY <2>1, SpanIn DEF Sharing
    <2>9. Drops(s, I, Pages)
      BY <2>3, <2>4, <2>5, <2>6, <2>7, <2>8 DEF Drops
    <2> QED
      BY <2>9, DropStep
  <1> QED
    BY <1>2, <1>3

LEMMA TouchWriteFrames ==
    ASSUME VInv, FInv, NEW c \in Cores, NEW v \in Pages, TouchWrite(c, v)
    PROVE  FInv'
  <1>1. run[c] \in Spaces
    BY OwnSpace DEF TouchWrite, InCall
  <1>2. Build(run[c], v, "w") /\ UNCHANGED <<as, segs, nextId>>
    BY DEF TouchWrite
  <1> QED
    BY <1>1, <1>2, BuildFrames

LEMMA FaultFrames ==
    ASSUME VInv, FInv, NEW c \in Cores, Fault(c)
    PROVE  FInv'
  <1>1. run[c] # NoSpace /\ fault[c].page \in Pages
    BY DEF Fault, VInv, Faulting
  <1>2. PICK s, v, kind : s = run[c] /\ v = fault[c].page /\ kind = fault[c].kind
    OBVIOUS
  <1>3. s \in Spaces /\ v \in Pages
    BY <1>1, <1>2, OwnSpace
  <1>4. Build(s, v, kind) /\ UNCHANGED <<as, segs, nextId>>
    BY <1>2 DEF Fault
  <1> QED
    BY <1>3, <1>4, BuildFrames

LEMMA ExitFrames ==
    ASSUME VInv, FInv, NEW c \in Cores, Exit(c)
    PROVE  FInv'
  <1>1. run[c] \in Spaces
    BY OwnSpace DEF Exit
  <1>2. Unref(run[c]) /\ nextId' = nextId
    BY DEF Exit
  <1> QED
    BY <1>1, <1>2, UnrefFrames

LEMMA ReapFrames ==
    ASSUME VInv, FInv, NEW s \in Spaces, Reap(s)
    PROVE  FInv'
  <1>1. Unref(s) /\ nextId' = nextId
    BY DEF Reap
  <1> QED
    BY <1>1, UnrefFrames

----------------------------------------------------------------------------
(* The invariant of the frames.                                            *)

LEMMA InitFInv == Init => FInv
  <1> SUFFICES ASSUME Init PROVE FInv
    OBVIOUS
  <1>1. \A s \in Spaces : as[s] = NoAs /\ pt[s] = NoTlb
    BY DEF Init
  <1>2. \A k \in 1..NSegs : segs[k] = NoSeg
    BY DEF Init
  <1>3. Sharing(NoAs) = {}
    BY Plain DEF Sharing
  <1>4. \A s \in Spaces : OwnAll[s] = {}
    BY <1>1 DEF OwnAll, OwnIn, NoTlb
  <1>5. \A k \in 1..NSegs : SegAll[k] = {}
    BY <1>2 DEF SegAll, FramesOf, NoSeg
  <1>6. free = Frames
    BY DEF Init
  <1>7. Once
    BY <1>4, <1>5, <1>6 DEF Once, OnceOf
  <1>8. Backed /\ StacksOwn
    BY <1>1, <1>3 DEF Backed, StacksOwn
  <1>9. ~NoSeg.used
    BY DEF NoSeg
  <1>10. MapsCounted /\ SegIds
    BY <1>2, <1>9 DEF MapsCounted, SegIds
  <1> QED
    BY <1>7, <1>8, <1>10 DEF FInv

LEMMA CallsFInv ==
    ASSUME VInv, FInv, NEW c \in Cores, Calls(c)
    PROVE  FInv'
  <1>1. /\ MapProts \subseteq SUBSET Rights /\ Prots \subseteq SUBSET Rights /\ Lens(c) \subseteq Nat
    BY InputTypes DEF VInv
  <1>2. ASSUME NEW n \in Lens(c), ThreadCreate(c, n) \/ Grow(c, n) \/ Shrink(c, n) PROVE FInv'
    BY <1>1, <1>2, ThreadCreateFrames, BreakFrames
  <1>3. ASSUME NEW n \in Lens(c), NEW prot \in MapProts, Mmap(c, n, prot) PROVE FInv'
    BY <1>1, <1>3, MmapFrames
  <1>4. ASSUME NEW i \in Regions, Munmap(c, i) PROVE FInv'
    BY <1>4, MunmapFrames
  <1>5. ASSUME NEW i \in Regions, NEW prot \in Prots, Mprotect(c, i, prot) PROVE FInv'
    BY <1>1, <1>5, MprotectFrames
  <1>6. ASSUME NEW k \in 1..NSegs, NEW prot \in MapProts, ShmAttach(c, k, prot) PROVE FInv'
    BY <1>1, <1>6, ShmAttachFrames
  <1>7. ASSUME NEW v \in Pages, TouchWrite(c, v) PROVE FInv'
    BY <1>7, TouchWriteFrames
  <1> QED
    BY <1>2, <1>3, <1>4, <1>5, <1>6, <1>7 DEF Calls

LEMMA RunsFInv ==
    ASSUME VInv, FInv, NEW c \in Cores, Runs(c)
    PROVE  FInv'
  <1>1. ASSUME NEW v \in Pages, NEW kind \in KindsOf(c), Trap(c, v, kind) PROVE FInv'
    <2>1. UNCHANGED <<as, pt, free, segs, nextId>>
      BY <1>1 DEF Trap
    <2> QED
      BY <2>1, StillFrames
  <1>2. ASSUME NEW s \in Spaces, Resume(c, s) PROVE FInv'
    <2>1. UNCHANGED <<as, pt, free, segs, nextId>>
      BY <1>2 DEF Resume
    <2> QED
      BY <2>1, StillFrames
  <1>3. ASSUME NEW i \in Regions, ThreadExit(c, i) PROVE FInv'
    BY <1>3, ThreadExitFrames
  <1>4. CASE Walk(c) \/ Refused(c) \/ Leave(c)
    <2>1. UNCHANGED <<as, pt, free, segs, nextId>>
      BY <1>4 DEF Walk, Refused, Leave
    <2> QED
      BY <2>1, StillFrames
  <1>5. CASE Fault(c) \/ Exit(c)
    BY <1>5, FaultFrames, ExitFrames
  <1> QED
    BY <1>1, <1>2, <1>3, <1>4, <1>5 DEF Runs

LEMMA NextFInv == ASSUME VInv, FInv, [Next]_vars PROVE FInv'
  <1>1. ASSUME NEW c \in Cores, Calls(c) \/ Runs(c) PROVE FInv'
    BY <1>1, CallsFInv, RunsFInv
  <1>2. ASSUME NEW s \in Spaces, SpaceNew(s) \/ Reap(s) PROVE FInv'
    BY <1>2, SpaceNewFrames, ReapFrames
  <1>3. ASSUME NEW key \in Keys, NEW n \in 1..MaxSeg, ShmGet(key, n) PROVE FInv'
    <2>1. n \in Nat
      BY VmAssumption
    <2> QED
      BY <1>3, <2>1, ShmGetFrames
  <1>4. ASSUME NEW k \in 1..NSegs, ShmCtl(k) PROVE FInv'
    BY <1>4, ShmCtlFrames
  <1>5. CASE UNCHANGED vars
    <2>1. UNCHANGED <<as, pt, free, segs, nextId>>
      BY <1>5 DEF vars
    <2> QED
      BY <2>1, StillFrames
  <1> QED
    BY <1>1, <1>2, <1>3, <1>4, <1>5 DEF Next

\* The property, from the invariant.
LEMMA FInvFramesHeld == VInv /\ FInv => FramesHeld
  <1> SUFFICES ASSUME VInv, FInv PROVE FramesHeld
    OBVIOUS
  <1>1. ASSUME NEW s \in Spaces
        PROVE  Used(s) = InUse(as[s]) /\ SharedPages(s) = SharedIn(as[s]) /\ OwnPages(s) = OwnAll[s]
    <2>1. Used(s) = InUse(as[s])
      BY SpaceFacts DEF VInv
    <2>2. SharedPages(s) = SharedIn(as[s])
      BY <2>1 DEF SharedPages, SharedIn, Sharing
    <2> QED
      BY <2>1, <2>2 DEF OwnPages, OwnAll, OwnIn
  <1>2. \A f : f \in SegFrames(segs) <=> \E k \in 1..NSegs : f \in SegAll[k]
    BY DEF SegFrames, SegAll, FramesOf
  <1>3. \A k \in 1..NSegs : SegAll[k] = {segs[k].frames[i] : i \in DOMAIN segs[k].frames}
    BY DEF SegAll, FramesOf
  <1>4. FramesOnce
    <2>0. OnceOf(OwnAll, pt, free, SegAll)
      BY DEF FInv, Once
    <2>1. ASSUME NEW s \in Spaces, NEW v \in OwnPages(s)
          PROVE  pt[s][v].frame \notin free \cup SegFrames(segs)
      <3>1. v \in OwnAll[s]
        BY <1>1, <2>1
      <3>2. pt[s][v].frame \notin free /\ \A k \in 1..NSegs : pt[s][v].frame \notin SegAll[k]
        BY <2>0, <2>1, <3>1 DEF OnceOf
      <3> QED
        BY <1>2, <3>2
    <2>2. ASSUME NEW s \in Spaces, NEW v \in OwnPages(s), NEW t \in Spaces, NEW w \in OwnPages(t),
                 pt[s][v].frame = pt[t][w].frame
          PROVE  <<s, v>> = <<t, w>>
      <3>1. v \in OwnAll[s] /\ w \in OwnAll[t]
        BY <1>1, <2>2
      <3>2. \A x, y \in Spaces : \A z \in OwnAll[x], u \in OwnAll[y] :
                pt[x][z].frame = pt[y][u].frame => x = y /\ z = u
        BY <2>0 DEF OnceOf
      <3>3. s = t /\ v = w
        BY <2>2, <3>1, <3>2
      <3> QED
        BY <3>3
    <2>3. free \cap SegFrames(segs) = {}
      BY <1>2, <2>0 DEF OnceOf
    <2>4. ASSUME NEW j \in 1..NSegs, NEW k \in 1..NSegs, j # k
          PROVE  {segs[j].frames[i] : i \in DOMAIN segs[j].frames} \cap
                 {segs[k].frames[i] : i \in DOMAIN segs[k].frames} = {}
      <3>1. SegAll[j] \cap SegAll[k] = {}
        BY <2>0, <2>4 DEF OnceOf
      <3> QED
        BY <1>3, <3>1
    <2>5. Frames = free \cup SegFrames(segs) \cup UNION {{pt[s][v].frame : v \in OwnPages(s)} : s \in Spaces}
      <3> SUFFICES ASSUME NEW f
                   PROVE  f \in Frames <=> \/ f \in free \/ f \in SegFrames(segs)
                                           \/ \E s \in Spaces : \E v \in OwnPages(s) : f = pt[s][v].frame
        OBVIOUS
      <3>1. f \in Frames <=> \/ f \in free \/ \E k \in 1..NSegs : f \in SegAll[k]
                             \/ \E s \in Spaces : \E v \in OwnAll[s] : f = pt[s][v].frame
        BY <2>0 DEF OnceOf
      <3> QED
        BY <1>1, <1>2, <3>1
    <2> QED
      BY <2>1, <2>2, <2>3, <2>4, <2>5, ZenonT(40) DEF FramesOnce
  <1>5. SegmentsHeld
    <2>1. ASSUME NEW s \in Spaces, NEW i \in Used(s), as[s].vm[i].shm # 0
          PROVE  \E k \in 1..NSegs :
               /\ segs[k].used /\ segs[k].id = as[s].vm[i].shm - 1
               /\ as[s].vm[i].len = Len(segs[k].frames)
               /\ \A v \in Span(as[s].vm[i]) :
                      pt[s][v].frame = segs[k].frames[v - as[s].vm[i].base + 1]
      <3>1. i \in Sharing(as[s])
        BY <1>1, <2>1 DEF Sharing
      <3>2. PICK k \in 1..NSegs : MappedBy(as[s].vm[i], pt[s], segs[k])
        BY <2>1, <3>1 DEF FInv, Backed
      <3> QED
        BY <3>2 DEF MappedBy
    <2>2. ASSUME NEW k \in 1..NSegs, segs[k].used
          PROVE  /\ segs[k].maps = Cardinality({p \in Spaces \X Regions :
                        p[2] \in Used(p[1]) /\ as[p[1]].vm[p[2]].shm = segs[k].id + 1})
                 /\ segs[k].removed => segs[k].maps > 0
      <3>1. PICK id : id = segs[k].id
        OBVIOUS
      <3>2. id \in 0..MaxId
        BY <2>2, <3>1 DEF VInv, MemTypes, SegType
      <3>3. id + 1 # 0
        BY <3>2, Numbers
      <3>4. ASSUME NEW p \in Spaces \X Regions
            PROVE  p[2] \in Used(p[1]) /\ as[p[1]].vm[p[2]].shm = id + 1
                   <=> p[2] \in Sharing(as[p[1]]) /\ as[p[1]].vm[p[2]].shm = id + 1
        <4>1. PICK s \in Spaces, i \in Regions : s = p[1] /\ i = p[2]
          BY <3>4
        <4>2. Used(s) = InUse(as[s])
          BY <1>1, <4>1
        <4>3. i \in Used(s) /\ as[s].vm[i].shm = id + 1 <=> i \in Sharing(as[s]) /\ as[s].vm[i].shm = id + 1
          BY <3>3, <4>2 DEF Sharing
        <4> QED
          BY <4>1, <4>3
      <3>5. {p \in Spaces \X Regions : p[2] \in Used(p[1]) /\ as[p[1]].vm[p[2]].shm = id + 1} = MapsOf(as, id)
        BY <3>4, Zenon DEF MapsOf
      <3>6. segs[k].maps = Cardinality(MapsOf(as, id)) /\ (segs[k].removed => segs[k].maps > 0)
        BY <2>2, <3>1 DEF FInv, MapsCounted
      <3> QED
        BY <3>1, <3>5, <3>6
    <2> QED
      BY <2>1, <2>2 DEF SegmentsHeld
  <1> QED
    BY <1>4, <1>5 DEF FramesHeld

\* No frame is in two places, is freed while a page or a segment has it, or is
\* lost; a region of shared memory keeps every page of its segment, and a
\* segment counts the regions that have it.
THEOREM VmFramesHeld ==
    ASSUME ~Leftovers
    PROVE  Spec => []FramesHeld
  <1>1. Init => FInv
    BY InitFInv
  <1>2. VInv /\ FInv /\ [Next]_vars => FInv'
    BY NextFInv
  <1>3. VInv /\ FInv => FramesHeld
    BY FInvFramesHeld
  <1> QED
    BY <1>1, <1>2, <1>3, VmInvariant, PTL DEF Spec

=============================================================================
