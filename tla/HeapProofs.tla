----------------------------- MODULE HeapProofs -----------------------------
(***************************************************************************)
(* The kernel heap's properties, for any number of frames and owners, any  *)
(* sizes and any number of attempts: the block list is sound (ListSound),  *)
(* kmalloc fails only if nothing fits (NullOnlyIfFull), and heap and frame *)
(* allocator implement the abstract one (Allocates).                       *)
(*                                                                         *)
(* The argument turns on one relation between lists, Cut: one has the      *)
(* blocks i and i + 1 where the other has the block i.  split_block makes  *)
(* such a cut, coalesce and the end of grow_heap undo one, and neither     *)
(* direction changes which units the list covers or brings blocks to       *)
(* overlap.                                                                *)
(***************************************************************************)
EXTENDS Heap, TLAPS, FiniteSetTheorems, SequenceTheorems, WellFoundedInduction

----------------------------------------------------------------------------
(* The inductive invariant.                                                *)

Block == [at : Nat, size : Nat \ {0}, free : BOOLEAN]

Types ==
    /\ blocks \in Seq(Block)
    /\ bitmap \subseteq Frames /\ others \subseteq Frames /\ bitmap \cap others = {}
    /\ ptr \in [Owners -> Nat] /\ old \in [Owners -> Nat]

\* The blocks of a list do not overlap; no two of them that follow one another
\* could be one.
Separate(s) == \A i, j \in 1..Len(s) : i # j => End(s[i]) <= s[j].at \/ End(s[j]) <= s[i].at
Tight(s) == \A i \in 1..(Len(s) - 1) : ~(s[i].free /\ s[i + 1].free /\ End(s[i]) = s[i + 1].at)

\* The units of a list, and of a set of frames.
UnitsOf(s) == UNION {Extent(s[i]) : i \in 1..Len(s)}
UnitsIn(F) == UNION {FrameUnits(f) : f \in F}

\* The blocks of a list in use, as their holders see them.
UsedIn(s) == {<<s[i].at + Header, s[i].size>> : i \in {j \in 1..Len(s) : ~s[j].free}}

\* A place somebody may hold a block at.
Places == Owners \X {"ptr", "old"}
Val(p) == IF p[2] = "ptr" THEN ptr[p[1]] ELSE old[p[1]]

\* What is held is in use, nothing is held twice, and what is in use is held.
Holding ==
    /\ \A p \in Places : Val(p) # 0 => \E u \in UsedIn(blocks) : u[1] = Val(p)
    /\ \A p, q \in Places : Val(p) # 0 /\ Val(p) = Val(q) => p = q
    /\ \A u \in UsedIn(blocks) : \E p \in Places : Val(p) = u[1]

\* A kmalloc that grows the heap: nothing that is free would do, and what its
\* krealloc holds is still where it was.
Growing ==
    grow # NoGrow =>
        /\ grow \in [own : Owners, want : Nat \ {0}, count : Nat \ {0}, tries : Nat, from : Nat]
        /\ grow.from = ptr[grow.own] /\ old[grow.own] = 0
        /\ \A i \in Index : blocks[i].free => blocks[i].size < grow.want

HInv ==
    /\ Types
    /\ Separate(blocks) /\ Tight(blocks) /\ UnitsOf(blocks) = UnitsIn(HeapFrames)
    /\ Holding /\ Growing

----------------------------------------------------------------------------
(* Numbers and sets of them.                                               *)

\* A nonempty set of numbers has a least one.
LEMMA LeastNat ==
    ASSUME NEW T \in SUBSET Nat, T # {}
    PROVE  \E x \in T : \A y \in T : x <= y
  <1>1. PICK x \in T : \A y \in T : <<y, x>> \notin OpToRel(<, Nat)
    BY NatLessThanWellFounded, WFMin
  <1>2. \A y \in T : <<y, x>> \in OpToRel(<, Nat) <=> y < x
    BY DEF OpToRel
  <1>3. \A y \in T : ~(y < x)
    BY <1>1, <1>2
  <1> QED
    BY <1>3

LEMMA MinFacts ==
    ASSUME NEW T \in SUBSET Nat, T # {}
    PROVE  Min(T) \in T /\ \A y \in T : Min(T) <= y
  BY LeastNat DEF Min

\* A bounded one has a greatest.
LEMMA MaxFacts ==
    ASSUME NEW T \in SUBSET Nat, T # {}, NEW b \in Nat, \A x \in T : x <= b
    PROVE  Max(T) \in T /\ \A y \in T : y <= Max(T)
  <1> DEFINE U == {k \in Nat : \E x \in T : k = b - x}
  <1>1. U \in SUBSET Nat /\ U # {}
    <2>1. PICK x \in T : x \in Nat /\ x <= b
      OBVIOUS
    <2>2. b - x \in U
      BY <2>1
    <2> QED
      BY <2>2
  <1>2. PICK k \in U : \A y \in U : k <= y
    BY <1>1, LeastNat
  <1>3. PICK x \in T : k = b - x
    BY <1>2
  <1>4. \A y \in T : x >= y
    <2> SUFFICES ASSUME NEW y \in T PROVE x >= y
      OBVIOUS
    <2>1. b - y \in U /\ y \in Nat /\ x \in Nat
      OBVIOUS
    <2>2. k <= b - y
      BY <1>2, <2>1
    <2> QED
      BY <1>3, <2>1, <2>2
  <1>5. Max(T) \in T /\ \A y \in T : Max(T) >= y
    BY <1>4 DEF Max
  <1> QED
    BY <1>5

\* Multiplication and division, as SMT needs to be told of them.
LEMMA Times ==
    ASSUME NEW f \in Nat, NEW n \in Nat, NEW P \in Nat
    PROVE  f * P \in Nat /\ (f + n) * P = f * P + n * P /\ (n > 0 => n * P >= P)
  OBVIOUS

LEMMA TimesLess ==
    ASSUME NEW f \in Nat, NEW g \in Nat, NEW P \in Nat, f < g
    PROVE  f * P + P <= g * P
  OBVIOUS

LEMMA Divided ==
    ASSUME NEW x \in Nat, NEW P \in Nat, P > 0
    PROVE  /\ x \div P \in Nat /\ (x \div P) * P <= x /\ x < (x \div P) * P + P
           /\ x >= P => x \div P >= 1
  OBVIOUS

LEMMA Sums ==
    /\ \A a, z, m \in Nat : a + 2 + z + 2 + m = a + 2 + (z + 2 + m) /\ z + 2 + m \in Nat \ {0}
    /\ \A a, z, w \in Nat : ~(z - w <= 3) =>
          /\ a + 2 + w \in Nat /\ z - w - 2 \in Nat \ {0}
          /\ a + 2 + w + 2 + (z - w - 2) = a + 2 + z
  OBVIOUS

LEMMA Spans ==
    ASSUME NEW x \in Nat, NEW y \in Nat, NEW z, z \in (x + 2)..(x + 2 + y - 1)
    PROVE  z \in Nat /\ x <= z /\ z < x + 2 + y
  OBVIOUS

LEMMA Halved == \A n \in Nat : n > 1 => n \div 2 \in Nat \ {0}
  OBVIOUS

----------------------------------------------------------------------------
(* Frames and their units.                                                 *)

LEMMA Numbers ==
    /\ Header = 2 /\ PageSize \in Nat /\ PageSize > 2 /\ Frames \subseteq Nat \ {0}
    /\ \A want \in Nat \ {0} : Needed(want) \in Nat \ {0}
  <1>1. Header = 2 /\ PageSize \in Nat /\ PageSize > 2 /\ Frames \subseteq Nat \ {0}
    BY HeapAssumption DEF Header, Frames
  <1>2. ASSUME NEW want \in Nat \ {0} PROVE Needed(want) \in Nat \ {0}
    <2>1. PICK x \in Nat : x = Header + want + PageSize - 1 /\ x >= PageSize
      BY <1>1
    <2>2. x \div PageSize \in Nat /\ x \div PageSize >= 1
      BY <1>1, <2>1, Divided
    <2> QED
      BY <2>1, <2>2 DEF Needed
  <1> QED
    BY <1>1, <1>2

\* The frame a unit is in.
LEMMA UnitFrame ==
    ASSUME NEW f \in Nat, NEW u \in Nat
    PROVE  u \in FrameUnits(f) <=> u \div PageSize = f
  <1>1. PICK P : P = PageSize
    OBVIOUS
  <1>2. P \in Nat /\ P > 0
    BY <1>1, Numbers
  <1>3. PICK g \in Nat : g = u \div P /\ g * P <= u /\ u < g * P + P
    BY <1>2, Divided
  <1>4. f * P \in Nat /\ g * P \in Nat
    BY <1>2, Times
  <1>5. f < g => f * P + P <= g * P
    BY <1>2, TimesLess
  <1>6. g < f => g * P + P <= f * P
    BY <1>2, TimesLess
  <1>7. u \in FrameUnits(f) <=> f * P <= u /\ u < f * P + P
    BY <1>1, <1>2, <1>4 DEF FrameUnits
  <1> QED
    BY <1>1, <1>2, <1>3, <1>4, <1>5, <1>6, <1>7

LEMMA UnitsInFacts ==
    ASSUME NEW F \in SUBSET Nat
    PROVE  UnitsIn(F) = {u \in Nat : u \div PageSize \in F}
  <1>1. ASSUME NEW f \in F PROVE FrameUnits(f) \subseteq Nat
    BY <1>1, Numbers, Times DEF FrameUnits
  <1>2. ASSUME NEW u, u \in UnitsIn(F) PROVE u \in Nat /\ u \div PageSize \in F
    <2>1. PICK f \in F : u \in FrameUnits(f)
      BY <1>2 DEF UnitsIn
    <2>2. u \in Nat /\ f \in Nat
      BY <1>1, <2>1
    <2> QED
      BY <2>1, <2>2, UnitFrame
  <1>3. ASSUME NEW u \in Nat, u \div PageSize \in F PROVE u \in UnitsIn(F)
    <2>1. PICK f \in F : f = u \div PageSize
      BY <1>3
    <2>2. u \in FrameUnits(f)
      BY <2>1, UnitFrame
    <2> QED
      BY <2>1, <2>2 DEF UnitsIn
  <1> QED
    BY <1>2, <1>3

\* The block of a run of frames has exactly their units.
LEMMA RunUnits ==
    ASSUME NEW f \in Nat, NEW n \in Nat \ {0}
    PROVE  RunBlock(f, n) \in Block /\ Extent(RunBlock(f, n)) = UnitsIn(f..(f + n - 1))
  <1>1. PICK P : P = PageSize
    OBVIOUS
  <1>2. P \in Nat /\ P > 2 /\ Header = 2
    BY <1>1, Numbers
  <1>3. PICK F : F = f * P /\ F \in Nat
    BY <1>2, Times
  <1>4. PICK M : M = n * P /\ M \in Nat /\ M >= P /\ (f + n) * P = F + M
    BY <1>2, <1>3, Times
  <1>5. RunBlock(f, n) = [at |-> F, size |-> M - 2, free |-> TRUE]
    BY <1>1, <1>2, <1>3, <1>4 DEF RunBlock
  <1>6. RunBlock(f, n) \in Block
    BY <1>2, <1>3, <1>4, <1>5 DEF Block
  <1>7. Extent(RunBlock(f, n)) = F..(F + M - 1)
    BY <1>2, <1>3, <1>4, <1>5 DEF Extent, End
  <1>8. ASSUME NEW u \in Nat PROVE u \in F..(F + M - 1) <=> u \div P \in f..(f + n - 1)
    <2>1. PICK g \in Nat : g = u \div P /\ g * P <= u /\ u < g * P + P
      BY <1>2, Divided
    <2>2. g * P \in Nat
      BY <1>2, Times
    <2>3. g < f => g * P + P <= F
      BY <1>2, <1>3, TimesLess
    <2>4. g < f + n => g * P + P <= F + M
      BY <1>2, <1>4, TimesLess
    <2>5. f < g => F + P <= g * P
      BY <1>2, <1>3, TimesLess
    <2>6. f + n < g => F + M + P <= g * P
      BY <1>2, <1>4, TimesLess
    <2>7. g = f => g * P = F
      BY <1>3
    <2>8. g = f + n => g * P = F + M
      BY <1>4
    <2>9. u >= F <=> g >= f
      BY <1>2, <1>3, <2>1, <2>2, <2>3, <2>5, <2>7
    <2>10. u < F + M <=> g < f + n
      BY <1>2, <1>3, <1>4, <2>1, <2>2, <2>4, <2>6, <2>8
    <2> QED
      BY <1>3, <1>4, <2>1, <2>9, <2>10
  <1>9. f..(f + n - 1) \in SUBSET Nat
    OBVIOUS
  <1>10. F..(F + M - 1) \subseteq Nat
    BY <1>3, <1>4
  <1> QED
    BY <1>1, <1>6, <1>7, <1>8, <1>9, <1>10, UnitsInFacts

----------------------------------------------------------------------------
(* Lists of blocks.                                                        *)

LEMMA BlockFacts ==
    ASSUME NEW b \in Block
    PROVE  /\ b.at \in Nat /\ b.size \in Nat /\ b.size > 0 /\ b.free \in BOOLEAN
           /\ End(b) \in Nat /\ End(b) = b.at + 2 + b.size /\ b.at < End(b)
           /\ \A u : u \in Extent(b) <=> u \in Nat /\ b.at <= u /\ u < End(b)
  <1>1. b.at \in Nat /\ b.size \in Nat /\ b.size > 0 /\ b.free \in BOOLEAN
    BY DEF Block
  <1>2. End(b) \in Nat /\ End(b) = b.at + 2 + b.size /\ b.at < End(b)
    BY <1>1, Numbers DEF End
  <1>3. \A u : u \in Extent(b) <=> u \in Nat /\ b.at <= u /\ u < End(b)
    BY <1>1, <1>2 DEF Extent
  <1> QED
    BY <1>1, <1>2, <1>3

LEMMA InList ==
    ASSUME NEW s \in Seq(Block)
    PROVE  Len(s) \in Nat /\ \A i \in 1..Len(s) : s[i] \in Block
  OBVIOUS

\* Blocks that are apart have no unit in common, and the other way round.
LEMMA Disjoint ==
    ASSUME NEW b \in Block, NEW c \in Block
    PROVE  (End(b) <= c.at \/ End(c) <= b.at) <=> Extent(b) \cap Extent(c) = {}
  <1>1. PICK x, y, v, w \in Nat : x = b.at /\ y = End(b) /\ v = c.at /\ w = End(c) /\ x < y /\ v < w
    BY BlockFacts
  <1>2. \A u : u \in Extent(b) <=> u \in Nat /\ x <= u /\ u < y
    BY <1>1, BlockFacts
  <1>3. \A u : u \in Extent(c) <=> u \in Nat /\ v <= u /\ u < w
    BY <1>1, BlockFacts
  <1>4. ASSUME y <= v \/ w <= x PROVE Extent(b) \cap Extent(c) = {}
    BY <1>1, <1>2, <1>3, <1>4
  <1>5. ASSUME Extent(b) \cap Extent(c) = {} PROVE y <= v \/ w <= x
    <2>1. CASE x <= v
      <3>1. v \in Extent(c)
        BY <1>1, <1>3
      <3>2. v \notin Extent(b)
        BY <1>5, <3>1
      <3> QED
        BY <1>1, <1>2, <2>1, <3>2
    <2>2. CASE v <= x
      <3>1. x \in Extent(b)
        BY <1>1, <1>2
      <3>2. x \notin Extent(c)
        BY <1>5, <3>1
      <3> QED
        BY <1>1, <1>3, <2>2, <3>2
    <2> QED
      BY <1>1, <2>1, <2>2
  <1> QED
    BY <1>1, <1>4, <1>5

\* In a list whose blocks are apart, where a block begins tells which it is.
LEMMA AtTells ==
    ASSUME NEW s \in Seq(Block), Separate(s), NEW i \in 1..Len(s), NEW j \in 1..Len(s), s[i].at = s[j].at
    PROVE  i = j
  <1>1. s[i] \in Block /\ s[j] \in Block
    BY InList
  <1>2. PICK x, y, z \in Nat : x = s[i].at /\ y = End(s[i]) /\ z = End(s[j]) /\ x < y /\ x < z
    BY <1>1, BlockFacts
  <1>3. ~(y <= x) /\ ~(z <= x)
    BY <1>2
  <1> QED
    BY <1>2, <1>3 DEF Separate

\* Two lists that are the same but for whether blocks are free.
SamePlaces(s, t) ==
    /\ s \in Seq(Block) /\ t \in Seq(Block) /\ Len(t) = Len(s)
    /\ \A i \in 1..Len(s) : t[i].at = s[i].at /\ t[i].size = s[i].size

LEMMA SameUnits ==
    ASSUME NEW s, NEW t, SamePlaces(s, t)
    PROVE  UnitsOf(t) = UnitsOf(s) /\ (Separate(s) => Separate(t))
  <1>1. \A i \in 1..Len(s) : Extent(t[i]) = Extent(s[i]) /\ End(t[i]) = End(s[i]) /\ t[i].at = s[i].at
    BY DEF SamePlaces, Extent, End
  <1>2. Len(t) = Len(s)
    BY DEF SamePlaces
  <1>3. UnitsOf(t) = UnitsOf(s)
    BY <1>1, <1>2 DEF UnitsOf
  <1>4. Separate(s) => Separate(t)
    BY <1>1, <1>2 DEF Separate
  <1> QED
    BY <1>3, <1>4

\* The list t has the two blocks i and i + 1 where s has the block i.
Cut(s, t, i) ==
    /\ s \in Seq(Block) /\ t \in Seq(Block) /\ i \in 1..Len(s) /\ Len(t) = Len(s) + 1
    /\ \A j \in 1..(i - 1) : t[j] = s[j]
    /\ \A j \in (i + 1)..Len(s) : t[j + 1] = s[j]
    /\ t[i].at = s[i].at /\ End(t[i]) = t[i + 1].at /\ End(t[i + 1]) = End(s[i])

\* Where in s a block of t is from.
Origin(i, j) == IF j <= i THEN j ELSE j - 1

LEMMA CutNumbers ==
    ASSUME NEW s, NEW t, NEW i, Cut(s, t, i)
    PROVE  /\ Len(s) \in Nat /\ Len(t) \in Nat /\ i \in Nat /\ i >= 1 /\ i <= Len(s)
           /\ i \in 1..Len(t) /\ i + 1 \in 1..Len(t) /\ s[i] \in Block /\ t[i] \in Block /\ t[i + 1] \in Block
           /\ s[i].at < End(s[i]) /\ s[i].at < t[i + 1].at /\ t[i + 1].at < End(s[i])
           /\ s[i].at \in Nat /\ t[i + 1].at \in Nat /\ End(s[i]) \in Nat
  <1>1. Len(s) \in Nat /\ Len(t) \in Nat /\ i \in 1..Len(s) /\ Len(t) = Len(s) + 1
    BY DEF Cut
  <1>2. i \in Nat /\ i >= 1 /\ i <= Len(s) /\ i \in 1..Len(t) /\ i + 1 \in 1..Len(t)
    BY <1>1
  <1>3. s[i] \in Block /\ t[i] \in Block /\ t[i + 1] \in Block
    BY <1>1, <1>2, InList DEF Cut
  <1>4. t[i].at = s[i].at /\ End(t[i]) = t[i + 1].at /\ End(t[i + 1]) = End(s[i])
    BY DEF Cut
  <1>5. s[i].at < End(s[i]) /\ t[i].at < End(t[i]) /\ t[i + 1].at < End(t[i + 1])
    BY <1>3, BlockFacts
  <1>6. s[i].at \in Nat /\ t[i + 1].at \in Nat /\ End(s[i]) \in Nat
    BY <1>3, BlockFacts
  <1> QED
    BY <1>1, <1>2, <1>3, <1>4, <1>5, <1>6

LEMMA CutOrigins ==
    ASSUME NEW s, NEW t, NEW i, Cut(s, t, i), NEW j \in 1..Len(t)
    PROVE  /\ Origin(i, j) \in 1..Len(s)
           /\ j # i /\ j # i + 1 => t[j] = s[Origin(i, j)] /\ Origin(i, j) # i
           /\ j = i \/ j = i + 1 => Origin(i, j) = i
  <1>1. Len(s) \in Nat /\ i \in Nat /\ i >= 1 /\ i <= Len(s) /\ Len(t) = Len(s) + 1
    BY CutNumbers DEF Cut
  <1>2. j \in Nat /\ j >= 1 /\ j <= Len(s) + 1
    BY <1>1
  <1>3. CASE j < i
    <2>1. j \in 1..(i - 1) /\ Origin(i, j) = j /\ j \in 1..Len(s) /\ j # i /\ j # i + 1
      BY <1>1, <1>2, <1>3 DEF Origin
    <2> QED
      BY <2>1 DEF Cut
  <1>4. CASE j = i \/ j = i + 1
    BY <1>1, <1>2, <1>4 DEF Origin
  <1>5. CASE j > i + 1
    <2>1. PICK k \in (i + 1)..Len(s) : j = k + 1
      BY <1>1, <1>2, <1>5
    <2>2. Origin(i, j) = k /\ k \in 1..Len(s) /\ k # i /\ j # i /\ j # i + 1
      BY <1>1, <1>2, <1>5, <2>1 DEF Origin
    <2> QED
      BY <2>1, <2>2 DEF Cut
  <1> QED
    BY <1>1, <1>2, <1>3, <1>4, <1>5

\* And where in t a block of s is.
LEMMA CutPlaces ==
    ASSUME NEW s, NEW t, NEW i, Cut(s, t, i), NEW k \in 1..Len(s), k # i
    PROVE  \E j \in 1..Len(t) : t[j] = s[k] /\ j # i /\ j # i + 1 /\ Origin(i, j) = k
  <1>1. Len(s) \in Nat /\ i \in Nat /\ i >= 1 /\ i <= Len(s) /\ Len(t) = Len(s) + 1 /\ k \in Nat
    BY CutNumbers DEF Cut
  <1>2. CASE k < i
    <2>1. k \in 1..(i - 1) /\ Origin(i, k) = k /\ k \in 1..Len(t) /\ k # i /\ k # i + 1
      BY <1>1, <1>2 DEF Origin
    <2> QED
      BY <2>1 DEF Cut
  <1>3. CASE k > i
    <2>1. k \in (i + 1)..Len(s) /\ Origin(i, k + 1) = k /\ k + 1 \in 1..Len(t) /\ k + 1 # i /\ k + 1 # i + 1
      BY <1>1, <1>3 DEF Origin
    <2> QED
      BY <2>1 DEF Cut
  <1> QED
    BY <1>1, <1>2, <1>3

LEMMA CutUnits ==
    ASSUME NEW s, NEW t, NEW i, Cut(s, t, i)
    PROVE  UnitsOf(t) = UnitsOf(s)
  <1>1. \A u : u \in Extent(s[i]) <=> u \in Extent(t[i]) \/ u \in Extent(t[i + 1])
    <2>1. PICK x, y, z \in Nat : x = s[i].at /\ y = t[i + 1].at /\ z = End(s[i]) /\ x < y /\ y < z
      BY CutNumbers
    <2>2. t[i].at = x /\ End(t[i]) = y /\ End(t[i + 1]) = z
      BY <2>1 DEF Cut
    <2>3. \A u : u \in Extent(s[i]) <=> u \in Nat /\ x <= u /\ u < z
      BY <2>1, CutNumbers, BlockFacts
    <2>4. \A u : u \in Extent(t[i]) <=> u \in Nat /\ x <= u /\ u < y
      BY <2>2, CutNumbers, BlockFacts
    <2>5. \A u : u \in Extent(t[i + 1]) <=> u \in Nat /\ y <= u /\ u < z
      BY <2>1, <2>2, CutNumbers, BlockFacts
    <2> QED
      BY <2>1, <2>3, <2>4, <2>5
  <1>2. i \in 1..Len(s) /\ i \in 1..Len(t) /\ i + 1 \in 1..Len(t)
    BY CutNumbers DEF Cut
  <1>3. ASSUME NEW u, NEW j \in 1..Len(t), u \in Extent(t[j]) PROVE \E k \in 1..Len(s) : u \in Extent(s[k])
    <2>1. CASE j = i \/ j = i + 1
      BY <1>1, <1>2, <1>3, <2>1
    <2>2. CASE j # i /\ j # i + 1
      BY <1>3, <2>2, CutOrigins
    <2> QED
      BY <2>1, <2>2
  <1>4. ASSUME NEW u, NEW k \in 1..Len(s), u \in Extent(s[k]) PROVE \E j \in 1..Len(t) : u \in Extent(t[j])
    <2>1. CASE k = i
      BY <1>1, <1>2, <1>4, <2>1
    <2>2. CASE k # i
      <3>1. PICK j \in 1..Len(t) : t[j] = s[k]
        BY <2>2, CutPlaces
      <3> QED
        BY <1>4, <3>1
    <2> QED
      BY <2>1, <2>2
  <1> QED
    BY <1>3, <1>4 DEF UnitsOf

\* Two blocks, from where they begin and end.
LEMMA CutSeparate ==
    ASSUME NEW s, NEW t, NEW i, Cut(s, t, i), Separate(s)
    PROVE  Separate(t)
  <1> SUFFICES ASSUME NEW j \in 1..Len(t), NEW k \in 1..Len(t), j # k
               PROVE  End(t[j]) <= t[k].at \/ End(t[k]) <= t[j].at
    BY DEF Separate
  <1>1. PICK x, y, z \in Nat : x = s[i].at /\ y = t[i + 1].at /\ z = End(s[i]) /\ x < y /\ y < z
    BY CutNumbers, SMTT(60)
  <1>2. t[i].at = x /\ End(t[i]) = y /\ End(t[i + 1]) = z
    BY <1>1 DEF Cut
  <1>3. i \in 1..Len(s) /\ i \in Nat
    BY CutNumbers DEF Cut
  <1>4. ASSUME NEW l \in 1..Len(t), l # i, l # i + 1
        PROVE  /\ t[l].at \in Nat /\ End(t[l]) \in Nat
               /\ End(t[l]) <= x \/ z <= t[l].at
    <2>1. t[l] = s[Origin(i, l)] /\ Origin(i, l) # i /\ Origin(i, l) \in 1..Len(s)
      BY <1>4, CutOrigins
    <2>2. s[Origin(i, l)] \in Block
      BY <2>1, InList DEF Cut
    <2>3. t[l].at \in Nat /\ End(t[l]) \in Nat
      BY <2>1, <2>2, BlockFacts
    <2>4. End(s[Origin(i, l)]) <= s[i].at \/ End(s[i]) <= s[Origin(i, l)].at
      BY <1>3, <2>1 DEF Separate
    <2> QED
      BY <1>1, <2>1, <2>3, <2>4
  <1>5. CASE j \in {i, i + 1} /\ k \in {i, i + 1}
    BY <1>1, <1>2, <1>3, <1>5
  <1>6. CASE j \in {i, i + 1} /\ k \notin {i, i + 1}
    <2>1. PICK v, w \in Nat : v = t[k].at /\ w = End(t[k]) /\ (w <= x \/ z <= v)
      BY <1>4, <1>6
    <2>2. PICK p, q \in Nat : p = t[j].at /\ q = End(t[j]) /\ ((p = x /\ q = y) \/ (p = y /\ q = z))
      BY <1>1, <1>2, <1>6
    <2>3. w <= p \/ q <= v
      BY <1>1, <2>1, <2>2, SMTT(60)
    <2> QED
      BY <2>1, <2>2, <2>3
  <1>7. CASE j \notin {i, i + 1} /\ k \in {i, i + 1}
    <2>1. PICK v, w \in Nat : v = t[j].at /\ w = End(t[j]) /\ (w <= x \/ z <= v)
      BY <1>4, <1>7
    <2>2. PICK p, q \in Nat : p = t[k].at /\ q = End(t[k]) /\ ((p = x /\ q = y) \/ (p = y /\ q = z))
      BY <1>1, <1>2, <1>7
    <2>3. w <= p \/ q <= v
      BY <1>1, <2>1, <2>2, SMTT(60)
    <2> QED
      BY <2>1, <2>2, <2>3
  <1>8. CASE j \notin {i, i + 1} /\ k \notin {i, i + 1}
    <2>1. /\ t[j] = s[Origin(i, j)] /\ Origin(i, j) \in 1..Len(s)
          /\ t[k] = s[Origin(i, k)] /\ Origin(i, k) \in 1..Len(s)
      BY <1>8, CutOrigins
    <2>2. Origin(i, j) # Origin(i, k)
      <3>1. j \in Nat /\ k \in Nat
        BY CutNumbers
      <3> QED
        BY <1>3, <1>8, <3>1 DEF Origin
    <2> QED
      BY <2>1, <2>2 DEF Separate
  <1> QED
    BY <1>5, <1>6, <1>7, <1>8

LEMMA JoinSeparate ==
    ASSUME NEW s, NEW t, NEW i, Cut(s, t, i), Separate(t)
    PROVE  Separate(s)
  <1> SUFFICES ASSUME NEW j \in 1..Len(s), NEW k \in 1..Len(s), j # k
               PROVE  End(s[j]) <= s[k].at \/ End(s[k]) <= s[j].at
    BY DEF Separate
  <1>1. PICK x, y, z \in Nat : x = s[i].at /\ y = t[i + 1].at /\ z = End(s[i]) /\ x < y /\ y < z
    BY CutNumbers
  <1>2. t[i].at = x /\ End(t[i]) = y /\ End(t[i + 1]) = z /\ i \in 1..Len(t) /\ i + 1 \in 1..Len(t) /\ i # i + 1
    BY <1>1, CutNumbers DEF Cut
  <1>3. ASSUME NEW l \in 1..Len(s), l # i PROVE End(s[l]) <= x \/ z <= s[l].at
    <2>1. PICK m \in 1..Len(t) : t[m] = s[l] /\ m # i /\ m # i + 1
      BY <1>3, CutPlaces
    <2>2. s[l] \in Block
      BY InList DEF Cut
    <2>3. PICK v, w \in Nat : v = s[l].at /\ w = End(s[l]) /\ v < w
      BY <2>2, BlockFacts
    <2>4. w <= x \/ y <= v
      BY <1>2, <2>1, <2>3 DEF Separate
    <2>5. w <= y \/ z <= v
      BY <1>1, <1>2, <2>1, <2>3 DEF Separate
    <2> QED
      BY <1>1, <2>3, <2>4, <2>5, SMTT(60)
  <1>4. CASE j = i
    BY <1>1, <1>3, <1>4
  <1>5. CASE k = i
    BY <1>1, <1>3, <1>5
  <1>6. CASE j # i /\ k # i
    <2>1. PICK m \in 1..Len(t) : t[m] = s[j] /\ Origin(i, m) = j
      BY <1>6, CutPlaces
    <2>2. PICK n \in 1..Len(t) : t[n] = s[k] /\ Origin(i, n) = k
      BY <1>6, CutPlaces
    <2>3. m # n
      BY <2>1, <2>2
    <2> QED
      BY <2>1, <2>2, <2>3 DEF Separate
  <1> QED
    BY <1>4, <1>5, <1>6

\* The blocks in use of the two lists, if the two parts are not, or the first is
\* handed out.
LEMMA CutUsed ==
    ASSUME NEW s, NEW t, NEW i, Cut(s, t, i), s[i].free, t[i].free, t[i + 1].free
    PROVE  UsedIn(t) = UsedIn(s)
  <1>1. ASSUME NEW j \in 1..Len(t), ~t[j].free
        PROVE  \E k \in 1..Len(s) : s[k] = t[j]
    BY <1>1, CutOrigins
  <1>2. ASSUME NEW k \in 1..Len(s), ~s[k].free
        PROVE  \E j \in 1..Len(t) : t[j] = s[k]
    <2>1. k # i
      BY <1>2
    <2> QED
      BY <2>1, CutPlaces
  <1>3. UsedIn(t) \subseteq UsedIn(s)
    BY <1>1 DEF UsedIn
  <1>4. UsedIn(s) \subseteq UsedIn(t)
    BY <1>2 DEF UsedIn
  <1> QED
    BY <1>3, <1>4

\* One block changes from free to used or back.
Marks(s, t, i, free) ==
    /\ s \in Seq(Block) /\ i \in 1..Len(s) /\ free \in BOOLEAN
    /\ t = [s EXCEPT ![i].free = free]

LEMMA MarkFacts ==
    ASSUME NEW s, NEW t, NEW i, NEW free, Marks(s, t, i, free)
    PROVE  /\ t \in Seq(Block) /\ Len(t) = Len(s) /\ SamePlaces(s, t)
           /\ \A j \in 1..Len(s) : j # i => t[j] = s[j]
           /\ t[i] \in Block /\ t[i].free = free /\ t[i].at = s[i].at /\ t[i].size = s[i].size
  <1>1. PICK b : b = [s[i] EXCEPT !.free = free]
    OBVIOUS
  <1>2. s[i] \in Block /\ s \in Seq(Block) /\ i \in 1..Len(s) /\ free \in BOOLEAN
    BY InList DEF Marks
  <1>3. b \in Block /\ b.free = free /\ b.at = s[i].at /\ b.size = s[i].size
    BY <1>1, <1>2 DEF Block
  <1>4. t = [s EXCEPT ![i] = b]
    BY <1>1 DEF Marks
  <1>5. t \in Seq(Block) /\ Len(t) = Len(s) /\ \A j \in 1..Len(s) : t[j] = IF j = i THEN b ELSE s[j]
    BY <1>2, <1>3, <1>4, ExceptSeq
  <1>6. \A j \in 1..Len(s) : t[j].at = s[j].at /\ t[j].size = s[j].size
    BY <1>3, <1>5
  <1> QED
    BY <1>2, <1>3, <1>5, <1>6 DEF SamePlaces

LEMMA MarkedUsed ==
    ASSUME NEW s, NEW t, NEW i, Marks(s, t, i, FALSE)
    PROVE  /\ t \in Seq(Block) /\ Len(t) = Len(s) /\ SamePlaces(s, t)
           /\ \A j \in 1..Len(s) : j # i => t[j] = s[j]
           /\ ~t[i].free
  <1>1. /\ Len(t) = Len(s) /\ \A j \in 1..Len(s) : j # i => t[j] = s[j]
        /\ ~t[i].free
    BY MarkFacts DEF Marks
  <1>2. SamePlaces(s, t)
    BY MarkFacts, Zenon
  <1>3. t \in Seq(Block)
    BY <1>2 DEF SamePlaces
  <1> QED
    BY <1>1, <1>2, <1>3

LEMMA MarkedFree ==
    ASSUME NEW s, NEW t, NEW i, Marks(s, t, i, TRUE)
    PROVE  /\ t \in Seq(Block) /\ Len(t) = Len(s) /\ SamePlaces(s, t)
           /\ \A j \in 1..Len(s) : j # i => t[j] = s[j]
           /\ t[i].free
  <1>1. /\ Len(t) = Len(s) /\ \A j \in 1..Len(s) : j # i => t[j] = s[j]
        /\ t[i].free
    BY MarkFacts DEF Marks
  <1>2. SamePlaces(s, t)
    BY MarkFacts, Zenon
  <1>3. t \in Seq(Block)
    BY <1>2 DEF SamePlaces
  <1> QED
    BY <1>1, <1>2, <1>3

LEMMA MarkUsed ==
    ASSUME NEW s, NEW t, NEW i, Marks(s, t, i, FALSE), s[i].free
    PROVE  UsedIn(t) = UsedIn(s) \cup {<<s[i].at + Header, s[i].size>>}
  <1>1. /\ Len(t) = Len(s) /\ \A j \in 1..Len(s) : j # i => t[j] = s[j]
        /\ ~t[i].free /\ t[i].at = s[i].at /\ t[i].size = s[i].size /\ i \in 1..Len(s)
    BY MarkFacts DEF Marks
  <1>2. ASSUME NEW u \in UsedIn(t) PROVE u \in UsedIn(s) \cup {<<s[i].at + Header, s[i].size>>}
    <2>1. PICK j \in 1..Len(s) : ~t[j].free /\ u = <<t[j].at + Header, t[j].size>>
      BY <1>1, <1>2 DEF UsedIn
    <2>2. CASE j = i
      BY <1>1, <2>1, <2>2
    <2>3. CASE j # i
      BY <1>1, <2>1, <2>3 DEF UsedIn
    <2> QED
      BY <2>2, <2>3
  <1>3. ASSUME NEW u \in UsedIn(s) PROVE u \in UsedIn(t)
    <2>1. PICK j \in 1..Len(s) : ~s[j].free /\ u = <<s[j].at + Header, s[j].size>>
      BY <1>3 DEF UsedIn
    <2>2. j # i
      BY <2>1
    <2> QED
      BY <1>1, <2>1, <2>2 DEF UsedIn
  <1>4. <<s[i].at + Header, s[i].size>> \in UsedIn(t)
    BY <1>1 DEF UsedIn
  <1> QED
    BY <1>2, <1>3, <1>4

LEMMA MarkFree ==
    ASSUME NEW s, NEW t, NEW i, Marks(s, t, i, TRUE), ~s[i].free, Separate(s)
    PROVE  UsedIn(t) = UsedIn(s) \ {<<s[i].at + Header, s[i].size>>}
  <1>1. /\ Len(t) = Len(s) /\ \A j \in 1..Len(s) : j # i => t[j] = s[j]
        /\ t[i].free /\ i \in 1..Len(s) /\ s \in Seq(Block)
    BY MarkFacts DEF Marks
  <1>2. ASSUME NEW j \in 1..Len(s), j # i PROVE <<s[j].at + Header, s[j].size>> # <<s[i].at + Header, s[i].size>>
    <2>1. s[j].at # s[i].at
      BY <1>1, <1>2, AtTells
    <2>2. PICK x, y \in Nat : x = s[j].at /\ y = s[i].at
      BY <1>1, InList, BlockFacts
    <2>3. x # y /\ Header = 2
      BY <2>1, <2>2, Numbers
    <2>4. s[j].at + Header # s[i].at + Header
      <3>1. x + 2 # y + 2
        BY <2>3
      <3> QED
        BY <2>2, <2>3, <3>1
    <2> QED
      BY <2>4
  <1>3. ASSUME NEW u \in UsedIn(t) PROVE u \in UsedIn(s) \ {<<s[i].at + Header, s[i].size>>}
    <2>1. PICK j \in 1..Len(s) : ~t[j].free /\ u = <<t[j].at + Header, t[j].size>>
      BY <1>1, <1>3 DEF UsedIn
    <2>2. j # i
      BY <1>1, <2>1
    <2>3. ~s[j].free /\ u = <<s[j].at + Header, s[j].size>>
      BY <1>1, <2>1, <2>2
    <2> QED
      BY <1>2, <2>2, <2>3 DEF UsedIn
  <1>4. ASSUME NEW u \in UsedIn(s) \ {<<s[i].at + Header, s[i].size>>} PROVE u \in UsedIn(t)
    <2>1. PICK j \in 1..Len(s) : ~s[j].free /\ u = <<s[j].at + Header, s[j].size>>
      BY <1>4 DEF UsedIn
    <2>2. j # i
      BY <1>4, <2>1
    <2> QED
      BY <1>1, <2>1, <2>2 DEF UsedIn
  <1> QED
    BY <1>3, <1>4

----------------------------------------------------------------------------
(* What the handlers do to a list.                                         *)

\* Two lists, one after the other.
LEMMA Joined ==
    ASSUME NEW p \in Seq(Block), NEW q \in Seq(Block)
    PROVE  /\ p \o q \in Seq(Block) /\ Len(p \o q) = Len(p) + Len(q)
           /\ \A j \in 1..Len(p) : (p \o q)[j] = p[j]
           /\ \A j \in 1..Len(q) : (p \o q)[Len(p) + j] = q[j]
  OBVIOUS

\* A block more after a place, and one fewer.
HasMore(s, t, i, b) ==
    /\ t \in Seq(Block) /\ Len(t) = Len(s) + 1
    /\ \A j \in 1..i : t[j] = s[j]
    /\ t[i + 1] = b
    /\ \A j \in (i + 1)..Len(s) : t[j + 1] = s[j]

HasLess(s, t, i) ==
    /\ t \in Seq(Block) /\ Len(t) = Len(s) - 1
    /\ \A j \in 1..i : t[j] = s[j]
    /\ \A j \in (i + 1)..(Len(s) - 1) : t[j] = s[j + 1]

LEMMA Inserted ==
    ASSUME NEW s, s \in Seq(Block), NEW i, i \in 1..Len(s), NEW b, b \in Block
    PROVE  HasMore(s, InsertAt(s, i + 1, b), i, b)
  <1>1. i \in Nat /\ Len(s) \in Nat /\ i <= Len(s) /\ i >= 1
    OBVIOUS
  <1>2. PICK p : p = SubSeq(s, 1, i)
    OBVIOUS
  <1>3. p \in Seq(Block) /\ Len(p) = i /\ \A j \in 1..i : p[j] = s[j]
    BY <1>1, <1>2, InList, SubSeqProperties
  <1>4. PICK q : q = SubSeq(s, i + 1, Len(s))
    OBVIOUS
  <1>5. q \in Seq(Block) /\ Len(q) = Len(s) - i /\ \A j \in 1..(Len(s) - i) : q[j] = s[i + j]
    <2>1. \A j \in (i + 1)..Len(s) : s[j] \in Block
      BY <1>1, InList
    <2>2. /\ SubSeq(s, i + 1, Len(s)) \in Seq(Block)
          /\ Len(SubSeq(s, i + 1, Len(s))) = IF i + 1 <= Len(s) THEN Len(s) - (i + 1) + 1 ELSE 0
          /\ \A j \in 1..(Len(s) - (i + 1) + 1) : SubSeq(s, i + 1, Len(s))[j] = s[i + 1 + j - 1]
      BY <1>1, <2>1, SubSeqProperties
    <2>3. Len(s) - (i + 1) + 1 = Len(s) - i /\ \A j \in Nat : i + 1 + j - 1 = i + j
      BY <1>1
    <2>4. Len(q) = Len(s) - i
      BY <1>1, <1>4, <2>2
    <2>5. ASSUME NEW j \in 1..(Len(s) - i) PROVE q[j] = s[i + j]
      <3>1. j \in 1..(Len(s) - (i + 1) + 1) /\ i + 1 + j - 1 = i + j
        BY <1>1
      <3>2. SubSeq(s, i + 1, Len(s))[j] = s[i + 1 + j - 1]
        BY <2>2, <3>1
      <3> QED
        BY <1>4, <3>1, <3>2, Zenon
    <2> QED
      BY <1>4, <2>2, <2>4, <2>5
  <1>6. PICK e : e = <<b>>
    OBVIOUS
  <1>7. e \in Seq(Block) /\ Len(e) = 1 /\ e[1] = b
    BY <1>6
  <1>8. PICK r : r = p \o e
    OBVIOUS
  <1>9. /\ r \in Seq(Block) /\ Len(r) = Len(p) + Len(e)
        /\ \A j \in 1..Len(p) : r[j] = p[j]
        /\ \A j \in 1..Len(e) : r[Len(p) + j] = e[j]
    BY <1>3, <1>7, <1>8, Joined
  <1>10. Len(r) = i + 1 /\ r[i + 1] = b /\ \A j \in 1..i : r[j] = s[j]
    <2>1. 1 \in 1..Len(e)
      BY <1>7
    <2>2. r[i + 1] = e[1]
      BY <1>3, <1>9, <2>1
    <2>3. \A j \in 1..i : r[j] = s[j]
      BY <1>3, <1>9
    <2> QED
      BY <1>3, <1>7, <1>9, <2>2, <2>3
  <1>11. PICK t : t = r \o q
    OBVIOUS
  <1>12. /\ t \in Seq(Block) /\ Len(t) = Len(r) + Len(q)
         /\ \A j \in 1..Len(r) : t[j] = r[j]
         /\ \A j \in 1..Len(q) : t[Len(r) + j] = q[j]
    BY <1>5, <1>9, <1>11, Joined
  <1>13. InsertAt(s, i + 1, b) = t
    <2>1. (i + 1) - 1 = i
      BY <1>1
    <2>2. SubSeq(s, 1, (i + 1) - 1) = p
      BY <1>2, <2>1
    <2>3. InsertAt(s, i + 1, b) = SubSeq(s, 1, (i + 1) - 1) \o <<b>> \o SubSeq(s, i + 1, Len(s))
      BY Zenon DEF InsertAt
    <2> QED
      BY <1>4, <1>6, <1>8, <1>11, <2>2, <2>3, Zenon
  <1>14. Len(t) = Len(s) + 1
    <2>1. i + 1 + (Len(s) - i) = Len(s) + 1
      BY <1>1
    <2> QED
      BY <1>5, <1>10, <1>12, <2>1
  <1>15. ASSUME NEW j \in 1..(i + 1) PROVE t[j] = r[j]
    BY <1>10, <1>12
  <1>16. ASSUME NEW j \in (i + 1)..Len(s) PROVE t[j + 1] = s[j]
    <2>1. PICK k \in 1..(Len(s) - i) : i + k = j /\ i + 1 + k = j + 1
      <3>1. j - i \in 1..(Len(s) - i) /\ i + (j - i) = j /\ i + 1 + (j - i) = j + 1
        BY <1>1
      <3> QED
        BY <3>1
    <2>2. t[i + 1 + k] = q[k]
      BY <1>5, <1>10, <1>12
    <2> QED
      BY <1>5, <2>1, <2>2
  <1>17. i + 1 \in 1..(i + 1) /\ \A j \in 1..i : j \in 1..(i + 1)
    BY <1>1
  <1> QED
    BY <1>10, <1>12, <1>13, <1>14, <1>15, <1>16, <1>17 DEF HasMore

LEMMA Removed ==
    ASSUME NEW s, s \in Seq(Block), NEW i, i \in 1..(Len(s) - 1)
    PROVE  HasLess(s, RemoveAt(s, i + 1), i)
  <1>1. i \in Nat /\ Len(s) \in Nat /\ i <= Len(s) - 1 /\ i >= 1
    OBVIOUS
  <1>2. PICK p : p = SubSeq(s, 1, i)
    OBVIOUS
  <1>3. p \in Seq(Block) /\ Len(p) = i /\ \A j \in 1..i : p[j] = s[j]
    <2>1. \A j \in 1..i : s[j] \in Block
      BY <1>1, InList
    <2>2. /\ SubSeq(s, 1, i) \in Seq(Block)
          /\ Len(SubSeq(s, 1, i)) = IF 1 <= i THEN i - 1 + 1 ELSE 0
          /\ \A j \in 1..(i - 1 + 1) : SubSeq(s, 1, i)[j] = s[1 + j - 1]
      BY <1>1, <2>1, SubSeqProperties
    <2>3. i - 1 + 1 = i /\ \A j \in Nat : 1 + j - 1 = j
      BY <1>1
    <2> QED
      BY <1>1, <1>2, <2>2, <2>3
  <1>4. PICK q : q = SubSeq(s, i + 2, Len(s))
    OBVIOUS
  <1>5. q \in Seq(Block) /\ Len(q) = Len(s) - 1 - i /\ \A j \in 1..(Len(s) - 1 - i) : q[j] = s[i + 1 + j]
    <2>1. \A j \in (i + 2)..Len(s) : s[j] \in Block
      BY <1>1, InList
    <2>2. /\ SubSeq(s, i + 2, Len(s)) \in Seq(Block)
          /\ Len(SubSeq(s, i + 2, Len(s))) = IF i + 2 <= Len(s) THEN Len(s) - (i + 2) + 1 ELSE 0
          /\ \A j \in 1..(Len(s) - (i + 2) + 1) : SubSeq(s, i + 2, Len(s))[j] = s[i + 2 + j - 1]
      BY <1>1, <2>1, SubSeqProperties
    <2>3. Len(s) - (i + 2) + 1 = Len(s) - 1 - i /\ \A j \in Nat : i + 2 + j - 1 = i + 1 + j
      BY <1>1
    <2>4. Len(q) = Len(s) - 1 - i
      BY <1>1, <1>4, <2>2
    <2>5. ASSUME NEW j \in 1..(Len(s) - 1 - i) PROVE q[j] = s[i + 1 + j]
      <3>1. j \in 1..(Len(s) - (i + 2) + 1) /\ i + 2 + j - 1 = i + 1 + j
        BY <1>1
      <3>2. SubSeq(s, i + 2, Len(s))[j] = s[i + 2 + j - 1]
        BY <2>2, <3>1
      <3> QED
        BY <1>4, <3>1, <3>2, Zenon
    <2> QED
      BY <1>4, <2>2, <2>4, <2>5
  <1>6. PICK t : t = p \o q
    OBVIOUS
  <1>7. /\ t \in Seq(Block) /\ Len(t) = Len(p) + Len(q)
        /\ \A j \in 1..Len(p) : t[j] = p[j]
        /\ \A j \in 1..Len(q) : t[Len(p) + j] = q[j]
    BY <1>3, <1>5, <1>6, Joined
  <1>8. RemoveAt(s, i + 1) = t
    <2>1. i + 1 - 1 = i /\ i + 1 + 1 = i + 2
      BY <1>1
    <2> QED
      BY <1>2, <1>4, <1>6, <2>1 DEF RemoveAt
  <1>9. Len(t) = Len(s) - 1
    <2>1. i + (Len(s) - 1 - i) = Len(s) - 1
      BY <1>1
    <2> QED
      BY <1>3, <1>5, <1>7, <2>1
  <1>10. ASSUME NEW j \in 1..i PROVE t[j] = s[j]
    BY <1>3, <1>7
  <1>11. ASSUME NEW j \in (i + 1)..(Len(s) - 1) PROVE t[j] = s[j + 1]
    <2>1. PICK k \in 1..(Len(s) - 1 - i) : i + k = j /\ i + 1 + k = j + 1
      <3>1. j - i \in 1..(Len(s) - 1 - i) /\ i + (j - i) = j /\ i + 1 + (j - i) = j + 1
        BY <1>1
      <3> QED
        BY <3>1
    <2>2. t[i + k] = q[k]
      BY <1>3, <1>5, <1>7
    <2> QED
      BY <1>5, <2>1, <2>2
  <1> QED
    BY <1>7, <1>8, <1>9, <1>10, <1>11 DEF HasLess

\* One block changes its size.
HasSize(s, t, i, n) ==
    /\ t \in Seq(Block) /\ Len(t) = Len(s)
    /\ \A j \in 1..Len(s) : j # i => t[j] = s[j]
    /\ t[i] \in Block /\ t[i].free = s[i].free /\ t[i].at = s[i].at /\ t[i].size = n

LEMMA Resized ==
    ASSUME NEW s, s \in Seq(Block), NEW i, i \in 1..Len(s), NEW n, n \in Nat \ {0}
    PROVE  HasSize(s, [s EXCEPT ![i].size = n], i, n)
  <1>0. PICK t : t = [s EXCEPT ![i].size = n]
    OBVIOUS
  <1>1. PICK b : b = [s[i] EXCEPT !.size = n]
    OBVIOUS
  <1>2. s[i] \in Block
    BY InList
  <1>3. b \in Block /\ b.free = s[i].free /\ b.at = s[i].at /\ b.size = n
    BY <1>1, <1>2 DEF Block
  <1>4. t = [s EXCEPT ![i] = b]
    BY <1>0, <1>1
  <1>5. t \in Seq(Block) /\ Len(t) = Len(s) /\ \A j \in 1..Len(s) : t[j] = IF j = i THEN b ELSE s[j]
    BY <1>3, <1>4, ExceptSeq
  <1>6. HasSize(s, t, i, n)
    BY <1>3, <1>5 DEF HasSize
  <1> QED
    BY <1>0, <1>6

\* split_block: the list as it was, or cut at block i.
LEMMA SplitFacts ==
    ASSUME NEW s \in Seq(Block), NEW i \in 1..Len(s), NEW want \in Nat \ {0}, want <= s[i].size,
           NEW t, t = Split(s, i, want)
    PROVE  /\ t \in Seq(Block) /\ i \in 1..Len(t)
           /\ t[i].free = s[i].free /\ t[i].at = s[i].at /\ t[i].size >= want
           /\ t = s \/ (Cut(s, t, i) /\ t[i + 1].free)
  <1>1. PICK at, size \in Nat : at = s[i].at /\ size = s[i].size /\ End(s[i]) = at + 2 + size
    BY InList, BlockFacts
  <1>2. Header = 2 /\ Len(s) \in Nat /\ i \in Nat /\ i >= 1 /\ i <= Len(s)
    BY Numbers
  <1>3. CASE size - want <= 3
    <2>1. t = s
      BY <1>1, <1>2, <1>3 DEF Split
    <2> QED
      BY <1>1, <2>1
  <1>4. CASE ~(size - want <= 3)
    <2>1. PICK rest : rest = [at |-> at + 2 + want, size |-> size - want - 2, free |-> TRUE]
      OBVIOUS
    <2>2. rest \in Block /\ rest.at = at + 2 + want /\ rest.size = size - want - 2 /\ rest.free
      <3>1. at + 2 + want \in Nat /\ size - want - 2 \in Nat \ {0}
        BY <1>4, Sums
      <3> QED
        BY <2>1, <3>1, Zenon DEF Block
    <2>3. PICK m : m = [s EXCEPT ![i].size = want]
      OBVIOUS
    <2>4. t = InsertAt(m, i + 1, rest)
      BY <1>1, <1>2, <1>4, <2>1, <2>3 DEF Split
    <2>5. /\ m \in Seq(Block) /\ Len(m) = Len(s) /\ \A j \in 1..Len(s) : j # i => m[j] = s[j]
          /\ m[i].free = s[i].free /\ m[i].at = s[i].at /\ m[i].size = want
      <3>1. HasSize(s, m, i, want)
        BY <2>3, Resized
      <3> QED
        BY <3>1 DEF HasSize
    <2>6. /\ t \in Seq(Block) /\ Len(t) = Len(s) + 1
          /\ \A j \in 1..i : t[j] = m[j]
          /\ t[i + 1] = rest
          /\ \A j \in (i + 1)..Len(s) : t[j + 1] = m[j]
      <3>1. i \in 1..Len(m)
        BY <2>5
      <3>2. HasMore(m, t, i, rest)
        BY <2>2, <2>4, <2>5, <3>1, Inserted
      <3> QED
        BY <2>5, <3>2 DEF HasMore
    <2>7. i \in 1..i /\ i \in 1..Len(t)
      BY <1>2, <2>6
    <2>8. t[i].free = s[i].free /\ t[i].at = s[i].at /\ t[i].size = want
      BY <2>5, <2>6, <2>7
    <2>9. \A j \in 1..(i - 1) : t[j] = s[j]
      <3>1. \A j \in 1..(i - 1) : j \in 1..i /\ j \in 1..Len(s) /\ j # i
        BY <1>2
      <3> QED
        BY <2>5, <2>6, <3>1
    <2>10. \A j \in (i + 1)..Len(s) : t[j + 1] = s[j]
      <3>1. \A j \in (i + 1)..Len(s) : j \in 1..Len(s) /\ j # i
        BY <1>2
      <3> QED
        BY <2>5, <2>6, <3>1
    <2>11. End(t[i]) = t[i + 1].at
      BY <1>1, <1>2, <2>2, <2>6, <2>8 DEF End
    <2>12. End(t[i + 1]) = End(s[i])
      <3>1. End(rest) = (at + 2 + want) + 2 + (size - want - 2)
        BY <1>2, <2>2 DEF End
      <3>2. (at + 2 + want) + 2 + (size - want - 2) = at + 2 + size
        BY <1>4, Sums
      <3> QED
        BY <1>1, <2>6, <3>1, <3>2
    <2>13. Cut(s, t, i)
      BY <2>6, <2>8, <2>9, <2>10, <2>11, <2>12 DEF Cut
    <2> QED
      BY <2>2, <2>6, <2>7, <2>8, <2>13
  <1> QED
    BY <1>3, <1>4

\* Taking in the next block undoes a cut.
LEMMA SwallowFacts ==
    ASSUME NEW s \in Seq(Block), NEW i \in 1..(Len(s) - 1), End(s[i]) = s[i + 1].at,
           NEW t, t = Swallow(s, i)
    PROVE  Cut(t, s, i) /\ t[i].free = s[i].free
  <1>1. Header = 2 /\ Len(s) \in Nat /\ i \in Nat /\ i >= 1 /\ i <= Len(s) - 1
    BY Numbers
  <1>2. i \in 1..Len(s) /\ i + 1 \in 1..Len(s)
    BY <1>1
  <1>3. PICK at, size \in Nat : at = s[i].at /\ size = s[i].size /\ size > 0
    BY <1>2, InList, BlockFacts
  <1>4. PICK more \in Nat : more = s[i + 1].size
    BY <1>2, InList, BlockFacts
  <1>5. PICK n \in Nat \ {0} : n = size + 2 + more
    BY Sums
  <1>6. PICK m : m = [s EXCEPT ![i].size = n]
    OBVIOUS
  <1>7. t = RemoveAt(m, i + 1)
    <2>1. s[i].size + Header + s[i + 1].size = n
      BY <1>1, <1>3, <1>4, <1>5
    <2>2. [s EXCEPT ![i].size = @ + Header + s[i + 1].size] = m
      BY <1>2, <1>6, <2>1
    <2> QED
      BY <2>2, Zenon DEF Swallow
  <1>8. /\ m \in Seq(Block) /\ Len(m) = Len(s) /\ \A j \in 1..Len(s) : j # i => m[j] = s[j]
        /\ m[i].free = s[i].free /\ m[i].at = s[i].at /\ m[i].size = n
    <2>1. HasSize(s, m, i, n)
      BY <1>2, <1>6, Resized
    <2> QED
      BY <2>1 DEF HasSize
  <1>9. /\ t \in Seq(Block) /\ Len(t) = Len(s) - 1
        /\ \A j \in 1..i : t[j] = m[j]
        /\ \A j \in (i + 1)..(Len(s) - 1) : t[j] = m[j + 1]
    <2>1. i \in 1..(Len(m) - 1)
      BY <1>8
    <2>2. HasLess(m, t, i)
      BY <1>7, <1>8, <2>1, Removed
    <2> QED
      BY <1>8, <2>2 DEF HasLess
  <1>10. i \in 1..i /\ i \in 1..Len(t) /\ Len(s) = Len(t) + 1
    BY <1>1, <1>9
  <1>11. t[i].free = s[i].free /\ t[i].at = s[i].at /\ t[i].size = n
    BY <1>8, <1>9, <1>10
  <1>12. \A j \in 1..(i - 1) : s[j] = t[j]
    <2>1. \A j \in 1..(i - 1) : j \in 1..i /\ j \in 1..Len(s) /\ j # i
      BY <1>1
    <2> QED
      BY <1>8, <1>9, <2>1
  <1>13. \A j \in (i + 1)..Len(t) : s[j + 1] = t[j]
    <2>1. \A j \in (i + 1)..Len(t) : j \in (i + 1)..(Len(s) - 1) /\ j + 1 \in 1..Len(s) /\ j + 1 # i
      BY <1>1, <1>9
    <2> QED
      BY <1>8, <1>9, <2>1
  <1>14. End(s[i + 1]) = End(t[i])
    <2>1. s[i + 1].at = at + 2 + size
      BY <1>1, <1>3 DEF End
    <2>2. End(s[i + 1]) = (at + 2 + size) + 2 + more
      BY <1>1, <1>4, <2>1 DEF End
    <2>3. End(t[i]) = at + 2 + n
      BY <1>1, <1>3, <1>11 DEF End
    <2>4. (at + 2 + size) + 2 + more = at + 2 + n
      BY <1>5, Sums
    <2> QED
      BY <2>2, <2>3, <2>4
  <1> QED
    BY <1>9, <1>10, <1>11, <1>12, <1>13, <1>14 DEF Cut

\* A run of frames at the end of the list, and the run joined to the last block.
LEMMA MergedFacts ==
    ASSUME NEW s \in Seq(Block), NEW b \in Block, b.free, NEW t, t = Merged(s, b)
    PROVE  \/ /\ t = Append(s, b)
              /\ s = <<>> \/ ~s[Len(s)].free \/ End(s[Len(s)]) # b.at
           \/ /\ Len(s) \in 1..Len(s) /\ s[Len(s)].free /\ t[Len(s)].free
              /\ Cut(t, Append(s, b), Len(s))
  <1>1. CASE s # <<>> /\ s[Len(s)].free /\ End(s[Len(s)]) = b.at
    <2>1. PICK n : n = Len(s)
      OBVIOUS
    <2>2. n \in Nat /\ n \in 1..Len(s) /\ Header = 2
      BY <1>1, <2>1, Numbers
    <2>3. PICK at, size \in Nat : at = s[n].at /\ size = s[n].size /\ size > 0
      BY <2>2, InList, BlockFacts
    <2>4. PICK more \in Nat : more = b.size
      BY BlockFacts
    <2>5. PICK k \in Nat \ {0} : k = size + 2 + more
      BY <2>3, <2>4
    <2>6. t = [s EXCEPT ![n].size = k]
      <3>1. s[n].size + Header + b.size = k
        BY <2>2, <2>3, <2>4, <2>5
      <3>2. t = [s EXCEPT ![Len(s)].size = @ + Header + b.size]
        BY <1>1 DEF Merged, Last, PhysAdjacent
      <3> QED
        BY <2>1, <2>2, <3>1, <3>2
    <2>7. /\ t \in Seq(Block) /\ Len(t) = Len(s) /\ \A j \in 1..Len(s) : j # n => t[j] = s[j]
          /\ t[n].free = s[n].free /\ t[n].at = s[n].at /\ t[n].size = k
      <3>1. n \in 1..Len(s)
        BY <2>2
      <3>2. HasSize(s, [s EXCEPT ![n].size = k], n, k)
        BY <3>1, Resized
      <3>3. HasSize(s, t, n, k)
        BY <2>6, <3>2
      <3> QED
        BY <3>3 DEF HasSize
    <2>8. PICK l : l = Append(s, b)
      OBVIOUS
    <2>9. /\ l \in Seq(Block) /\ Len(l) = n + 1 /\ l[n + 1] = b
          /\ \A j \in 1..n : l[j] = s[j]
      BY <2>1, <2>8
    <2>10. \A j \in 1..(n - 1) : l[j] = t[j]
      <3>1. \A j \in 1..(n - 1) : j \in 1..n /\ j # n
        BY <2>2
      <3> QED
        BY <2>1, <2>7, <2>9, <3>1
    <2>11. \A j \in (n + 1)..Len(t) : l[j + 1] = t[j]
      <3>1. (n + 1)..Len(t) = {}
        BY <2>1, <2>2, <2>7
      <3> QED
        BY <3>1
    <2>12. l[n].at = t[n].at /\ End(l[n]) = l[n + 1].at
      BY <1>1, <2>1, <2>2, <2>7, <2>9
    <2>13. End(l[n + 1]) = End(t[n])
      <3>1. b.at = at + 2 + size
        BY <1>1, <2>1, <2>2, <2>3 DEF End
      <3>2. End(b) = (at + 2 + size) + 2 + more
        BY <2>2, <2>4, <3>1 DEF End
      <3>3. End(t[n]) = at + 2 + k
        BY <2>2, <2>3, <2>7 DEF End
      <3>4. (at + 2 + size) + 2 + more = at + 2 + k
        BY <2>5, Sums
      <3> QED
        BY <2>9, <3>2, <3>3, <3>4
    <2>14. Cut(t, l, n)
      BY <2>1, <2>2, <2>7, <2>9, <2>10, <2>11, <2>12, <2>13 DEF Cut
    <2> QED
      BY <1>1, <2>1, <2>2, <2>7, <2>8, <2>14
  <1>2. CASE ~(s # <<>> /\ s[Len(s)].free /\ End(s[Len(s)]) = b.at)
    BY <1>2 DEF Merged, Last, PhysAdjacent
  <1> QED
    BY <1>1, <1>2

----------------------------------------------------------------------------
(* No two blocks that could be one.                                        *)

\* Blocks j and j + 1 could be one.
Loose(s, j) == s[j].free /\ s[j + 1].free /\ End(s[j]) = s[j + 1].at
TightBut(s, a, b) == \A j \in 1..(Len(s) - 1) : j # a /\ j # b => ~Loose(s, j)

LEMMA TightFacts ==
    ASSUME NEW s
    PROVE  Tight(s) <=> TightBut(s, 0, 0)
  <1>1. \A j \in 1..(Len(s) - 1) : j # 0
    OBVIOUS
  <1> QED
    BY <1>1 DEF Tight, TightBut, Loose

\* Joining two free blocks makes no block loose that was not.
LEMMA JoinTight ==
    ASSUME NEW s, NEW t, NEW i, Cut(s, t, i), s[i].free, t[i].free, t[i + 1].free,
           NEW a, a \in 0..(i - 1), TightBut(t, a, i)
    PROVE  TightBut(s, a, 0)
  <1> SUFFICES ASSUME NEW j \in 1..(Len(s) - 1), j # a, Loose(s, j) PROVE FALSE
    BY DEF TightBut
  <1>1. Len(s) \in Nat /\ i \in Nat /\ i >= 1 /\ i <= Len(s) /\ Len(t) = Len(s) + 1
    BY CutNumbers DEF Cut
  <1>2. j \in Nat /\ j >= 1 /\ j <= Len(s) - 1 /\ a \in Nat /\ a < i
    BY <1>1
  <1>3. t[i].at = s[i].at /\ End(t[i + 1]) = End(s[i])
    BY DEF Cut
  <1>4. CASE j < i - 1
    <2>1. j \in 1..(i - 1) /\ j + 1 \in 1..(i - 1) /\ j \in 1..(Len(t) - 1) /\ j # i
      BY <1>1, <1>2, <1>4
    <2>2. t[j] = s[j] /\ t[j + 1] = s[j + 1]
      BY <2>1 DEF Cut
    <2>3. Loose(t, j)
      BY <2>2 DEF Loose
    <2> QED
      BY <2>1, <2>3 DEF TightBut
  <1>5. CASE j = i - 1
    <2>1. j \in 1..(i - 1) /\ j + 1 = i /\ j \in 1..(Len(t) - 1) /\ j # i
      BY <1>1, <1>2, <1>5
    <2>2. t[j] = s[j]
      BY <2>1 DEF Cut
    <2>3. Loose(t, j)
      BY <1>3, <2>1, <2>2 DEF Loose
    <2> QED
      BY <2>1, <2>3 DEF TightBut
  <1>6. CASE j = i
    <2>1. /\ i + 1 \in (i + 1)..Len(s) /\ i + 1 \in 1..(Len(t) - 1)
          /\ i + 1 # i /\ i + 1 # a
      BY <1>1, <1>2, <1>6
    <2>2. t[i + 1 + 1] = s[i + 1]
      BY <2>1 DEF Cut
    <2>3. Loose(t, i + 1)
      BY <1>3, <1>6, <2>2 DEF Loose
    <2> QED
      BY <2>1, <2>3 DEF TightBut
  <1>7. CASE j > i
    <2>1. /\ j \in (i + 1)..Len(s) /\ j + 1 \in (i + 1)..Len(s) /\ j + 1 \in 1..(Len(t) - 1)
          /\ j + 1 # i /\ j + 1 # a
      BY <1>1, <1>2, <1>7
    <2>2. t[j + 1] = s[j] /\ t[j + 1 + 1] = s[j + 1]
      BY <2>1 DEF Cut
    <2>3. Loose(t, j + 1)
      BY <2>2 DEF Loose
    <2> QED
      BY <2>1, <2>3 DEF TightBut
  <1> QED
    BY <1>1, <1>2, <1>4, <1>5, <1>6, <1>7

\* Cutting a free block leaves only the two parts loose.
LEMMA CutTight ==
    ASSUME NEW s, NEW t, NEW i, Cut(s, t, i), s[i].free, Tight(s)
    PROVE  TightBut(t, i, i)
  <1> SUFFICES ASSUME NEW j \in 1..(Len(t) - 1), j # i, Loose(t, j) PROVE FALSE
    BY DEF TightBut
  <1>1. Len(s) \in Nat /\ i \in Nat /\ i >= 1 /\ i <= Len(s) /\ Len(t) = Len(s) + 1
    BY CutNumbers DEF Cut
  <1>2. j \in Nat /\ j >= 1 /\ j <= Len(s)
    BY <1>1
  <1>3. t[i].at = s[i].at /\ End(t[i + 1]) = End(s[i])
    BY DEF Cut
  <1>4. TightBut(s, 0, 0)
    BY TightFacts
  <1>5. CASE j < i - 1
    <2>1. j \in 1..(i - 1) /\ j + 1 \in 1..(i - 1) /\ j \in 1..(Len(s) - 1) /\ j # 0
      BY <1>1, <1>2, <1>5
    <2>2. t[j] = s[j] /\ t[j + 1] = s[j + 1]
      BY <2>1 DEF Cut
    <2>3. Loose(s, j)
      BY <2>2 DEF Loose
    <2> QED
      BY <1>4, <2>1, <2>3 DEF TightBut
  <1>6. CASE j = i - 1
    <2>1. j \in 1..(i - 1) /\ j + 1 = i /\ j \in 1..(Len(s) - 1) /\ j # 0
      BY <1>1, <1>2, <1>6
    <2>2. t[j] = s[j]
      BY <2>1 DEF Cut
    <2>3. Loose(s, j)
      BY <1>3, <2>1, <2>2 DEF Loose
    <2> QED
      BY <1>4, <2>1, <2>3 DEF TightBut
  <1>7. CASE j = i + 1
    <2>1. i + 1 \in (i + 1)..Len(s) /\ i \in 1..(Len(s) - 1) /\ i # 0
      BY <1>1, <1>2, <1>7
    <2>2. t[i + 1 + 1] = s[i + 1]
      BY <2>1 DEF Cut
    <2>3. Loose(s, i)
      BY <1>3, <1>7, <2>2 DEF Loose
    <2> QED
      BY <1>4, <2>1, <2>3 DEF TightBut
  <1>8. CASE j > i + 1
    <2>1. PICK k \in 1..(Len(s) - 1) : j = k + 1 /\ k # 0 /\ k \in (i + 1)..Len(s) /\ k + 1 \in (i + 1)..Len(s)
      <3>1. /\ j - 1 \in 1..(Len(s) - 1) /\ j = j - 1 + 1 /\ j - 1 # 0
            /\ j - 1 \in (i + 1)..Len(s) /\ j - 1 + 1 \in (i + 1)..Len(s)
        BY <1>1, <1>2, <1>8
      <3> QED
        BY <3>1
    <2>2. t[k + 1] = s[k] /\ t[k + 1 + 1] = s[k + 1]
      BY <2>1 DEF Cut
    <2>3. Loose(s, k)
      BY <2>1, <2>2 DEF Loose
    <2> QED
      BY <1>4, <2>1, <2>3 DEF TightBut
  <1> QED
    BY <1>1, <1>2, <1>5, <1>6, <1>7, <1>8

----------------------------------------------------------------------------
(* What kmalloc, kfree and grow_heap make of a list that is in order.      *)

Ordered(s) == s \in Seq(Block) /\ Separate(s) /\ Tight(s)

\* A block that is handed out is the free one, or the first part of it.
Serves(s, t, i, want) ==
    /\ Ordered(s) /\ i \in 1..Len(s) /\ s[i].free /\ want \in Nat \ {0} /\ want <= s[i].size
    /\ t = [Split(s, i, want) EXCEPT ![i].free = FALSE]

LEMMA Served ==
    ASSUME NEW s, NEW t, NEW i, NEW want, Serves(s, t, i, want)
    PROVE  /\ Ordered(t) /\ UnitsOf(t) = UnitsOf(s)
           /\ \E n \in Nat : n >= want /\ UsedIn(t) = UsedIn(s) \cup {<<s[i].at + Header, n>>}
  <1>1. /\ s \in Seq(Block) /\ Separate(s) /\ Tight(s) /\ i \in 1..Len(s) /\ s[i].free
        /\ want \in Nat \ {0} /\ want <= s[i].size
    BY DEF Serves, Ordered
  <1>2. PICK m : m = Split(s, i, want)
    OBVIOUS
  <1>3. /\ m \in Seq(Block) /\ i \in 1..Len(m)
        /\ m[i].free = s[i].free /\ m[i].at = s[i].at /\ m[i].size >= want
        /\ m = s \/ (Cut(s, m, i) /\ m[i + 1].free)
    BY <1>1, <1>2, SplitFacts
  <1>4. UnitsOf(m) = UnitsOf(s) /\ Separate(m) /\ UsedIn(m) = UsedIn(s)
    <2>1. CASE m = s
      BY <1>1, <2>1
    <2>2. CASE Cut(s, m, i) /\ m[i + 1].free
      BY <1>1, <1>3, <2>2, CutUnits, CutSeparate, CutUsed
    <2> QED
      BY <1>3, <2>1, <2>2
  <1>5. TightBut(m, i, i)
    <2>1. CASE m = s
      BY <1>1, <2>1, TightFacts DEF Tight, TightBut, Loose
    <2>2. CASE Cut(s, m, i)
      BY <1>1, <2>2, CutTight
    <2> QED
      BY <1>3, <2>1, <2>2
  <1>6. Marks(m, t, i, FALSE)
    BY <1>2, <1>3 DEF Serves, Marks
  <1>7. /\ t \in Seq(Block) /\ Len(t) = Len(m) /\ SamePlaces(m, t)
        /\ \A j \in 1..Len(m) : j # i => t[j] = m[j]
        /\ ~t[i].free
    BY <1>6, MarkedUsed
  <1>8. UnitsOf(t) = UnitsOf(m) /\ Separate(t)
    BY <1>4, <1>7, SameUnits
  <1>9. Tight(t)
    <2> SUFFICES ASSUME NEW j \in 1..(Len(t) - 1), Loose(t, j) PROVE FALSE
      BY DEF Tight, Loose
    <2>1. j # i /\ j + 1 # i
      BY <1>7 DEF Loose
    <2>2. j \in 1..Len(m) /\ j + 1 \in 1..Len(m) /\ j \in 1..(Len(m) - 1)
      <3>1. Len(m) \in Nat
        BY <1>3
      <3> QED
        BY <1>7, <3>1
    <2>3. Loose(m, j)
      BY <1>7, <2>1, <2>2 DEF Loose
    <2> QED
      BY <1>5, <2>1, <2>2, <2>3 DEF TightBut
  <1>10. UsedIn(t) = UsedIn(s) \cup {<<s[i].at + Header, m[i].size>>}
    <2>1. m[i].free
      BY <1>1, <1>3
    <2>2. UsedIn(t) = UsedIn(m) \cup {<<m[i].at + Header, m[i].size>>}
      BY <1>6, <2>1, MarkUsed
    <2> QED
      BY <1>3, <1>4, <2>2
  <1>11. m[i].size \in Nat
    BY <1>3, InList, BlockFacts
  <1> QED
    BY <1>3, <1>4, <1>7, <1>8, <1>9, <1>10, <1>11 DEF Ordered

\* A block that is freed joins the next one and the one before, and after that
\* there is nothing left to join.
Frees(s, t, i) ==
    /\ Ordered(s) /\ i \in 1..Len(s) /\ ~s[i].free
    /\ t = Coalesce([s EXCEPT ![i].free = TRUE], i)

LEMMA Released ==
    ASSUME NEW s, NEW t, NEW i, Frees(s, t, i)
    PROVE  /\ Ordered(t) /\ UnitsOf(t) = UnitsOf(s)
           /\ UsedIn(t) = UsedIn(s) \ {<<s[i].at + Header, s[i].size>>}
  <1>1. /\ s \in Seq(Block) /\ Separate(s) /\ Tight(s) /\ i \in 1..Len(s) /\ ~s[i].free
        /\ Len(s) \in Nat /\ i \in Nat /\ i >= 1 /\ i <= Len(s)
    BY DEF Frees, Ordered
  <1>2. PICK m : m = [s EXCEPT ![i].free = TRUE]
    OBVIOUS
  <1>3. Marks(s, m, i, TRUE)
    BY <1>1, <1>2 DEF Marks
  <1>4. /\ m \in Seq(Block) /\ Len(m) = Len(s) /\ SamePlaces(s, m)
        /\ \A j \in 1..Len(s) : j # i => m[j] = s[j]
        /\ m[i].free
    BY <1>3, MarkedFree
  <1>5. UnitsOf(m) = UnitsOf(s) /\ Separate(m)
    BY <1>1, <1>4, SameUnits
  <1>6. UsedIn(m) = UsedIn(s) \ {<<s[i].at + Header, s[i].size>>}
    BY <1>1, <1>3, MarkFree
  <1>7. TightBut(m, i - 1, i)
    <2> SUFFICES ASSUME NEW j \in 1..(Len(m) - 1), j # i - 1, j # i, Loose(m, j) PROVE FALSE
      BY DEF TightBut
    <2>1. j \in 1..Len(s) /\ j + 1 \in 1..Len(s) /\ j \in 1..(Len(s) - 1) /\ j # i /\ j + 1 # i
      BY <1>1, <1>4
    <2>2. Loose(s, j)
      BY <1>4, <2>1 DEF Loose
    <2> QED
      BY <1>1, <2>1, <2>2 DEF Tight, Loose
  <1>8. PICK f : f = IF MergesNext(m, i) THEN Swallow(m, i) ELSE m
    OBVIOUS
  <1>9. /\ f \in Seq(Block) /\ i \in 1..Len(f) /\ f[i].free
        /\ UnitsOf(f) = UnitsOf(m) /\ Separate(f) /\ UsedIn(f) = UsedIn(m)
        /\ TightBut(f, i - 1, 0)
    <2>1. CASE MergesNext(m, i)
      <3>1. i \in 1..(Len(m) - 1) /\ m[i + 1].free /\ End(m[i]) = m[i + 1].at /\ f = Swallow(m, i)
        BY <1>1, <1>4, <1>8, <2>1 DEF MergesNext, PhysAdjacent
      <3>2. Cut(f, m, i) /\ f[i].free
        BY <1>4, <3>1, SwallowFacts
      <3>3. UnitsOf(f) = UnitsOf(m) /\ Separate(f) /\ UsedIn(f) = UsedIn(m)
        BY <1>4, <1>5, <3>1, <3>2, CutUnits, JoinSeparate, CutUsed
      <3>4. i - 1 \in 0..(i - 1)
        BY <1>1
      <3>5. TightBut(f, i - 1, 0)
        BY <1>4, <1>7, <3>1, <3>2, <3>4, JoinTight
      <3>6. f \in Seq(Block) /\ i \in 1..Len(f)
        BY <3>2 DEF Cut
      <3> QED
        BY <3>2, <3>3, <3>5, <3>6
    <2>2. CASE ~MergesNext(m, i)
      <3>1. f = m
        BY <1>8, <2>2
      <3>2. ASSUME NEW j \in 1..(Len(m) - 1), j # i - 1, Loose(m, j) PROVE FALSE
        <4>1. j = i
          BY <1>7, <3>2 DEF TightBut
        <4>2. i < Len(m)
          BY <1>1, <1>4, <4>1
        <4>3. MergesNext(m, i)
          BY <3>2, <4>1, <4>2 DEF Loose, MergesNext, PhysAdjacent
        <4> QED
          BY <2>2, <4>3
      <3>3. TightBut(m, i - 1, 0)
        BY <3>2 DEF TightBut
      <3> QED
        BY <1>1, <1>4, <1>5, <3>1, <3>3
    <2> QED
      BY <2>1, <2>2
  <1>10. t = IF i > 1 /\ f[i - 1].free /\ MergesNext(f, i - 1) THEN Swallow(f, i - 1) ELSE f
    BY <1>2, <1>8 DEF Frees, Coalesce
  <1>11. t \in Seq(Block) /\ UnitsOf(t) = UnitsOf(f) /\ Separate(t) /\ Tight(t) /\ UsedIn(t) = UsedIn(f)
    <2>1. CASE i > 1 /\ f[i - 1].free /\ MergesNext(f, i - 1)
      <3>1. PICK k \in Nat : k = i - 1 /\ k + 1 = i /\ k >= 1
        BY <1>1, <2>1
      <3>2. k \in 1..(Len(f) - 1) /\ f[k].free /\ f[k + 1].free /\ End(f[k]) = f[k + 1].at /\ t = Swallow(f, k)
        BY <1>9, <1>10, <2>1, <3>1 DEF MergesNext, PhysAdjacent
      <3>3. Cut(t, f, k) /\ t[k].free
        BY <1>9, <3>2, SwallowFacts
      <3>4. UnitsOf(t) = UnitsOf(f) /\ Separate(t) /\ UsedIn(t) = UsedIn(f)
        BY <1>9, <3>2, <3>3, CutUnits, JoinSeparate, CutUsed
      <3>5. 0 \in 0..(k - 1) /\ TightBut(f, 0, k)
        BY <1>9, <3>1 DEF TightBut
      <3>6. TightBut(t, 0, 0)
        BY <3>2, <3>3, <3>5, JoinTight
      <3> QED
        BY <3>3, <3>4, <3>6, TightFacts DEF Cut
    <2>2. CASE ~(i > 1 /\ f[i - 1].free /\ MergesNext(f, i - 1))
      <3>1. t = f
        BY <1>10, <2>2
      <3>2. ASSUME NEW j \in 1..(Len(f) - 1), Loose(f, j) PROVE FALSE
        <4>1. j = i - 1
          BY <1>9, <3>2 DEF TightBut
        <4>2. i > 1 /\ j < Len(f)
          BY <1>1, <1>9, <4>1
        <4>3. f[i - 1].free /\ MergesNext(f, i - 1)
          BY <3>2, <4>1, <4>2 DEF Loose, MergesNext, PhysAdjacent
        <4> QED
          BY <2>2, <4>2, <4>3
      <3>3. Tight(f)
        BY <3>2 DEF Tight, Loose
      <3> QED
        BY <1>9, <3>1, <3>3
    <2> QED
      BY <2>1, <2>2
  <1> QED
    BY <1>5, <1>6, <1>9, <1>11 DEF Ordered

\* The run that grow_heap takes becomes the last block or the end of it.
Extends(s, t, b) ==
    /\ Ordered(s) /\ b \in Block /\ b.free /\ UnitsOf(s) \cap Extent(b) = {}
    /\ t = Merged(s, b)

LEMMA Extended ==
    ASSUME NEW s, NEW t, NEW b, Extends(s, t, b)
    PROVE  /\ Ordered(t) /\ UnitsOf(t) = UnitsOf(s) \cup Extent(b) /\ UsedIn(t) = UsedIn(s)
           /\ Len(t) \in 1..Len(t) /\ t[Len(t)].free
           /\ \A j \in 1..Len(t) : j # Len(t) => j \in 1..Len(s) /\ t[j] = s[j]
  <1>1. /\ s \in Seq(Block) /\ Separate(s) /\ Tight(s) /\ b \in Block /\ b.free
        /\ UnitsOf(s) \cap Extent(b) = {} /\ Len(s) \in Nat
    BY DEF Extends, Ordered
  <1>2. PICK l : l = Append(s, b)
    OBVIOUS
  <1>3. PICK n \in Nat : n = Len(s)
    BY <1>1
  <1>4. /\ l \in Seq(Block) /\ Len(l) = n + 1 /\ l[n + 1] = b
        /\ \A j \in 1..n : l[j] = s[j]
    BY <1>1, <1>2, <1>3
  <1>5. \A j \in 1..(n + 1) : j \in 1..n \/ j = n + 1
    OBVIOUS
  <1>6. n + 1 \in 1..(n + 1) /\ \A j \in 1..n : j \in 1..(n + 1) /\ j # n + 1
    OBVIOUS
  <1>7. Separate(l)
    <2>1. ASSUME NEW j \in 1..n PROVE End(s[j]) <= b.at \/ End(b) <= s[j].at
      <3>1. s[j] \in Block /\ Extent(s[j]) \subseteq UnitsOf(s)
        BY <1>1, <1>3, InList DEF UnitsOf
      <3>2. Extent(s[j]) \cap Extent(b) = {}
        BY <1>1, <3>1
      <3> QED
        BY <1>1, <3>1, <3>2, Disjoint
    <2> SUFFICES ASSUME NEW j \in 1..(n + 1), NEW k \in 1..(n + 1), j # k
                 PROVE  End(l[j]) <= l[k].at \/ End(l[k]) <= l[j].at
      BY <1>4 DEF Separate
    <2>2. CASE j \in 1..n /\ k \in 1..n
      <3>1. End(s[j]) <= s[k].at \/ End(s[k]) <= s[j].at
        BY <1>1, <1>3, <2>2 DEF Separate
      <3> QED
        BY <1>4, <2>2, <3>1
    <2>3. CASE j \in 1..n /\ k = n + 1
      BY <1>4, <2>1, <2>3
    <2>4. CASE j = n + 1 /\ k \in 1..n
      BY <1>4, <2>1, <2>4
    <2> QED
      BY <1>5, <2>2, <2>3, <2>4
  <1>8. UnitsOf(l) = UnitsOf(s) \cup Extent(b)
    <2>1. ASSUME NEW u \in UnitsOf(l) PROVE u \in UnitsOf(s) \cup Extent(b)
      <3>1. PICK j \in 1..(n + 1) : u \in Extent(l[j])
        BY <1>4 DEF UnitsOf
      <3> QED
        BY <1>3, <1>4, <1>5, <3>1 DEF UnitsOf
    <2>2. ASSUME NEW u \in UnitsOf(s) PROVE u \in UnitsOf(l)
      <3>1. PICK j \in 1..n : u \in Extent(s[j])
        BY <1>3 DEF UnitsOf
      <3> QED
        BY <1>4, <1>6, <3>1 DEF UnitsOf
    <2>3. ASSUME NEW u \in Extent(b) PROVE u \in UnitsOf(l)
      BY <1>4, <1>6 DEF UnitsOf
    <2> QED
      BY <2>1, <2>2, <2>3
  <1>9. UsedIn(l) = UsedIn(s)
    <2>1. ASSUME NEW u \in UsedIn(l) PROVE u \in UsedIn(s)
      <3>1. PICK j \in 1..(n + 1) : ~l[j].free /\ u = <<l[j].at + Header, l[j].size>>
        BY <1>4 DEF UsedIn
      <3>2. j \in 1..n
        BY <1>1, <1>4, <1>5, <3>1
      <3> QED
        BY <1>3, <1>4, <3>1, <3>2 DEF UsedIn
    <2>2. ASSUME NEW u \in UsedIn(s) PROVE u \in UsedIn(l)
      <3>1. PICK j \in 1..n : ~s[j].free /\ u = <<s[j].at + Header, s[j].size>>
        BY <1>3 DEF UsedIn
      <3> QED
        BY <1>4, <1>6, <3>1 DEF UsedIn
    <2> QED
      BY <2>1, <2>2
  <1>10. TightBut(l, 0, n)
    <2> SUFFICES ASSUME NEW j \in 1..(Len(l) - 1), j # n, Loose(l, j) PROVE FALSE
      BY DEF TightBut
    <2>1. j \in 1..n /\ j + 1 \in 1..n /\ j \in 1..(Len(s) - 1)
      BY <1>3, <1>4
    <2>2. Loose(s, j)
      BY <1>4, <2>1 DEF Loose
    <2> QED
      BY <1>1, <2>1, <2>2 DEF Tight, Loose
  <1>11. CASE t = l /\ (s = <<>> \/ ~s[n].free \/ End(s[n]) # b.at)
    <2>1. Tight(l)
      <3> SUFFICES ASSUME NEW j \in 1..(Len(l) - 1), Loose(l, j) PROVE FALSE
        BY DEF Tight, Loose
      <3>1. j = n
        BY <1>10 DEF TightBut
      <3>2. n \in 1..n /\ s # <<>>
        BY <1>3, <1>4, <3>1
      <3>3. s[n].free /\ End(s[n]) = b.at
        BY <1>4, <3>1, <3>2 DEF Loose
      <3> QED
        BY <1>11, <3>2, <3>3
    <2>2. \A j \in 1..Len(l) : j # Len(l) => j \in 1..n
      BY <1>4, <1>5
    <2> QED
      BY <1>1, <1>3, <1>4, <1>6, <1>7, <1>8, <1>9, <1>11, <2>1, <2>2 DEF Ordered
  <1>12. CASE n \in 1..n /\ s[n].free /\ t[n].free /\ Cut(t, l, n)
    <2>1. n \in 1..Len(t) /\ t \in Seq(Block) /\ Len(l) = Len(t) + 1
      BY <1>12 DEF Cut
    <2>2. Len(t) = n
      <3>1. Len(t) \in Nat
        BY <2>1
      <3> QED
        BY <1>4, <2>1, <3>1
    <2>3. l[n].free /\ l[n + 1].free
      BY <1>1, <1>4, <1>12
    <2>4. UnitsOf(t) = UnitsOf(l) /\ Separate(t) /\ UsedIn(t) = UsedIn(l)
      BY <1>7, <1>12, <2>3, CutUnits, JoinSeparate, CutUsed
    <2>5. 0 \in 0..(n - 1)
      BY <1>12
    <2>6. TightBut(t, 0, 0)
      BY <1>10, <1>12, <2>3, <2>5, JoinTight
    <2>7. \A j \in 1..Len(t) : j # Len(t) => j \in 1..(n - 1) /\ j \in 1..n
      BY <2>2
    <2>8. \A j \in 1..Len(t) : j # Len(t) => j \in 1..Len(s) /\ t[j] = s[j]
      BY <1>3, <1>4, <1>12, <2>7 DEF Cut
    <2> QED
      BY <1>8, <1>9, <1>12, <2>1, <2>2, <2>4, <2>6, <2>8, TightFacts DEF Ordered
  <1> QED
    BY <1>1, <1>2, <1>3, <1>11, <1>12, MergedFacts DEF Extends

----------------------------------------------------------------------------
(* Frames.                                                                 *)

\* pmm_alloc_contig finds a run of free frames whenever there is one.
LEMMA Contig ==
    ASSUME NEW free, free \subseteq Frames, NEW n, n \in Nat \ {0}
    PROVE  /\ AllocContig(free, n) = 0 <=> Runs(free, n) = {}
           /\ AllocContig(free, n) # 0 =>
                /\ AllocContig(free, n) \in Nat \ {0} /\ AllocContig(free, n) \in free
                /\ AllocContig(free, n)..(AllocContig(free, n) + n - 1) \subseteq free
  <1>1. Runs(free, n) \in SUBSET Nat /\ 0 \notin Runs(free, n)
    BY Numbers DEF Runs
  <1>2. CASE Runs(free, n) = {}
    BY <1>2 DEF AllocContig
  <1>3. CASE Runs(free, n) # {}
    <2>1. PICK f : f = AllocContig(free, n)
      OBVIOUS
    <2>2. f \in Runs(free, n)
      BY <1>1, <1>3, <2>1, MinFacts DEF AllocContig
    <2>3. f \in Nat \ {0} /\ f..(f + n - 1) \subseteq free
      BY <1>1, <2>2 DEF Runs
    <2>4. f \in f..(f + n - 1)
      BY <2>3
    <2> QED
      BY <1>3, <2>1, <2>3, <2>4
  <1> QED
    BY <1>2, <1>3

\* Somebody else's frames come and go without the heap.
SameHeap ==
    /\ UNCHANGED <<blocks, ptr, old, grow>>
    /\ bitmap' \subseteq Frames /\ others' \subseteq Frames /\ bitmap' \cap others' = {}
    /\ bitmap' \cup others' = bitmap \cup others

LEMMA SameHeapKeeps ==
    ASSUME HInv, SameHeap
    PROVE  HInv'
  <1>1. HeapFrames' = HeapFrames
    BY DEF SameHeap, HeapFrames
  <1>2. UnitsIn(HeapFrames)' = UnitsIn(HeapFrames)
    BY <1>1 DEF UnitsIn, FrameUnits
  <1>3. blocks' = blocks /\ ptr' = ptr /\ old' = old /\ grow' = grow
    BY DEF SameHeap
  <1>4. Types'
    BY <1>3 DEF HInv, Types, SameHeap
  <1>5. Separate(blocks)' /\ Tight(blocks)' /\ UnitsOf(blocks)' = UnitsOf(blocks)
    BY <1>3 DEF HInv, Separate, Tight, UnitsOf, Extent, End
  <1>6. Holding'
    BY <1>3 DEF HInv, Holding, Val, UsedIn
  <1>7. Growing'
    BY <1>3 DEF HInv, Growing, Index
  <1> QED
    BY <1>2, <1>4, <1>5, <1>6, <1>7 DEF HInv

LEMMA TakeSame ==
    ASSUME HInv, Take
    PROVE  SameHeap /\ \E f \in bitmap : f \notin others /\ others' = others \cup {f} /\ bitmap' = bitmap \ {f}
  <1>1. bitmap \subseteq Frames /\ others \subseteq Frames /\ bitmap \cap others = {}
    BY DEF HInv, Types
  <1>2. PICK f : f = AllocContig(bitmap, 1)
    OBVIOUS
  <1>3. f # 0
    <2>1. PICK g \in bitmap : g \in Nat
      BY <1>1, Numbers DEF Take
    <2>2. g..(g + 1 - 1) = {g}
      BY <2>1
    <2>3. g \in Runs(bitmap, 1)
      BY <1>1, <2>1, <2>2 DEF Runs
    <2> QED
      BY <1>1, <1>2, <2>3, Contig
  <1>4. f \in bitmap
    BY <1>1, <1>2, <1>3, Contig
  <1>5. bitmap' = bitmap \ {f} /\ others' = others \cup {f} /\ UNCHANGED <<blocks, ptr, old, grow>>
    BY <1>2 DEF Take
  <1> QED
    BY <1>1, <1>4, <1>5 DEF SameHeap

LEMMA GiveSame ==
    ASSUME HInv, NEW f \in others, Give(f)
    PROVE  SameHeap
  BY DEF HInv, Types, Give, SameHeap

----------------------------------------------------------------------------
(* Who holds what.                                                         *)

\* What is in use has one place in the list, and IndexOf finds it.
LEMMA UsedFacts ==
    ASSUME NEW s, Ordered(s), NEW u, u \in UsedIn(s)
    PROVE  \E i \in 1..Len(s) :
             /\ ~s[i].free /\ u = <<s[i].at + Header, s[i].size>> /\ u[1] \in Nat \ {0} /\ u[2] \in Nat
             /\ \A j \in 1..Len(s) : s[j].at + Header = u[1] => j = i
  <1>1. PICK i \in 1..Len(s) : ~s[i].free /\ u = <<s[i].at + Header, s[i].size>>
    BY DEF UsedIn
  <1>2. s \in Seq(Block) /\ Separate(s)
    BY DEF Ordered
  <1>3. PICK x, y \in Nat : x = s[i].at /\ y = s[i].size
    BY <1>2, InList, BlockFacts
  <1>4. u[1] = x + 2 /\ u[2] = y
    BY <1>1, <1>3, Numbers
  <1>5. ASSUME NEW j \in 1..Len(s), s[j].at + Header = u[1] PROVE j = i
    <2>1. PICK z \in Nat : z = s[j].at
      BY <1>2, InList, BlockFacts
    <2>2. z + 2 = x + 2
      BY <1>4, <1>5, <2>1, Numbers
    <2>3. z = x
      BY <2>2
    <2> QED
      BY <1>2, <1>3, <2>1, <2>3, AtTells
  <1> QED
    BY <1>1, <1>3, <1>4, <1>5, SMTT(60)

LEMMA UsedOnce ==
    ASSUME NEW s, Ordered(s), NEW u \in UsedIn(s), NEW v \in UsedIn(s), u[1] = v[1]
    PROVE  u = v
  <1>1. PICK i \in 1..Len(s) :
          /\ u = <<s[i].at + Header, s[i].size>>
          /\ \A j \in 1..Len(s) : s[j].at + Header = u[1] => j = i
    BY UsedFacts
  <1>2. PICK k \in 1..Len(s) : v = <<s[k].at + Header, s[k].size>>
    BY UsedFacts
  <1>3. k = i
    BY <1>1, <1>2
  <1> QED
    BY <1>1, <1>2, <1>3

LEMMA IndexFacts ==
    ASSUME Ordered(blocks), NEW u, u \in UsedIn(blocks)
    PROVE  /\ IndexOf(u[1]) \in 1..Len(blocks) /\ ~blocks[IndexOf(u[1])].free
           /\ u = <<blocks[IndexOf(u[1])].at + Header, blocks[IndexOf(u[1])].size>>
  <1>1. PICK i \in 1..Len(blocks) :
          /\ ~blocks[i].free /\ u = <<blocks[i].at + Header, blocks[i].size>>
          /\ \A j \in 1..Len(blocks) : blocks[j].at + Header = u[1] => j = i
    BY UsedFacts
  <1>2. blocks[i].at + Header = u[1]
    BY <1>1
  <1>3. IndexOf(u[1]) \in 1..Len(blocks) /\ blocks[IndexOf(u[1])].at + Header = u[1]
    BY <1>2 DEF IndexOf
  <1>4. IndexOf(u[1]) = i
    BY <1>1, <1>3
  <1> QED
    BY <1>1, <1>4

\* What is free is nobody's.
LEMMA FreeIsNobodys ==
    ASSUME NEW s, Ordered(s), NEW i \in 1..Len(s), s[i].free
    PROVE  /\ s[i].at + Header \in Nat \ {0}
           /\ \A u \in UsedIn(s) : u[1] # s[i].at + Header
  <1>1. s[i] \in Block
    BY InList DEF Ordered
  <1>2. PICK x \in Nat : x = s[i].at
    BY <1>1, BlockFacts
  <1>3. s[i].at + Header \in Nat \ {0}
    BY <1>2, Numbers
  <1>4. ASSUME NEW u \in UsedIn(s), u[1] = s[i].at + Header PROVE FALSE
    <2>1. PICK k \in 1..Len(s) : ~s[k].free /\ \A j \in 1..Len(s) : s[j].at + Header = u[1] => j = k
      BY UsedFacts
    <2>2. i = k
      BY <1>4, <2>1
    <2> QED
      BY <2>1, <2>2
  <1> QED
    BY <1>3, <1>4

LEMMA PlaceFacts ==
    ASSUME NEW o \in Owners
    PROVE  /\ <<o, "ptr">> \in Places /\ <<o, "old">> \in Places /\ <<o, "ptr">> # <<o, "old">>
           /\ Val(<<o, "ptr">>) = ptr[o] /\ Val(<<o, "old">>) = old[o]
  BY DEF Places, Val

\* Every place is an owner's ptr or old.
LEMMA PlaceIs ==
    ASSUME NEW q \in Places
    PROVE  \E o \in Owners : q = <<o, "ptr">> \/ q = <<o, "old">>
  BY DEF Places

\* A new block for owner o, who puts what it had aside.
NowHas(o, x) ==
    /\ o \in Owners /\ ptr \in [Owners -> Nat] /\ old \in [Owners -> Nat]
    /\ ptr' = [ptr EXCEPT ![o] = x] /\ old' = [old EXCEPT ![o] = ptr[o]] /\ old[o] = 0

LEMMA HasVals ==
    ASSUME NEW o, NEW x, NowHas(o, x)
    PROVE  /\ Val(<<o, "ptr">>)' = x /\ Val(<<o, "old">>)' = Val(<<o, "ptr">>) /\ Val(<<o, "old">>) = 0
           /\ \A q \in Places : q # <<o, "ptr">> /\ q # <<o, "old">> => Val(q)' = Val(q)
  <1>1. Val(<<o, "ptr">>)' = x
    BY DEF NowHas, Val
  <1>2. Val(<<o, "old">>)' = ptr[o] /\ Val(<<o, "ptr">>) = ptr[o] /\ Val(<<o, "old">>) = 0
    BY DEF NowHas, Val
  <1>3. ASSUME NEW q \in Places, q # <<o, "ptr">>, q # <<o, "old">> PROVE Val(q)' = Val(q)
    <2>1. PICK r \in Owners : q = <<r, "ptr">> \/ q = <<r, "old">>
      BY PlaceIs
    <2>2. r # o
      BY <1>3, <2>1
    <2>3. ptr'[r] = ptr[r] /\ old'[r] = old[r]
      BY <2>2 DEF NowHas
    <2> QED
      BY <2>1, <2>3 DEF Val
  <1> QED
    BY <1>1, <1>2, <1>3

LEMMA HasHolding ==
    ASSUME Holding, NEW o, NEW x, NowHas(o, x), x \in Nat \ {0}, NEW n,
           \A u \in UsedIn(blocks) : u[1] # x /\ u[1] # 0,
           UsedIn(blocks') = UsedIn(blocks) \cup {<<x, n>>}
    PROVE  Holding'
  <1>1. PICK a, b \in Places : a = <<o, "ptr">> /\ b = <<o, "old">> /\ a # b
    BY PlaceFacts DEF NowHas
  <1>2. /\ Val(a)' = x /\ Val(b)' = Val(a) /\ Val(b) = 0
        /\ \A q \in Places : q # a /\ q # b => Val(q)' = Val(q)
    BY <1>1, HasVals
  <1>3. /\ \A p \in Places : Val(p) # 0 => \E u \in UsedIn(blocks) : u[1] = Val(p)
        /\ \A p, q \in Places : Val(p) # 0 /\ Val(p) = Val(q) => p = q
        /\ \A u \in UsedIn(blocks) : \E p \in Places : Val(p) = u[1]
    BY DEF Holding
  <1>4. \A q \in Places : Val(q) # x
    BY <1>3
  <1>5. ASSUME NEW p \in Places, Val(p)' # 0 PROVE \E u \in UsedIn(blocks') : u[1] = Val(p)'
    <2>1. CASE p = a
      <3>1. <<x, n>>[1] = x
        OBVIOUS
      <3> QED
        BY <1>2, <2>1, <3>1
    <2>2. CASE p = b
      BY <1>2, <1>3, <1>5, <2>2
    <2>3. CASE p # a /\ p # b
      BY <1>2, <1>3, <1>5, <2>3
    <2> QED
      BY <2>1, <2>2, <2>3
  <1>6. ASSUME NEW p \in Places, NEW q \in Places, Val(p)' # 0, Val(p)' = Val(q)' PROVE p = q
    <2>1. CASE p = a
      <3>1. Val(q)' = x
        BY <1>2, <1>6, <2>1
      <3> QED
        BY <1>2, <1>4, <2>1, <3>1
    <2>2. CASE q = a
      <3>1. Val(p)' = x
        BY <1>2, <1>6, <2>2
      <3> QED
        BY <1>2, <1>4, <2>2, <3>1
    <2>3. CASE p # a /\ q # a
      <3>1. PICK v \in Places : Val(v) = Val(p)' /\ ((p = b /\ v = a) \/ (p # b /\ v = p))
        BY <1>2, <2>3
      <3>2. PICK w \in Places : Val(w) = Val(q)' /\ ((q = b /\ w = a) \/ (q # b /\ w = q))
        BY <1>2, <2>3
      <3>3. v = w
        BY <1>3, <1>6, <3>1, <3>2
      <3> QED
        BY <2>3, <3>1, <3>2, <3>3
    <2> QED
      BY <2>1, <2>2, <2>3
  <1>7. ASSUME NEW u \in UsedIn(blocks') PROVE \E p \in Places : Val(p)' = u[1]
    <2>1. CASE u = <<x, n>>
      BY <1>2, <2>1
    <2>2. CASE u \in UsedIn(blocks)
      <3>1. PICK p \in Places : Val(p) = u[1]
        BY <1>3, <2>2
      <3>2. p # b
        BY <1>2, <2>2, <3>1
      <3> QED
        BY <1>2, <3>1, <3>2
    <2> QED
      BY <2>1, <2>2
  <1>8. UsedIn(blocks)' = UsedIn(blocks')
    BY DEF UsedIn
  <1> QED
    BY <1>5, <1>6, <1>7, <1>8 DEF Holding

\* What was held at place q goes back.
NowLacks(q) ==
    /\ q \in Places /\ Val(q)' = 0
    /\ \A p \in Places : p # q => Val(p)' = Val(p)

LEMMA LacksHolding ==
    ASSUME Holding, NEW q, NowLacks(q), NEW e, e \in UsedIn(blocks), e[1] = Val(q), e[1] # 0,
           \A u \in UsedIn(blocks) : u[1] = e[1] => u = e,
           UsedIn(blocks') = UsedIn(blocks) \ {e}
    PROVE  Holding'
  <1>1. q \in Places /\ Val(q)' = 0 /\ \A p \in Places : p # q => Val(p)' = Val(p)
    BY DEF NowLacks
  <1>2. /\ \A p \in Places : Val(p) # 0 => \E u \in UsedIn(blocks) : u[1] = Val(p)
        /\ \A p, r \in Places : Val(p) # 0 /\ Val(p) = Val(r) => p = r
        /\ \A u \in UsedIn(blocks) : \E p \in Places : Val(p) = u[1]
    BY DEF Holding
  <1>3. ASSUME NEW p \in Places, Val(p)' # 0 PROVE \E u \in UsedIn(blocks') : u[1] = Val(p)'
    <2>1. p # q /\ Val(p)' = Val(p)
      BY <1>1, <1>3
    <2>2. PICK u \in UsedIn(blocks) : u[1] = Val(p)
      BY <1>2, <1>3, <2>1
    <2>3. u # e
      BY <1>1, <1>2, <1>3, <2>1, <2>2
    <2> QED
      BY <2>1, <2>2, <2>3
  <1>4. ASSUME NEW p \in Places, NEW r \in Places, Val(p)' # 0, Val(p)' = Val(r)' PROVE p = r
    <2>1. p # q /\ r # q
      BY <1>1, <1>4
    <2> QED
      BY <1>1, <1>2, <1>4, <2>1
  <1>5. ASSUME NEW u \in UsedIn(blocks') PROVE \E p \in Places : Val(p)' = u[1]
    <2>1. u \in UsedIn(blocks) /\ u # e
      OBVIOUS
    <2>2. PICK p \in Places : Val(p) = u[1]
      BY <1>2, <2>1
    <2>3. p # q
      BY <2>1, <2>2
    <2> QED
      BY <1>1, <2>2, <2>3
  <1>6. UsedIn(blocks)' = UsedIn(blocks')
    BY DEF UsedIn
  <1> QED
    BY <1>3, <1>4, <1>5, <1>6 DEF Holding

----------------------------------------------------------------------------
(* The steps.                                                              *)

\* The block list and its holders, apart from the frames.
ListInv ==
    /\ Ordered(blocks) /\ Holding
    /\ ptr \in [Owners -> Nat] /\ old \in [Owners -> Nat]

LEMMA HInvFacts ==
    ASSUME HInv
    PROVE  /\ ListInv /\ Growing /\ UnitsOf(blocks) = UnitsIn(HeapFrames)
           /\ bitmap \subseteq Frames /\ others \subseteq Frames /\ bitmap \cap others = {}
  BY DEF HInv, ListInv, Types, Ordered

LEMMA HInvNext ==
    ASSUME ListInv', Growing', UnitsOf(blocks') = UnitsIn(HeapFrames)',
           bitmap' \subseteq Frames, others' \subseteq Frames, bitmap' \cap others' = {}
    PROVE  HInv'
  <1>1. UnitsOf(blocks)' = UnitsOf(blocks')
    BY DEF UnitsOf, Extent, End
  <1>2. Frames' = Frames
    BY DEF Frames
  <1> QED
    BY <1>1, <1>2 DEF HInv, ListInv, Types, Ordered

\* A free block of the list, or of the list with the new run, is handed out.
Hands(o, s, i, want) ==
    /\ o \in Owners /\ old[o] = 0 /\ Ordered(s) /\ UsedIn(s) = UsedIn(blocks)
    /\ i \in 1..Len(s) /\ s[i].free /\ want \in Nat \ {0} /\ want <= s[i].size
    /\ Hand(o, s, i, want, ptr[o])

\* The effect on the holders: the block is new and large enough.
Gets(o, want) ==
    \E x, n \in Nat :
        /\ n >= want /\ x # 0 /\ \A u \in UsedIn(blocks) : u[1] # x
        /\ UsedIn(blocks') = UsedIn(blocks) \cup {<<x, n>>}
        /\ NowHas(o, x)

LEMMA HandKeeps ==
    ASSUME ListInv, NEW o, NEW s, NEW i, NEW want, Hands(o, s, i, want)
    PROVE  ListInv' /\ UnitsOf(blocks') = UnitsOf(s) /\ Gets(o, want)
  <1>1. Serves(s, blocks', i, want)
    BY DEF Hands, Hand, Serves
  <1>2. Ordered(blocks') /\ UnitsOf(blocks') = UnitsOf(s)
    BY <1>1, Served
  <1>3. PICK n \in Nat : n >= want /\ UsedIn(blocks') = UsedIn(s) \cup {<<s[i].at + Header, n>>}
    BY <1>1, Served
  <1>4. PICK x : x = s[i].at + Header
    OBVIOUS
  <1>5. x \in Nat \ {0} /\ \A u \in UsedIn(s) : u[1] # x
    BY <1>4, FreeIsNobodys DEF Hands
  <1>6. NowHas(o, x)
    BY <1>4 DEF Hands, Hand, NowHas, ListInv
  <1>7. UsedIn(s) = UsedIn(blocks)
    BY DEF Hands
  <1>8. \A u \in UsedIn(blocks) : u[1] # x /\ u[1] # 0
    <2>1. ASSUME NEW u \in UsedIn(blocks) PROVE u[1] # 0
      BY UsedFacts DEF ListInv
    <2> QED
      BY <1>5, <1>7, <2>1
  <1>9. UsedIn(blocks') = UsedIn(blocks) \cup {<<x, n>>}
    BY <1>3, <1>4, <1>7
  <1>10. Holding'
    BY <1>5, <1>6, <1>8, <1>9, HasHolding DEF ListInv
  <1>11. ptr' \in [Owners -> Nat] /\ old' \in [Owners -> Nat]
    BY <1>5, <1>6 DEF NowHas
  <1>12. Gets(o, want)
    BY <1>3, <1>5, <1>6, <1>8, <1>9 DEF Gets
  <1>13. Ordered(blocks)'
    BY <1>2 DEF Ordered, Separate, Tight, End
  <1> QED
    BY <1>2, <1>10, <1>11, <1>12, <1>13 DEF ListInv

\* A block goes back to the list.
Loses(q) ==
    \E e \in UsedIn(blocks) :
        /\ e[1] = Val(q) /\ e[1] # 0 /\ NowLacks(q)
        /\ UsedIn(blocks') = UsedIn(blocks) \ {e}

LEMMA FreeKeeps ==
    ASSUME ListInv, NEW q, NowLacks(q), Val(q) # 0, blocks' = Freed(Val(q)),
           ptr' \in [Owners -> Nat], old' \in [Owners -> Nat]
    PROVE  ListInv' /\ UnitsOf(blocks') = UnitsOf(blocks) /\ Loses(q)
  <1>1. Ordered(blocks) /\ Holding /\ q \in Places
    BY DEF ListInv, NowLacks
  <1>2. PICK e \in UsedIn(blocks) : e[1] = Val(q)
    BY <1>1 DEF Holding
  <1>3. PICK i : i = IndexOf(Val(q))
    OBVIOUS
  <1>4. i \in 1..Len(blocks) /\ ~blocks[i].free /\ e = <<blocks[i].at + Header, blocks[i].size>>
    BY <1>1, <1>2, <1>3, IndexFacts
  <1>5. Frees(blocks, blocks', i)
    BY <1>1, <1>3, <1>4 DEF Frees, Freed
  <1>6. /\ Ordered(blocks') /\ UnitsOf(blocks') = UnitsOf(blocks)
        /\ UsedIn(blocks') = UsedIn(blocks) \ {e}
    BY <1>4, <1>5, Released
  <1>7. \A u \in UsedIn(blocks) : u[1] = e[1] => u = e
    BY <1>1, UsedOnce
  <1>8. Holding'
    BY <1>1, <1>2, <1>6, <1>7, LacksHolding
  <1>9. Loses(q)
    BY <1>2, <1>6 DEF Loses
  <1>10. Ordered(blocks)'
    BY <1>6 DEF Ordered, Separate, Tight, End
  <1> QED
    BY <1>6, <1>8, <1>9, <1>10 DEF ListInv

\* The heap without its new frames, and with them.
LEMMA UnitsAdded ==
    ASSUME NEW F \in SUBSET Nat, NEW G \in SUBSET Nat, F \cap G = {}
    PROVE  UnitsIn(F \cup G) = UnitsIn(F) \cup UnitsIn(G) /\ UnitsIn(F) \cap UnitsIn(G) = {}
  <1>1. F \cup G \in SUBSET Nat
    OBVIOUS
  <1>2. /\ UnitsIn(F) = {u \in Nat : u \div PageSize \in F} /\ UnitsIn(G) = {u \in Nat : u \div PageSize \in G}
        /\ UnitsIn(F \cup G) = {u \in Nat : u \div PageSize \in F \cup G}
    BY <1>1, UnitsInFacts
  <1> QED
    BY <1>2

\* grow_heap with a run of n frames at f: the list it leaves.
Gains(f, n, s) ==
    /\ n \in Nat \ {0} /\ f = AllocContig(bitmap, n) /\ f # 0
    /\ bitmap' = bitmap \ (f..(f + n - 1)) /\ others' = others
    /\ s = Merged(blocks, RunBlock(f, n))

LEMMA GainKeeps ==
    ASSUME HInv, NEW f, NEW n, NEW s, Gains(f, n, s)
    PROVE  /\ Ordered(s) /\ UnitsOf(s) = UnitsIn(HeapFrames)' /\ UsedIn(s) = UsedIn(blocks)
           /\ Len(s) \in 1..Len(s) /\ s[Len(s)].free
           /\ \A j \in 1..Len(s) : j # Len(s) => j \in 1..Len(blocks) /\ s[j] = blocks[j]
           /\ bitmap' \subseteq Frames /\ others' \subseteq Frames /\ bitmap' \cap others' = {}
           /\ others' = others
  <1>1. /\ Ordered(blocks) /\ UnitsOf(blocks) = UnitsIn(HeapFrames)
        /\ bitmap \subseteq Frames /\ others \subseteq Frames /\ bitmap \cap others = {}
    BY HInvFacts DEF ListInv
  <1>2. PICK run : run = f..(f + n - 1)
    OBVIOUS
  <1>3. f \in Nat /\ run \subseteq bitmap /\ n \in Nat \ {0}
    BY <1>1, <1>2, Contig DEF Gains
  <1>4. PICK b : b = RunBlock(f, n)
    OBVIOUS
  <1>5. b \in Block /\ Extent(b) = UnitsIn(run)
    BY <1>2, <1>3, <1>4, RunUnits
  <1>6. b.free
    BY <1>4 DEF RunBlock
  <1>7. HeapFrames' = HeapFrames \cup run /\ HeapFrames \cap run = {}
    BY <1>1, <1>2, <1>3 DEF Gains, HeapFrames
  <1>8. HeapFrames \in SUBSET Nat /\ run \in SUBSET Nat
    BY <1>1, <1>3, Numbers DEF HeapFrames
  <1>9. /\ UnitsIn(HeapFrames \cup run) = UnitsIn(HeapFrames) \cup UnitsIn(run)
        /\ UnitsIn(HeapFrames) \cap UnitsIn(run) = {}
    BY <1>7, <1>8, UnitsAdded
  <1>10. Extends(blocks, s, b)
    BY <1>1, <1>4, <1>5, <1>6, <1>9 DEF Gains, Extends
  <1>11. UnitsIn(HeapFrames)' = UnitsIn(HeapFrames \cup run)
    BY <1>7 DEF UnitsIn, FrameUnits
  <1>12. UnitsOf(s) = UnitsIn(HeapFrames)'
    <2>1. UnitsOf(s) = UnitsOf(blocks) \cup Extent(b)
      BY <1>10, Extended
    <2>2. UnitsOf(s) = UnitsIn(HeapFrames \cup run)
      BY <1>1, <1>5, <1>9, <2>1
    <2> QED
      BY <1>11, <2>2
  <1>13. bitmap' \subseteq Frames /\ others' \subseteq Frames /\ bitmap' \cap others' = {} /\ others' = others
    BY <1>1 DEF Gains
  <1> QED
    BY <1>10, <1>12, <1>13, Extended

\* A step that the holders do not notice.
Quiet == UsedIn(blocks') = UsedIn(blocks) /\ ptr' = ptr /\ old' = old /\ others' = others

LEMMA SameUnitsIn ==
    ASSUME HInv, bitmap' = bitmap, others' = others
    PROVE  /\ UnitsIn(HeapFrames)' = UnitsIn(HeapFrames)
           /\ bitmap' \subseteq Frames /\ others' \subseteq Frames /\ bitmap' \cap others' = {}
  <1>1. HeapFrames' = HeapFrames
    BY DEF HeapFrames
  <1> QED
    BY <1>1, HInvFacts DEF UnitsIn, FrameUnits

LEMMA KmallocStep ==
    ASSUME HInv, NEW o \in Owners, NEW want \in Sizes, old[o] = 0, Kmalloc(o, want, ptr[o])
    PROVE  HInv' /\ (Quiet \/ (Gets(o, want) /\ others' = others))
  <1>1. /\ ListInv /\ UnitsOf(blocks) = UnitsIn(HeapFrames) /\ Ordered(blocks)
        /\ blocks \in Seq(Block) /\ Len(blocks) \in Nat
    BY HInvFacts DEF ListInv, Ordered
  <1>2. want \in Nat \ {0}
    BY HeapAssumption
  <1>3. bitmap' = bitmap /\ others' = others /\ grow = NoGrow
    BY DEF Kmalloc
  <1>4. /\ UnitsIn(HeapFrames)' = UnitsIn(HeapFrames)
        /\ bitmap' \subseteq Frames /\ others' \subseteq Frames /\ bitmap' \cap others' = {}
    BY <1>3, SameUnitsIn
  <1>5. CASE Fits(want) # {} /\ Hand(o, blocks, Min(Fits(want)), want, ptr[o]) /\ grow' = grow
    <2>1. PICK i : i = Min(Fits(want))
      OBVIOUS
    <2>2. Fits(want) \in SUBSET Nat
      BY <1>1 DEF Fits
    <2>3. i \in Fits(want)
      BY <1>5, <2>1, <2>2, MinFacts
    <2>4. i \in 1..Len(blocks) /\ blocks[i].free /\ blocks[i].size >= want
      BY <2>3 DEF Fits
    <2>5. want <= blocks[i].size
      <3>1. blocks[i].size \in Nat
        BY <1>1, <2>4, InList, BlockFacts
      <3> QED
        BY <1>2, <2>4, <3>1
    <2>6. Hands(o, blocks, i, want)
      BY <1>1, <1>2, <1>5, <2>1, <2>4, <2>5 DEF Hands
    <2>7. ListInv' /\ UnitsOf(blocks') = UnitsOf(blocks) /\ Gets(o, want)
      BY <1>1, <2>6, HandKeeps
    <2>8. Growing'
      BY <1>3, <1>5 DEF Growing, NoGrow
    <2>9. HInv'
      BY <1>1, <1>4, <2>7, <2>8, HInvNext
    <2> QED
      BY <1>3, <2>7, <2>9
  <1>6. CASE /\ Fits(want) = {} /\ blocks' = blocks /\ ptr' = ptr /\ old' = old
             /\ grow' = [own |-> o, want |-> want, count |-> Needed(want), tries |-> 0, from |-> ptr[o]]
    <2>1. \A i \in 1..Len(blocks) : blocks[i].free => blocks[i].size < want
      <3> SUFFICES ASSUME NEW i \in 1..Len(blocks), blocks[i].free PROVE blocks[i].size < want
        OBVIOUS
      <3>1. ~(blocks[i].size >= want)
        BY <1>6 DEF Fits
      <3>2. blocks[i].size \in Nat
        BY <1>1, InList, BlockFacts
      <3> QED
        BY <1>2, <3>1, <3>2
    <2>2. Needed(want) \in Nat \ {0} /\ ptr[o] \in Nat
      BY <1>1, <1>2, Numbers DEF ListInv
    <2>3. grow' \in [own : Owners, want : Nat \ {0}, count : Nat \ {0}, tries : Nat, from : Nat]
      BY <1>2, <1>6, <2>2
    <2>4. Growing'
      BY <1>6, <2>1, <2>3 DEF Growing, Index
    <2>5. ListInv'
      BY <1>1, <1>6 DEF ListInv, Ordered, Separate, Tight, End, Holding, Val, UsedIn
    <2>6. HInv'
      BY <1>1, <1>4, <1>6, <2>4, <2>5, HInvNext
    <2> QED
      BY <1>3, <1>6, <2>6 DEF Quiet
  <1> QED
    BY <1>3, <1>5, <1>6 DEF Kmalloc

LEMMA KfreeStep ==
    ASSUME HInv, NEW o \in Owners, Kfree(o)
    PROVE  HInv' /\ Loses(<<o, "ptr">>) /\ others' = others
  <1>1. ListInv /\ UnitsOf(blocks) = UnitsIn(HeapFrames) /\ ptr \in [Owners -> Nat] /\ old \in [Owners -> Nat]
    BY HInvFacts DEF ListInv
  <1>2. /\ grow = NoGrow /\ ptr[o] # 0 /\ blocks' = Freed(ptr[o]) /\ ptr' = [ptr EXCEPT ![o] = 0]
        /\ bitmap' = bitmap /\ others' = others /\ old' = old /\ grow' = grow
    BY DEF Kfree
  <1>3. PICK q : q = <<o, "ptr">>
    OBVIOUS
  <1>4. q \in Places /\ Val(q) = ptr[o]
    BY <1>3, PlaceFacts
  <1>5. NowLacks(q)
    <2>1. Val(q)' = 0
      BY <1>1, <1>2, <1>3 DEF Val
    <2>2. ASSUME NEW p \in Places, p # q PROVE Val(p)' = Val(p)
      <3>1. PICK r \in Owners : p = <<r, "ptr">> \/ p = <<r, "old">>
        BY PlaceIs
      <3>2. CASE p = <<r, "ptr">>
        <4>1. r # o
          BY <1>3, <2>2, <3>2
        <4> QED
          BY <1>1, <1>2, <3>2, <4>1 DEF Val
      <3>3. CASE p = <<r, "old">>
        BY <1>2, <3>3 DEF Val
      <3> QED
        BY <3>1, <3>2, <3>3
    <2> QED
      BY <1>4, <2>1, <2>2 DEF NowLacks
  <1>6. ptr' \in [Owners -> Nat] /\ old' \in [Owners -> Nat]
    BY <1>1, <1>2
  <1>7. ListInv' /\ UnitsOf(blocks') = UnitsOf(blocks) /\ Loses(q)
    BY <1>1, <1>2, <1>4, <1>5, <1>6, FreeKeeps
  <1>8. Growing'
    BY <1>2 DEF Growing, NoGrow
  <1>9. HInv'
    BY <1>1, <1>2, <1>7, <1>8, SameUnitsIn, HInvNext
  <1> QED
    BY <1>2, <1>3, <1>7, <1>9

LEMMA KreallocFreeStep ==
    ASSUME HInv, NEW o \in Owners, KreallocFree(o)
    PROVE  HInv' /\ Loses(<<o, "old">>) /\ others' = others
  <1>1. ListInv /\ UnitsOf(blocks) = UnitsIn(HeapFrames) /\ ptr \in [Owners -> Nat] /\ old \in [Owners -> Nat]
    BY HInvFacts DEF ListInv
  <1>2. /\ grow = NoGrow /\ old[o] # 0 /\ blocks' = Freed(old[o]) /\ old' = [old EXCEPT ![o] = 0]
        /\ bitmap' = bitmap /\ others' = others /\ ptr' = ptr /\ grow' = grow
    BY DEF KreallocFree
  <1>3. PICK q : q = <<o, "old">>
    OBVIOUS
  <1>4. q \in Places /\ Val(q) = old[o]
    BY <1>3, PlaceFacts
  <1>5. NowLacks(q)
    <2>1. Val(q)' = 0
      BY <1>1, <1>2, <1>3 DEF Val
    <2>2. ASSUME NEW p \in Places, p # q PROVE Val(p)' = Val(p)
      <3>1. PICK r \in Owners : p = <<r, "ptr">> \/ p = <<r, "old">>
        BY PlaceIs
      <3>2. CASE p = <<r, "old">>
        <4>1. r # o
          BY <1>3, <2>2, <3>2
        <4> QED
          BY <1>1, <1>2, <3>2, <4>1 DEF Val
      <3>3. CASE p = <<r, "ptr">>
        BY <1>2, <3>3 DEF Val
      <3> QED
        BY <3>1, <3>2, <3>3
    <2> QED
      BY <1>4, <2>1, <2>2 DEF NowLacks
  <1>6. ptr' \in [Owners -> Nat] /\ old' \in [Owners -> Nat]
    BY <1>1, <1>2
  <1>7. ListInv' /\ UnitsOf(blocks') = UnitsOf(blocks) /\ Loses(q)
    BY <1>1, <1>2, <1>4, <1>5, <1>6, FreeKeeps
  <1>8. Growing'
    BY <1>2 DEF Growing, NoGrow
  <1>9. HInv'
    BY <1>1, <1>2, <1>7, <1>8, SameUnitsIn, HInvNext
  <1> QED
    BY <1>2, <1>3, <1>7, <1>9

\* What a kmalloc that grows has free is too small, with the new run too if
\* that was not enough.
LEMMA NoneFits ==
    ASSUME HInv, grow # NoGrow, NEW f, NEW s, Gains(f, grow.count, s),
           ~Enough(Last(s).size, grow.want)
    PROVE  \A j \in 1..Len(s) : s[j].free => s[j].size < grow.want
  <1>1. /\ Growing /\ grow.want \in Nat
    BY HInvFacts DEF Growing
  <1>2. /\ Ordered(s) /\ Len(s) \in 1..Len(s)
        /\ \A j \in 1..Len(s) : j # Len(s) => j \in 1..Len(blocks) /\ s[j] = blocks[j]
    BY GainKeeps
  <1>3. s[Len(s)].size < grow.want
    <2>1. s[Len(s)].size \in Nat
      BY <1>2, InList, BlockFacts DEF Ordered
    <2> QED
      BY <1>1, <2>1 DEF Enough, Last
  <1>4. ASSUME NEW j \in 1..Len(s), j # Len(s), s[j].free PROVE s[j].size < grow.want
    BY <1>1, <1>2, <1>4 DEF Growing, Index
  <1> QED
    BY <1>3, <1>4

\* The three outcomes of a call of pmm_alloc_contig in grow_heap.
GrowHands(f, s) ==
    /\ Gains(f, grow.count, s) /\ grow' = NoGrow
    /\ Hands(grow.own, s, Len(s), grow.want)
GrowLess(f, s) ==
    /\ Gains(f, grow.count, s) /\ ~Enough(Last(s).size, grow.want)
    /\ blocks' = s /\ ptr' = ptr /\ old' = old
    /\ grow' = IF grow.tries = Tries THEN NoGrow
               ELSE [grow EXCEPT !.tries = @ + 1, !.count = Needed(grow.want)]
GrowNone ==
    /\ UNCHANGED <<blocks, bitmap, others, ptr, old>>
    /\ grow' = IF grow.count > 1 THEN [grow EXCEPT !.count = @ \div 2] ELSE NoGrow

LEMMA GrowIs ==
    ASSUME HInv, Grow
    PROVE  grow # NoGrow /\ (GrowNone \/ \E f, s : GrowHands(f, s) \/ GrowLess(f, s))
  <1>1. /\ grow # NoGrow /\ others' = others
        /\ grow \in [own : Owners, want : Nat \ {0}, count : Nat \ {0}, tries : Nat, from : Nat]
        /\ grow.from = ptr[grow.own] /\ old[grow.own] = 0
    BY HInvFacts DEF Grow, Growing
  <1>2. PICK f : f = AllocContig(bitmap, grow.count)
    OBVIOUS
  <1>3. PICK s : s = Merged(blocks, RunBlock(f, grow.count))
    OBVIOUS
  <1>4. grow.count \in Nat \ {0} /\ grow.want \in Nat \ {0} /\ grow.own \in Owners
    BY <1>1
  <1>5. CASE f # 0 /\ bitmap' = bitmap \ (f..(f + grow.count - 1))
    <2>1. Gains(f, grow.count, s)
      BY <1>1, <1>2, <1>3, <1>4, <1>5 DEF Gains
    <2>2. Ordered(s) /\ UsedIn(s) = UsedIn(blocks) /\ Len(s) \in 1..Len(s) /\ s[Len(s)].free
      BY <2>1, GainKeeps
    <2>3. CASE /\ Enough(Last(s).size, grow.want) /\ grow' = NoGrow
               /\ Hand(grow.own, s, Len(s), grow.want, grow.from)
      <3>1. s[Len(s)].size \in Nat
        BY <2>2, InList, BlockFacts DEF Ordered
      <3>2. grow.want <= s[Len(s)].size
        BY <1>4, <2>3, <3>1 DEF Enough, Last
      <3>3. Hands(grow.own, s, Len(s), grow.want)
        BY <1>1, <1>4, <2>2, <2>3, <3>2 DEF Hands
      <3>4. GrowHands(f, s)
        BY <2>1, <2>3, <3>3 DEF GrowHands
      <3> QED
        BY <1>1, <3>4
    <2>4. CASE /\ ~Enough(Last(s).size, grow.want) /\ blocks' = s /\ ptr' = ptr /\ old' = old
               /\ grow' = IF grow.tries = Tries THEN NoGrow
                          ELSE [grow EXCEPT !.tries = @ + 1, !.count = Needed(grow.want)]
      <3>1. GrowLess(f, s)
        BY <2>1, <2>4 DEF GrowLess
      <3> QED
        BY <1>1, <3>1
    <2> QED
      BY <1>2, <1>3, <1>5, <2>3, <2>4 DEF Grow
  <1>6. CASE f = 0 /\ blocks' = blocks /\ bitmap' = bitmap /\ ptr' = ptr /\ old' = old
             /\ grow' = IF grow.count > 1 THEN [grow EXCEPT !.count = @ \div 2] ELSE NoGrow
    <2>1. GrowNone
      BY <1>1, <1>6 DEF GrowNone
    <2> QED
      BY <1>1, <2>1
  <1> QED
    BY <1>2, <1>3, <1>5, <1>6 DEF Grow

LEMMA GrowHandsStep ==
    ASSUME HInv, NEW f, NEW s, GrowHands(f, s)
    PROVE  HInv' /\ Gets(grow.own, grow.want) /\ others' = others
  <1>1. ListInv
    BY HInvFacts
  <1>2. /\ UnitsOf(s) = UnitsIn(HeapFrames)' /\ others' = others
        /\ bitmap' \subseteq Frames /\ others' \subseteq Frames /\ bitmap' \cap others' = {}
    BY GainKeeps DEF GrowHands
  <1>3. ListInv' /\ UnitsOf(blocks') = UnitsOf(s) /\ Gets(grow.own, grow.want)
    BY <1>1, HandKeeps DEF GrowHands
  <1>4. Growing'
    BY DEF GrowHands, Growing, NoGrow
  <1>5. HInv'
    BY <1>2, <1>3, <1>4, HInvNext
  <1> QED
    BY <1>2, <1>3, <1>5

LEMMA GrowLessStep ==
    ASSUME HInv, grow # NoGrow, NEW f, NEW s, GrowLess(f, s)
    PROVE  HInv' /\ Quiet /\ \A j \in 1..Len(blocks') : blocks'[j].free => blocks'[j].size < grow.want
  <1>1. /\ ListInv /\ grow.from = ptr[grow.own] /\ old[grow.own] = 0
        /\ grow \in [own : Owners, want : Nat \ {0}, count : Nat \ {0}, tries : Nat, from : Nat]
    BY HInvFacts DEF Growing
  <1>2. /\ Ordered(s) /\ UnitsOf(s) = UnitsIn(HeapFrames)' /\ others' = others /\ UsedIn(s) = UsedIn(blocks)
        /\ bitmap' \subseteq Frames /\ others' \subseteq Frames /\ bitmap' \cap others' = {}
    BY GainKeeps DEF GrowLess
  <1>3. blocks' = s /\ ptr' = ptr /\ old' = old
    BY DEF GrowLess
  <1>4. \A j \in 1..Len(s) : s[j].free => s[j].size < grow.want
    BY NoneFits DEF GrowLess
  <1>5. Ordered(blocks)'
    BY <1>2, <1>3 DEF Ordered, Separate, Tight, End
  <1>6. Holding'
    <2>1. UsedIn(blocks)' = UsedIn(blocks)
      BY <1>2, <1>3 DEF UsedIn
    <2>2. \A p : Val(p)' = Val(p)
      BY <1>3 DEF Val
    <2> QED
      BY <1>1, <2>1, <2>2 DEF ListInv, Holding
  <1>7. Growing'
    <2>1. CASE grow.tries = Tries
      BY <2>1 DEF GrowLess, Growing, NoGrow
    <2>2. CASE grow.tries # Tries
      <3>1. grow' = [grow EXCEPT !.tries = @ + 1, !.count = Needed(grow.want)]
        BY <2>2 DEF GrowLess
      <3>2. Needed(grow.want) \in Nat \ {0} /\ grow.tries + 1 \in Nat
        BY <1>1, Numbers
      <3>3. /\ grow'.own = grow.own /\ grow'.want = grow.want /\ grow'.from = grow.from
            /\ grow' \in [own : Owners, want : Nat \ {0}, count : Nat \ {0}, tries : Nat, from : Nat]
        BY <1>1, <3>1, <3>2
      <3> QED
        BY <1>1, <1>3, <1>4, <3>3 DEF Growing, Index
    <2> QED
      BY <2>1, <2>2
  <1>8. ListInv'
    BY <1>1, <1>3, <1>5, <1>6 DEF ListInv
  <1>9. HInv'
    BY <1>2, <1>3, <1>7, <1>8, HInvNext
  <1> QED
    BY <1>2, <1>3, <1>4, <1>9 DEF Quiet

LEMMA GrowNoneStep ==
    ASSUME HInv, grow # NoGrow, GrowNone
    PROVE  HInv' /\ Quiet /\ \A j \in 1..Len(blocks') : blocks'[j].free => blocks'[j].size < grow.want
  <1>1. /\ ListInv /\ UnitsOf(blocks) = UnitsIn(HeapFrames)
        /\ grow.from = ptr[grow.own] /\ old[grow.own] = 0
        /\ grow \in [own : Owners, want : Nat \ {0}, count : Nat \ {0}, tries : Nat, from : Nat]
        /\ \A i \in 1..Len(blocks) : blocks[i].free => blocks[i].size < grow.want
    BY HInvFacts DEF Growing, Index
  <1>2. blocks' = blocks /\ bitmap' = bitmap /\ others' = others /\ ptr' = ptr /\ old' = old
    BY DEF GrowNone
  <1>3. Growing'
    <2>1. CASE ~(grow.count > 1)
      BY <2>1 DEF GrowNone, Growing, NoGrow
    <2>2. CASE grow.count > 1
      <3>1. grow' = [grow EXCEPT !.count = @ \div 2]
        BY <2>2 DEF GrowNone
      <3>2. grow.count \div 2 \in Nat \ {0}
        BY <1>1, <2>2, Halved
      <3>3. /\ grow'.own = grow.own /\ grow'.want = grow.want /\ grow'.from = grow.from
            /\ grow' \in [own : Owners, want : Nat \ {0}, count : Nat \ {0}, tries : Nat, from : Nat]
        BY <1>1, <3>1, <3>2
      <3> QED
        BY <1>1, <1>2, <3>3 DEF Growing, Index
    <2> QED
      BY <2>1, <2>2
  <1>4. ListInv'
    BY <1>1, <1>2 DEF ListInv, Ordered, Separate, Tight, End, Holding, Val, UsedIn
  <1>5. HInv'
    BY <1>1, <1>2, <1>3, <1>4, SameUnitsIn, HInvNext
  <1> QED
    BY <1>1, <1>2, <1>5 DEF Quiet

----------------------------------------------------------------------------
(* heap_init.                                                              *)

LEMMA NothingHeld ==
    ASSUME ptr = [o \in Owners |-> 0], old = [o \in Owners |-> 0], NEW s, blocks = s, UsedIn(s) = {}
    PROVE  Holding
  <1>1. ASSUME NEW p \in Places PROVE Val(p) = 0
    <2>1. PICK o \in Owners : p = <<o, "ptr">> \/ p = <<o, "old">>
      BY PlaceIs
    <2> QED
      BY <2>1 DEF Val
  <1> QED
    BY <1>1 DEF Holding

LEMMA InitHInv == Init => HInv
  <1> SUFFICES ASSUME Init PROVE HInv
    OBVIOUS
  <1>1. PICK reserved \in SUBSET Frames :
          LET avail == Frames \ reserved
              counts == {n \in Halves(Needed(PreWarm)) : Runs(avail, n) # {}}
              n == Max(counts)
              f == AllocContig(avail, n)
          IN  /\ others = reserved
              /\ \/ counts = {} /\ blocks = <<>> /\ bitmap = avail
                 \/ counts # {} /\ blocks = <<RunBlock(f, n)>> /\ bitmap = avail \ (f..(f + n - 1))
              /\ ptr = [o \in Owners |-> 0]
              /\ old = [o \in Owners |-> 0]
              /\ grow = NoGrow
    BY DEF Init
  <1>2. PICK avail : avail = Frames \ reserved
    OBVIOUS
  <1>3. PICK counts : counts = {n \in Halves(Needed(PreWarm)) : Runs(avail, n) # {}}
    OBVIOUS
  <1>4. /\ others = reserved /\ ptr = [o \in Owners |-> 0] /\ old = [o \in Owners |-> 0] /\ grow = NoGrow
    BY <1>1
  <1>5. ptr \in [Owners -> Nat] /\ old \in [Owners -> Nat] /\ Growing
    BY <1>4 DEF Growing
  <1>6. CASE counts = {} /\ blocks = <<>> /\ bitmap = avail
    <2>1. HeapFrames = {} /\ bitmap \subseteq Frames /\ others \subseteq Frames /\ bitmap \cap others = {}
      BY <1>2, <1>4, <1>6 DEF HeapFrames
    <2>2. blocks \in Seq(Block) /\ Len(blocks) = 0
      BY <1>6
    <2>3. UnitsOf(blocks) = {} /\ UsedIn(blocks) = {} /\ Separate(blocks) /\ Tight(blocks)
      BY <2>2 DEF UnitsOf, UsedIn, Separate, Tight
    <2>4. UnitsIn(HeapFrames) = {}
      BY <2>1 DEF UnitsIn
    <2> QED
      BY <1>4, <1>5, <2>1, <2>2, <2>3, <2>4, NothingHeld DEF HInv, Types
  <1>7. CASE /\ counts # {} /\ blocks = <<RunBlock(AllocContig(avail, Max(counts)), Max(counts))>>
             /\ bitmap = avail \ (AllocContig(avail, Max(counts))..(AllocContig(avail, Max(counts)) + Max(counts) - 1))
    <2>1. PICK n : n = Max(counts)
      OBVIOUS
    <2>2. PICK f : f = AllocContig(avail, n)
      OBVIOUS
    <2>3. PICK run : run = f..(f + n - 1)
      OBVIOUS
    <2>4. PICK b : b = RunBlock(f, n)
      OBVIOUS
    <2>5. blocks = <<b>> /\ bitmap = avail \ run
      BY <1>7, <2>1, <2>2, <2>3, <2>4
    <2>6. n \in Nat \ {0} /\ Runs(avail, n) # {}
      <3>1. PICK most \in Nat : most = Needed(PreWarm)
        BY Numbers, HeapAssumption
      <3>2. counts \in SUBSET Nat /\ \A x \in counts : x >= 1 /\ x <= most
        BY <1>3, <3>1 DEF Halves
      <3>3. n \in counts
        BY <1>7, <2>1, <3>2, MaxFacts
      <3> QED
        BY <1>3, <3>2, <3>3
    <2>7. f \in Nat \ {0} /\ run \subseteq avail
      BY <1>2, <2>2, <2>3, <2>6, Contig
    <2>8. b \in Block /\ Extent(b) = UnitsIn(run)
      BY <2>3, <2>4, <2>6, <2>7, RunUnits
    <2>9. HeapFrames = run /\ bitmap \subseteq Frames /\ others \subseteq Frames /\ bitmap \cap others = {}
      BY <1>2, <1>4, <2>5, <2>7 DEF HeapFrames
    <2>10. blocks \in Seq(Block) /\ Len(blocks) = 1 /\ blocks[1] = b /\ b.free /\ 1..Len(blocks) = {1}
      BY <2>4, <2>5, <2>8 DEF RunBlock
    <2>11. UnitsOf(blocks) = UnitsIn(HeapFrames)
      BY <2>8, <2>9, <2>10 DEF UnitsOf
    <2>12. UsedIn(blocks) = {} /\ Separate(blocks)
      BY <2>10 DEF UsedIn, Separate
    <2>13. Tight(blocks)
      BY <2>10 DEF Tight
    <2> QED
      BY <1>4, <1>5, <2>9, <2>10, <2>11, <2>12, <2>13, NothingHeld DEF HInv, Types
  <1> QED
    BY <1>1, <1>2, <1>3, <1>6, <1>7

----------------------------------------------------------------------------
(* The invariant.                                                          *)

\* What a step is to the holders, and what it leaves a kmalloc that gives up.
StepIs ==
    /\ \/ Quiet
       \/ \E o \in Owners, want \in Nat \ {0} : Gets(o, want) /\ others' = others
       \/ \E q \in Places : Loses(q) /\ others' = others
       \/ Take \/ \E f \in others : Give(f)
    /\ grow # NoGrow /\ grow' = NoGrow /\ ptr' = ptr =>
          \A j \in 1..Len(blocks') : blocks'[j].free => blocks'[j].size < grow.want

\* A block that is handed out is not where the owner's was.
LEMMA GetsMoves ==
    ASSUME HInv, NEW o, NEW want, Gets(o, want)
    PROVE  ptr' # ptr
  <1>1. PICK x \in Nat : x # 0 /\ (\A u \in UsedIn(blocks) : u[1] # x) /\ NowHas(o, x)
    BY DEF Gets
  <1>2. ptr'[o] = x /\ o \in Owners
    BY <1>1 DEF NowHas
  <1>3. <<o, "ptr">> \in Places /\ Val(<<o, "ptr">>) = ptr[o]
    BY <1>2, PlaceFacts
  <1>4. ptr[o] # x
    BY <1>1, <1>3, HInvFacts DEF ListInv, Holding
  <1> QED
    BY <1>2, <1>4

LEMMA NextHInv ==
    ASSUME HInv, Next
    PROVE  HInv' /\ StepIs
  <1>1. CASE \E o \in Owners, want \in Sizes : Malloc(o, want) \/ Krealloc(o, want)
    <2>1. PICK o \in Owners, want \in Sizes : Malloc(o, want) \/ Krealloc(o, want)
      BY <1>1
    <2>2. old[o] = 0 /\ Kmalloc(o, want, ptr[o])
      BY <2>1 DEF Malloc, Krealloc
    <2>3. HInv' /\ (Quiet \/ (Gets(o, want) /\ others' = others))
      BY <2>2, KmallocStep
    <2>4. grow = NoGrow
      BY <2>2 DEF Kmalloc
    <2>5. want \in Nat \ {0}
      BY HeapAssumption
    <2> QED
      BY <2>3, <2>4, <2>5 DEF StepIs
  <1>2. CASE \E o \in Owners : Kfree(o) \/ KreallocFree(o)
    <2>1. PICK o \in Owners : Kfree(o) \/ KreallocFree(o)
      BY <1>2
    <2>2. grow = NoGrow
      BY <2>1 DEF Kfree, KreallocFree
    <2>3. <<o, "ptr">> \in Places /\ <<o, "old">> \in Places
      BY PlaceFacts
    <2>4. CASE Kfree(o)
      <3>1. HInv' /\ Loses(<<o, "ptr">>) /\ others' = others
        BY <2>4, KfreeStep
      <3> QED
        BY <2>2, <2>3, <3>1 DEF StepIs
    <2>5. CASE KreallocFree(o)
      <3>1. HInv' /\ Loses(<<o, "old">>) /\ others' = others
        BY <2>5, KreallocFreeStep
      <3> QED
        BY <2>2, <2>3, <3>1 DEF StepIs
    <2> QED
      BY <2>1, <2>4, <2>5
  <1>3. CASE Grow
    <2>1. grow # NoGrow /\ (GrowNone \/ \E f, s : GrowHands(f, s) \/ GrowLess(f, s))
      BY <1>3, GrowIs
    <2>2. CASE GrowNone
      BY <2>1, <2>2, GrowNoneStep DEF StepIs
    <2>3. CASE \E f, s : GrowHands(f, s)
      <3>1. PICK f, s : GrowHands(f, s)
        BY <2>3
      <3>2. HInv' /\ Gets(grow.own, grow.want) /\ others' = others
        BY <3>1, GrowHandsStep
      <3>3. grow.own \in Owners /\ grow.want \in Nat \ {0}
        BY <2>1, HInvFacts DEF Growing
      <3>4. ptr' # ptr
        BY <3>2, GetsMoves
      <3> QED
        BY <3>2, <3>3, <3>4 DEF StepIs
    <2>4. CASE \E f, s : GrowLess(f, s)
      <3>1. PICK f, s : GrowLess(f, s)
        BY <2>4
      <3>2. HInv' /\ Quiet /\ \A j \in 1..Len(blocks') : blocks'[j].free => blocks'[j].size < grow.want
        BY <2>1, <3>1, GrowLessStep
      <3> QED
        BY <3>2 DEF StepIs
    <2> QED
      BY <2>1, <2>2, <2>3, <2>4
  <1>4. CASE Take
    <2>1. SameHeap
      BY <1>4, TakeSame
    <2>2. grow' = grow
      BY <2>1 DEF SameHeap
    <2> QED
      BY <1>4, <2>1, <2>2, SameHeapKeeps DEF StepIs
  <1>5. CASE \E f \in others : Give(f)
    <2>1. SameHeap
      BY <1>5, GiveSame
    <2>2. grow' = grow
      BY <2>1 DEF SameHeap
    <2> QED
      BY <1>5, <2>1, <2>2, SameHeapKeeps DEF StepIs
  <1> QED
    BY <1>1, <1>2, <1>3, <1>4, <1>5 DEF Next

LEMMA StutterHInv ==
    ASSUME HInv, UNCHANGED vars
    PROVE  HInv'
  <1>1. SameHeap
    BY HInvFacts DEF vars, SameHeap
  <1> QED
    BY <1>1, SameHeapKeeps

\* Every reachable state of the heap: the list is in order and covers the
\* heap's frames, its holders and its blocks in use match, and a kmalloc that
\* grows has found nothing.
THEOREM HeapInvariant == Spec => []HInv
  <1>1. HInv /\ [Next]_vars => HInv'
    BY NextHInv, StutterHInv
  <1> QED
    BY <1>1, InitHInv, PTL DEF Spec

----------------------------------------------------------------------------
(* The properties.                                                         *)

LEMMA TypesHold ==
    ASSUME HInv
    PROVE  TypeOK
  <1>1. blocks \in Seq(Block)
    BY DEF HInv, Types
  <1>2. \A i \in Index : /\ blocks[i].at \in Nat /\ blocks[i].size \in Nat \ {0}
                         /\ blocks[i].free \in BOOLEAN
    <2> SUFFICES ASSUME NEW i \in Index
                 PROVE  blocks[i].at \in Nat /\ blocks[i].size \in Nat \ {0} /\ blocks[i].free \in BOOLEAN
      OBVIOUS
    <2>1. blocks[i] \in Block
      BY <1>1, InList DEF Index
    <2> QED
      BY <2>1 DEF Block
  <1> QED
    BY <1>2 DEF HInv, Types, TypeOK

LEMMA TilesHold ==
    ASSUME HInv
    PROVE  Tiles
  <1>1. blocks \in Seq(Block) /\ Separate(blocks) /\ UnitsOf(blocks) = UnitsIn(HeapFrames)
    BY DEF HInv, Types
  <1>2. ASSUME NEW i \in Index, NEW j \in Index, i # j
        PROVE  Extent(blocks[i]) \cap Extent(blocks[j]) = {}
    <2>1. blocks[i] \in Block /\ blocks[j] \in Block
      BY <1>1, InList DEF Index
    <2>2. End(blocks[i]) <= blocks[j].at \/ End(blocks[j]) <= blocks[i].at
      BY <1>1, <1>2 DEF Separate, Index
    <2> QED
      BY <2>1, <2>2, Disjoint
  <1>3. UNION {Extent(blocks[i]) : i \in Index} = UNION {FrameUnits(f) : f \in HeapFrames}
    BY <1>1 DEF UnitsOf, UnitsIn, Index
  <1> QED
    BY <1>2, <1>3 DEF Tiles

LEMMA NoneApartHolds ==
    ASSUME HInv
    PROVE  NoneApart
  <1>1. blocks \in Seq(Block) /\ Tight(blocks) /\ Len(blocks) \in Nat
    BY DEF HInv, Types
  <1> SUFFICES ASSUME NEW i \in Index, blocks[i].free, MergesNext(blocks, i) PROVE FALSE
    BY DEF NoneApart
  <1>2. i \in 1..(Len(blocks) - 1)
    BY <1>1 DEF Index, MergesNext
  <1> QED
    BY <1>1, <1>2 DEF Tight, MergesNext, PhysAdjacent

LEMMA NoneForgottenHolds ==
    ASSUME HInv
    PROVE  NoneForgotten
  <1> SUFFICES ASSUME NEW i \in Index, ~blocks[i].free
               PROVE  Cardinality({p \in Owners \X {"ptr", "old"} :
                        blocks[i].at + Header = IF p[2] = "ptr" THEN ptr[p[1]] ELSE old[p[1]]}) = 1
    BY DEF NoneForgotten
  <1>1. PICK u : u = <<blocks[i].at + Header, blocks[i].size>>
    OBVIOUS
  <1>2. u \in UsedIn(blocks)
    BY <1>1 DEF UsedIn, Index
  <1>3. u[1] = blocks[i].at + Header /\ u[1] # 0
    BY <1>1, <1>2, HInvFacts, UsedFacts DEF ListInv
  <1>4. PICK q \in Places : Val(q) = u[1]
    BY <1>2 DEF HInv, Holding
  <1>5. \A p \in Places : Val(p) = u[1] => p = q
    BY <1>3, <1>4 DEF HInv, Holding
  <1>6. {p \in Places : u[1] = Val(p)} = {q}
    BY <1>4, <1>5
  <1>7. Cardinality({q}) = 1
    BY FS_Singleton
  <1>8. {p \in Owners \X {"ptr", "old"} :
          blocks[i].at + Header = IF p[2] = "ptr" THEN ptr[p[1]] ELSE old[p[1]]} = {p \in Places : u[1] = Val(p)}
    BY <1>3 DEF Places, Val
  <1> QED
    BY <1>6, <1>7, <1>8

\* The block list of the heap is always sound, for any number of frames and
\* owners and any sizes: kmalloc, kfree, krealloc and grow_heap leave it a
\* tiling of the heap's frames, in pieces as large as they can be, with one
\* holder for every block in use.
THEOREM HeapListSound == Spec => []ListSound
  <1>1. HInv => ListSound
    BY TypesHold, TilesHold, NoneApartHolds, NoneForgottenHolds DEF ListSound
  <1> QED
    BY <1>1, HeapInvariant, PTL

\* kmalloc returns no block only if the heap it leaves has none that is large
\* enough.
THEOREM HeapNullOnlyIfFull == Spec => NullOnlyIfFull
  <1>1. HInv /\ [Next]_vars =>
          [grow # NoGrow /\ grow' = NoGrow /\ ptr' = ptr =>
             \A i \in 1..Len(blocks') : blocks'[i].free => blocks'[i].size < grow.want]_vars
    <2> SUFFICES ASSUME HInv, Next, grow # NoGrow, grow' = NoGrow, ptr' = ptr
                 PROVE  \A i \in 1..Len(blocks') : blocks'[i].free => blocks'[i].size < grow.want
      BY DEF vars
    <2> QED
      BY NextHInv DEF StepIs
  <1> QED
    BY <1>1, HeapInvariant, PTL DEF Spec, NullOnlyIfFull

----------------------------------------------------------------------------
(* The heap and the frame allocator implement the abstract allocator.      *)

\* What is held, from the list and the places.
HeldBy(q, u) == [own |-> q[1], at |-> u[1], len |-> u[2]]
HeldIs ==
    \A h : h \in Held <=> \E q \in Places, u \in UsedIn(blocks) : Val(q) = u[1] /\ h = HeldBy(q, u)

LEMMA HeldMatches == ListInv => HeldIs
  <1> SUFFICES ASSUME ListInv PROVE HeldIs
    OBVIOUS
  <1>1. Ordered(blocks) /\ Holding
    BY DEF ListInv
  <1> DEFINE At(o, p) == IF p = 0 THEN {}
                         ELSE {[own |-> o, at |-> p, len |-> blocks[IndexOf(p)].size]}
  <1>2. Held = UNION {At(o, ptr[o]) \cup At(o, old[o]) : o \in Owners}
    BY DEF Held
  <1>3. ASSUME NEW q \in Places, NEW h
        PROVE  h \in At(q[1], Val(q)) <=> \E u \in UsedIn(blocks) : Val(q) = u[1] /\ h = HeldBy(q, u)
    <2>1. CASE Val(q) = 0
      <3>1. \A u \in UsedIn(blocks) : u[1] # 0
        BY <1>1, UsedFacts
      <3> QED
        BY <2>1, <3>1
    <2>2. CASE Val(q) # 0
      <3>1. PICK e \in UsedIn(blocks) : e[1] = Val(q)
        BY <1>1, <2>2 DEF Holding
      <3>2. e[2] = blocks[IndexOf(Val(q))].size
        BY <1>1, <3>1, IndexFacts
      <3>3. \A u \in UsedIn(blocks) : u[1] = Val(q) => u = e
        BY <1>1, <3>1, UsedOnce
      <3>4. At(q[1], Val(q)) = {HeldBy(q, e)}
        BY <2>2, <3>1, <3>2 DEF HeldBy
      <3> QED
        BY <3>1, <3>3, <3>4
    <2> QED
      BY <2>1, <2>2
  <1> HIDE DEF At
  <1>4. ASSUME NEW h, h \in Held
        PROVE  \E q \in Places, u \in UsedIn(blocks) : Val(q) = u[1] /\ h = HeldBy(q, u)
    <2>1. PICK o \in Owners : h \in At(o, ptr[o]) \/ h \in At(o, old[o])
      BY <1>2, <1>4
    <2>2. PICK q \in Places : h \in At(q[1], Val(q))
      <3>1. /\ <<o, "ptr">> \in Places /\ <<o, "old">> \in Places
            /\ Val(<<o, "ptr">>) = ptr[o] /\ Val(<<o, "old">>) = old[o]
        BY PlaceFacts
      <3>2. <<o, "ptr">>[1] = o /\ <<o, "old">>[1] = o
        OBVIOUS
      <3> QED
        BY <2>1, <3>1, <3>2
    <2> QED
      BY <1>3, <2>2
  <1>5. ASSUME NEW h, NEW q \in Places, NEW u \in UsedIn(blocks), Val(q) = u[1], h = HeldBy(q, u)
        PROVE  h \in Held
    <2>1. h \in At(q[1], Val(q))
      BY <1>3, <1>5
    <2>2. PICK o \in Owners : q = <<o, "ptr">> \/ q = <<o, "old">>
      BY PlaceIs
    <2>3. q[1] = o /\ (Val(q) = ptr[o] \/ Val(q) = old[o])
      <3>1. CASE q = <<o, "ptr">>
        BY <3>1, PlaceFacts
      <3>2. CASE q = <<o, "old">>
        BY <3>2, PlaceFacts
      <3> QED
        BY <2>2, <3>1, <3>2
    <2>4. h \in At(o, ptr[o]) \cup At(o, old[o])
      BY <2>1, <2>3
    <2> QED
      BY <1>2, <2>4
  <1> QED
    BY <1>4, <1>5 DEF HeldIs

LEMMA HeldMatchesNext == ListInv' => HeldIs'
  BY HeldMatches, PTL

\* The units of a block in use are the heap's and no other block's.
LEMMA UsedUnits ==
    ASSUME NEW s, Ordered(s), NEW u, u \in UsedIn(s)
    PROVE  /\ u[1]..(u[1] + u[2] - 1) \subseteq UnitsOf(s)
           /\ u[1] \in Nat \ {0} /\ u[2] \in Nat \ {0}
           /\ \A v \in UsedIn(s) : v # u => (v[1]..(v[1] + v[2] - 1)) \cap (u[1]..(u[1] + u[2] - 1)) = {}
  <1>1. ASSUME NEW v, v \in UsedIn(s)
        PROVE  \E i \in 1..Len(s) : /\ v = <<s[i].at + Header, s[i].size>> /\ s[i] \in Block
                                    /\ v[1]..(v[1] + v[2] - 1) \subseteq Extent(s[i])
                                    /\ v[1] \in Nat \ {0} /\ v[2] \in Nat \ {0}
    <2>1. PICK i \in 1..Len(s) : v = <<s[i].at + Header, s[i].size>>
      BY <1>1 DEF UsedIn
    <2>2. s[i] \in Block
      BY InList DEF Ordered
    <2>3. PICK x, y \in Nat : x = s[i].at /\ y = s[i].size /\ y > 0 /\ End(s[i]) = x + 2 + y
      BY <2>2, BlockFacts
    <2>4. v[1] = x + 2 /\ v[2] = y
      BY <2>1, <2>3, Numbers
    <2>5. ASSUME NEW z, z \in (x + 2)..(x + 2 + y - 1) PROVE z \in Nat /\ x <= z /\ z < x + 2 + y
      BY <2>5, Spans
    <2>6. \A z : z \in Extent(s[i]) <=> z \in Nat /\ x <= z /\ z < x + 2 + y
      BY <2>2, <2>3, BlockFacts
    <2>7. v[1]..(v[1] + v[2] - 1) \subseteq Extent(s[i])
      BY <2>4, <2>5, <2>6
    <2> QED
      BY <2>1, <2>2, <2>3, <2>4, <2>7
  <1>2. PICK i \in 1..Len(s) : /\ u = <<s[i].at + Header, s[i].size>> /\ s[i] \in Block
                               /\ u[1]..(u[1] + u[2] - 1) \subseteq Extent(s[i])
                               /\ u[1] \in Nat \ {0} /\ u[2] \in Nat \ {0}
    BY <1>1
  <1>3. ASSUME NEW v \in UsedIn(s), v # u
        PROVE  (v[1]..(v[1] + v[2] - 1)) \cap (u[1]..(u[1] + u[2] - 1)) = {}
    <2>1. PICK j \in 1..Len(s) : /\ v = <<s[j].at + Header, s[j].size>> /\ s[j] \in Block
                                 /\ v[1]..(v[1] + v[2] - 1) \subseteq Extent(s[j])
      BY <1>1
    <2>2. i # j
      BY <1>2, <1>3, <2>1
    <2>3. End(s[i]) <= s[j].at \/ End(s[j]) <= s[i].at
      BY <2>2 DEF Ordered, Separate
    <2>4. Extent(s[i]) \cap Extent(s[j]) = {}
      BY <1>2, <2>1, <2>3, Disjoint
    <2> QED
      BY <1>2, <2>1, <2>4
  <1>4. Extent(s[i]) \subseteq UnitsOf(s)
    BY DEF UnitsOf
  <1> QED
    BY <1>2, <1>3, <1>4

\* They are in no frame that is not the heap's.
LEMMA ApartFromFrame ==
    ASSUME NEW F \in SUBSET Nat, NEW f \in Nat, f \notin F
    PROVE  FrameUnits(f) \cap UnitsIn(F) = {}
  <1>1. ASSUME NEW z, z \in FrameUnits(f), z \in UnitsIn(F) PROVE FALSE
    <2>1. z \in Nat /\ z \div PageSize \in F
      BY <1>1, UnitsInFacts
    <2>2. z \div PageSize = f
      BY <1>1, <2>1, UnitFrame
    <2> QED
      BY <2>1, <2>2
  <1> QED
    BY <1>1

LEMMA HeldBefore ==
    ASSUME HInv
    PROVE  HeldIs /\ Ordered(blocks) /\ UnitsOf(blocks) = UnitsIn(HeapFrames) /\ HeapFrames \in SUBSET Nat
  BY HInvFacts, HeldMatches, Numbers DEF ListInv, HeapFrames

LEMMA HeldAfter ==
    ASSUME HInv'
    PROVE  /\ HeldIs' /\ Ordered(blocks') /\ UnitsOf(blocks') = UnitsIn(HeapFrames')
           /\ HeapFrames' \in SUBSET Nat
  <1>1. ListInv'
    BY DEF HInv, ListInv, Types, Ordered
  <1>2. Ordered(blocks') /\ UnitsOf(blocks') = UnitsIn(HeapFrames')
    BY DEF HInv, Types, Ordered, Separate, Tight, End, UnitsOf, UnitsIn, Extent, FrameUnits
  <1>3. HeapFrames' \in SUBSET Nat
    BY Numbers DEF HeapFrames, Frames
  <1> QED
    BY <1>1, <1>2, <1>3, HeldMatchesNext

\* The units of what is held, as the abstract allocator counts them.
LEMMA HeldUnits ==
    ASSUME NEW q, NEW u
    PROVE  A!Units(HeldBy(q, u)) = u[1]..(u[1] + u[2] - 1)
  BY DEF A!Units, HeldBy

LEMMA QuietHeld ==
    ASSUME HInv, HInv', UsedIn(blocks') = UsedIn(blocks), ptr' = ptr, old' = old
    PROVE  Held' = Held
  <1>1. HeldIs /\ HeldIs'
    BY HeldBefore, HeldAfter
  <1>2. UsedIn(blocks)' = UsedIn(blocks)
    BY DEF UsedIn
  <1>3. \A q : Val(q)' = Val(q)
    BY DEF Val
  <1> QED
    BY <1>1, <1>2, <1>3 DEF HeldIs, HeldBy

LEMMA GetsIsMalloc ==
    ASSUME HInv, HInv', NEW o, NEW want \in Nat \ {0}, Gets(o, want), others' = others
    PROVE  A!Malloc
  <1>1. PICK x, n \in Nat :
          /\ n >= want /\ x # 0 /\ \A u \in UsedIn(blocks) : u[1] # x
          /\ UsedIn(blocks') = UsedIn(blocks) \cup {<<x, n>>}
          /\ NowHas(o, x)
    BY DEF Gets
  <1>2. HeldIs /\ HeldIs' /\ UsedIn(blocks)' = UsedIn(blocks')
    BY HeldBefore, HeldAfter DEF UsedIn
  <1>3. PICK a, b \in Places : a = <<o, "ptr">> /\ b = <<o, "old">> /\ a # b /\ o \in Owners /\ a[1] = o /\ b[1] = o
    BY <1>1, PlaceFacts DEF NowHas
  <1>4. /\ Val(a)' = x /\ Val(b)' = Val(a) /\ Val(b) = 0
        /\ \A q \in Places : q # a /\ q # b => Val(q)' = Val(q)
    BY <1>1, <1>3, HasVals
  <1>5. PICK e : e = <<x, n>> /\ e[1] = x /\ e[2] = n
    <2>1. <<x, n>>[1] = x /\ <<x, n>>[2] = n
      OBVIOUS
    <2> QED
      BY <2>1
  <1>6. PICK h : h = HeldBy(a, e)
    OBVIOUS
  <1>7. \A u \in UsedIn(blocks) : u[1] # 0
    BY HeldBefore, UsedFacts
  <1>8. \A q \in Places : Val(q) # x
    BY <1>1, HInvFacts DEF ListInv, Holding
  <1>9. h \in Held'
    BY <1>1, <1>2, <1>3, <1>4, <1>5, <1>6 DEF HeldIs, HeldBy
  <1>10. h \notin Held
    <2>1. \A q, u : h = HeldBy(q, u) => u[1] = x
      BY <1>5, <1>6 DEF HeldBy
    <2> QED
      BY <1>1, <1>2, <2>1 DEF HeldIs
  <1>11. ASSUME NEW g, g \in Held PROVE g \in Held'
    <2>1. PICK q \in Places, u \in UsedIn(blocks) : Val(q) = u[1] /\ g = HeldBy(q, u)
      BY <1>2, <1>11 DEF HeldIs
    <2>2. PICK p \in Places : Val(p)' = u[1] /\ p[1] = q[1]
      <3>1. q # b
        BY <1>4, <1>7, <2>1
      <3>2. CASE q = a
        BY <1>3, <1>4, <2>1, <3>2
      <3>3. CASE q # a
        BY <1>4, <2>1, <3>1, <3>3
      <3> QED
        BY <3>2, <3>3
    <2>3. g = HeldBy(p, u) /\ u \in UsedIn(blocks')
      BY <1>1, <2>1, <2>2 DEF HeldBy
    <2> QED
      BY <1>2, <2>2, <2>3 DEF HeldIs, HeldBy
  <1>12. ASSUME NEW g, g \in Held' PROVE g \in Held \/ g = h
    <2>1. PICK q \in Places, u \in UsedIn(blocks') : Val(q)' = u[1] /\ g = HeldBy(q, u)
      BY <1>2, <1>12 DEF HeldIs, HeldBy
    <2>2. CASE u = e
      <3>1. q = a
        BY <1>4, <1>5, <1>8, <2>1, <2>2
      <3> QED
        BY <1>6, <2>1, <2>2, <3>1
    <2>3. CASE u # e
      <3>1. u \in UsedIn(blocks) /\ u[1] # x
        BY <1>1, <1>5, <2>3
      <3>2. q # a
        BY <1>4, <2>1, <3>1
      <3>3. PICK p \in Places : Val(p) = u[1] /\ p[1] = q[1]
        <4>1. CASE q = b
          BY <1>3, <1>4, <2>1, <4>1
        <4>2. CASE q # b
          BY <1>4, <2>1, <3>2, <4>2
        <4> QED
          BY <4>1, <4>2
      <3>4. g = HeldBy(p, u)
        BY <2>1, <3>3 DEF HeldBy
      <3> QED
        BY <1>2, <3>1, <3>3, <3>4 DEF HeldIs
    <2> QED
      BY <2>2, <2>3
  <1>13. Held' = Held \cup {h}
    BY <1>9, <1>11, <1>12
  <1>14. Ordered(blocks') /\ UnitsOf(blocks') = UnitsIn(HeapFrames') /\ HeapFrames' \in SUBSET Nat /\ e \in UsedIn(blocks')
    BY <1>1, <1>5, HeldAfter
  <1>15. h.own \in Owners /\ h.at > 0 /\ h.len > 0
    BY <1>1, <1>3, <1>5, <1>6 DEF HeldBy
  <1>16. A!Units(h) = e[1]..(e[1] + e[2] - 1)
    BY <1>6, HeldUnits
  <1>17. ASSUME NEW g \in Held PROVE A!Units(g) \cap A!Units(h) = {}
    <2>1. PICK q \in Places, u \in UsedIn(blocks) : g = HeldBy(q, u)
      BY <1>2 DEF HeldIs
    <2>2. u \in UsedIn(blocks') /\ u # e
      BY <1>1, <1>5
    <2>3. A!Units(g) = u[1]..(u[1] + u[2] - 1)
      BY <2>1, HeldUnits
    <2> QED
      BY <1>14, <1>16, <2>2, <2>3, UsedUnits
  <1>18. ASSUME NEW f \in others PROVE A!FrameUnits(f) \cap A!Units(h) = {}
    <2>1. f \in Nat /\ f \notin HeapFrames'
      BY HInvFacts, Numbers DEF HeapFrames
    <2>2. FrameUnits(f) \cap UnitsIn(HeapFrames') = {}
      BY <1>14, <2>1, ApartFromFrame
    <2>3. A!Units(h) \subseteq UnitsIn(HeapFrames')
      BY <1>14, <1>16, UsedUnits
    <2>4. A!FrameUnits(f) = FrameUnits(f)
      BY DEF A!FrameUnits, FrameUnits
    <2> QED
      BY <2>2, <2>3, <2>4
  <1>19. A!Fresh(h)
    BY <1>15, <1>17, <1>18 DEF A!Fresh
  <1> QED
    BY <1>9, <1>10, <1>13, <1>19 DEF A!Malloc

LEMMA LosesIsFree ==
    ASSUME HInv, HInv', NEW q, Loses(q), others' = others
    PROVE  A!Free
  <1>1. PICK e \in UsedIn(blocks) :
          e[1] = Val(q) /\ e[1] # 0 /\ NowLacks(q) /\ UsedIn(blocks') = UsedIn(blocks) \ {e}
    BY DEF Loses
  <1>2. HeldIs /\ HeldIs' /\ UsedIn(blocks)' = UsedIn(blocks')
    BY HeldBefore, HeldAfter DEF UsedIn
  <1>3. q \in Places /\ Val(q)' = 0 /\ \A p \in Places : p # q => Val(p)' = Val(p)
    BY <1>1 DEF NowLacks
  <1>4. /\ \A p, r \in Places : Val(p) # 0 /\ Val(p) = Val(r) => p = r
        /\ \A u \in UsedIn(blocks) : u[1] # 0
        /\ \A u \in UsedIn(blocks) : u[1] = e[1] => u = e
    BY HInvFacts, HeldBefore, UsedFacts, UsedOnce DEF ListInv, Holding
  <1>5. PICK h : h = HeldBy(q, e)
    OBVIOUS
  <1>6. h \in Held
    BY <1>1, <1>2, <1>3, <1>5 DEF HeldIs
  <1>7. ASSUME NEW g, g \in Held, g # h PROVE g \in Held'
    <2>1. PICK p \in Places, u \in UsedIn(blocks) : Val(p) = u[1] /\ g = HeldBy(p, u)
      BY <1>2, <1>7 DEF HeldIs
    <2>2. u # e
      <3>1. ASSUME u = e PROVE FALSE
        <4>1. p = q
          BY <1>1, <1>3, <1>4, <2>1, <3>1
        <4> QED
          BY <1>5, <1>7, <2>1, <3>1, <4>1
      <3> QED
        BY <3>1
    <2>3. p # q
      BY <1>1, <1>4, <2>1, <2>2
    <2>4. Val(p)' = u[1] /\ u \in UsedIn(blocks')
      BY <1>1, <1>3, <2>1, <2>2, <2>3
    <2> QED
      BY <1>2, <2>1, <2>4 DEF HeldIs, HeldBy
  <1>8. ASSUME NEW g, g \in Held' PROVE g \in Held /\ g # h
    <2>1. PICK p \in Places, u \in UsedIn(blocks') : Val(p)' = u[1] /\ g = HeldBy(p, u)
      BY <1>2, <1>8 DEF HeldIs, HeldBy
    <2>2. u \in UsedIn(blocks) /\ u # e /\ u[1] # 0
      BY <1>1, <1>4
    <2>3. p # q /\ Val(p) = u[1]
      BY <1>3, <2>1, <2>2
    <2>4. u[1] # e[1]
      BY <1>4, <2>2
    <2>5. g # h
      BY <1>5, <2>1, <2>4 DEF HeldBy
    <2> QED
      BY <1>2, <2>1, <2>2, <2>3, <2>5 DEF HeldIs
  <1>9. Held' = Held \ {h}
    BY <1>7, <1>8
  <1> QED
    BY <1>6, <1>9 DEF A!Free

LEMMA TakeIsTakeFrame ==
    ASSUME HInv, HInv', Take
    PROVE  A!TakeFrame
  <1>1. PICK f \in bitmap : f \notin others /\ others' = others \cup {f} /\ bitmap' = bitmap \ {f}
    BY TakeSame
  <1>2. blocks' = blocks /\ ptr' = ptr /\ old' = old
    BY DEF Take
  <1>3. Held' = Held
    BY <1>2, QuietHeld
  <1>4. f \in Nat /\ f \notin HeapFrames
    BY HInvFacts, Numbers DEF HeapFrames
  <1>5. HeldIs /\ Ordered(blocks) /\ UnitsOf(blocks) = UnitsIn(HeapFrames) /\ HeapFrames \in SUBSET Nat
    BY HeldBefore
  <1>6. ASSUME NEW h \in Held PROVE A!FrameUnits(f) \cap A!Units(h) = {}
    <2>1. PICK q \in Places, u \in UsedIn(blocks) : h = HeldBy(q, u)
      BY <1>5 DEF HeldIs
    <2>2. A!Units(h) = u[1]..(u[1] + u[2] - 1)
      BY <2>1, HeldUnits
    <2>3. A!Units(h) \subseteq UnitsIn(HeapFrames)
      BY <1>5, <2>2, UsedUnits
    <2>4. FrameUnits(f) \cap UnitsIn(HeapFrames) = {}
      BY <1>4, <1>5, ApartFromFrame
    <2>5. A!FrameUnits(f) = FrameUnits(f)
      BY DEF A!FrameUnits, FrameUnits
    <2> QED
      BY <2>3, <2>4, <2>5
  <1> QED
    BY <1>1, <1>3, <1>6 DEF A!TakeFrame

LEMMA GiveIsGiveFrame ==
    ASSUME HInv, HInv', NEW f \in others, Give(f)
    PROVE  A!GiveFrame
  <1>1. others' = others \ {f} /\ blocks' = blocks /\ ptr' = ptr /\ old' = old
    BY DEF Give
  <1>2. Held' = Held
    BY <1>1, QuietHeld
  <1> QED
    BY <1>1, <1>2 DEF A!GiveFrame

LEMMA StepRefines ==
    ASSUME HInv, HInv', StepIs
    PROVE  A!Next \/ UNCHANGED <<Held, others>>
  <1>1. CASE Quiet
    <2>1. Held' = Held
      BY <1>1, QuietHeld DEF Quiet
    <2> QED
      BY <1>1, <2>1 DEF Quiet
  <1>2. CASE \E o \in Owners, want \in Nat \ {0} : Gets(o, want) /\ others' = others
    BY <1>2, GetsIsMalloc DEF A!Next
  <1>3. CASE \E q \in Places : Loses(q) /\ others' = others
    BY <1>3, LosesIsFree DEF A!Next
  <1>4. CASE Take
    BY <1>4, TakeIsTakeFrame DEF A!Next
  <1>5. CASE \E f \in others : Give(f)
    BY <1>5, GiveIsGiveFrame DEF A!Next
  <1> QED
    BY <1>1, <1>2, <1>3, <1>4, <1>5 DEF StepIs

LEMMA InitRefines == Init => A!Init
  <1> SUFFICES ASSUME Init PROVE A!Init
    OBVIOUS
  <1>1. ptr = [o \in Owners |-> 0] /\ old = [o \in Owners |-> 0] /\ others \subseteq Frames
    BY DEF Init
  <1>2. Held = {}
    BY <1>1 DEF Held
  <1>3. \A f \in others : f \in Nat
    BY <1>1, Numbers
  <1> QED
    BY <1>2, <1>3 DEF A!Init

\* Heap and frame allocator together implement the abstract allocator, for any
\* number of frames and owners and any sizes: every call is one of its steps,
\* or none that a caller could see.
THEOREM HeapAllocates == Spec => Allocates
  <1>1. HInv /\ HInv' /\ [Next]_vars => [A!Next]_<<Held, others>>
    <2> SUFFICES ASSUME HInv, HInv', [Next]_vars PROVE [A!Next]_<<Held, others>>
      OBVIOUS
    <2>1. CASE Next
      BY <2>1, NextHInv, StepRefines
    <2>2. CASE UNCHANGED vars
      <3>1. blocks' = blocks /\ ptr' = ptr /\ old' = old /\ others' = others
        BY <2>2 DEF vars
      <3>2. Held' = Held
        BY <3>1, QuietHeld
      <3> QED
        BY <3>1, <3>2
    <2> QED
      BY <2>1, <2>2
  <1> QED
    BY <1>1, InitRefines, HeapInvariant, PTL DEF Spec, Allocates, A!Spec

=============================================================================
