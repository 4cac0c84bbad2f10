-------------------------------- MODULE Ext2 --------------------------------
(***************************************************************************)
(* The root file system: ext2 (src/kernel/fs/ext2.c) and the part of the   *)
(* open file table that serves it (src/kernel/fs/vfs.c).                   *)
(*                                                                         *)
(* Data, directory blocks and inodes go to the disk at once; the bitmaps,  *)
(* the indirect tables and the free counts are changed in memory and       *)
(* written when the call ends (ext2_flush).  A call is the list of the     *)
(* disk's contents after each of its writes, and the power may be cut      *)
(* after any of them.  An open file keeps a copy of its inode, and reads   *)
(* go by that copy.                                                        *)
(*                                                                         *)
(* One block group; the inode table, the bitmaps and the superblock are    *)
(* outside the blocks of the model.  What a file is given to hold is the   *)
(* name it was created under, so a block in the wrong file shows.          *)
(***************************************************************************)
EXTENDS Naturals, FiniteSets, Sequences, SequencesExt

CONSTANTS
  Names,      \* names (strings)
  Fds,        \* slots of the open file table (numbers)
  NBlocks,    \* blocks of the disk
  NInodes,    \* inodes of the disk; the first is the root directory
  NDirect,    \* direct pointers of an inode (12)
  Per,        \* pointers of a table (block_size / 4)
  BSize,      \* bytes of a block
  DirRoom,    \* entries a directory block has room for
  MaxSize,    \* bound: the longest file
  Writes,     \* lengths of a read or a write
  Places,     \* where a seek goes
  Lens,       \* lengths a file is truncated to
  Risky,      \* situations the environment may bring about, see below
  MaxCalls    \* bound: calls that may write

(* Situations in which the code is known not to keep its word.             *)
(*   "ftruncate" a file is truncated through one fd with another open      *)
(*               (vfs_ftruncate does not look for one)                     *)
(*   "unlink"    a file is removed while it is open (nor does vfs_unlink)  *)
(*   "full"      an entry is added that the disk has no room for           *)
(*   "inside"    a directory is moved into itself                          *)
(*   "bigdir"    a move makes a directory grow past its direct blocks      *)
ASSUME RiskyAssumption == Risky \subseteq {"ftruncate", "unlink", "full", "inside", "bigdir"}
ASSUME SizeAssumption ==
  /\ NBlocks \in Nat \ {0} /\ NInodes \in Nat \ {0} /\ BSize \in Nat \ {0}
  /\ NDirect \in Nat \ {0} /\ Per \in Nat \ {0} /\ DirRoom \in Nat \ {0}
  /\ MaxSize \in 0..(BSize * (NDirect + Per + Per * Per))
  /\ Writes \subseteq 1..MaxSize /\ Places \subseteq 0..MaxSize /\ Lens \subseteq 0..MaxSize

VARIABLES
  disk,       \* what the disk holds
  down,       \* the power was cut in the middle of a call
  open,       \* the open file table
  kept,       \* ghost: what the file of each inode is to hold
  calls       \* calls so far

vars == <<disk, down, open, kept, calls>>

-----------------------------------------------------------------------------
(* The disk.                                                                *)

Blocks == 1..NBlocks
Inodes == 1..NInodes
Root == 1
Single == NDirect           \* i_block[12]
Double == NDirect + 1       \* i_block[13]
Cells == Names \cup {"zero", "old"}
Ceil(bytes) == (bytes + BSize - 1) \div BSize

NoInode == [mode |-> "none", links |-> 0, size |-> 0, nblk |-> 0,
            ptr |-> [p \in 0..Double |-> 0]]
NoTable == [k \in 0..(Per-1) |-> 0]
ZeroData == [k \in 0..(BSize-1) |-> "zero"]
NoDir == [up |-> 0, ents |-> [x \in Names |-> 0]]

Closed == [used |-> FALSE]
NoFile == [st |-> "none", tag |-> "zero", data |-> <<>>]
FileOf(tag, data) == [st |-> "file", tag |-> tag, data |-> data]

(* As mke2fs leaves it: a root directory of one block.                      *)
MkDisk ==
  [bits |-> {1}, ibits |-> {Root},
   sum |-> [fb |-> NBlocks - 1, fi |-> NInodes - 1, dirs |-> 1],
   inode |-> [i \in Inodes |-> IF i # Root THEN NoInode
                ELSE [NoInode EXCEPT !.mode = "dir", !.links = 2, !.size = BSize,
                                     !.nblk = 1, !.ptr[0] = 1]],
   data |-> [b \in Blocks |-> [k \in 0..(BSize-1) |-> "old"]],
   tab |-> [b \in Blocks |-> NoTable],
   dir |-> [b \in Blocks |-> IF b = 1 THEN [NoDir EXCEPT !.up = Root] ELSE NoDir]]

(* The block behind index bi of an inode, 0 for a hole.                     *)
ResolveBlock(d, in, bi) ==
  LET s == bi - NDirect
      t == s - Per
      l2 == d.tab[in.ptr[Double]][t \div Per]
  IN  IF bi < NDirect THEN in.ptr[bi]
      ELSE IF s < Per THEN IF in.ptr[Single] = 0 THEN 0 ELSE d.tab[in.ptr[Single]][s]
      ELSE IF in.ptr[Double] = 0 THEN 0
      ELSE IF l2 = 0 THEN 0 ELSE d.tab[l2][t % Per]

-----------------------------------------------------------------------------
(* A call in progress is m: the disk d, its contents after every write so   *)
(* far, the bitmaps and counts in memory, the tables in indirect_buf (ib)   *)
(* and dind_buf (db), the inode at work i, the block it last asked for      *)
(* (0 when the disk is full) and whether that was just allocated.           *)

NoBuf == [blk |-> 0, tab |-> NoTable, dirty |-> FALSE]
Begin(d, in) ==
  [d |-> d, log |-> <<d>>, bits |-> d.bits, ibits |-> d.ibits, sum |-> d.sum,
   ib |-> NoBuf, db |-> NoBuf, i |-> in, got |-> 0, fresh |-> FALSE, total |-> 0, ok |-> TRUE]

Put(m, d) == IF d = m.d THEN m ELSE [m EXCEPT !.d = d, !.log = Append(@, d)]
PutInode(m, ino, in) == Put(m, [m.d EXCEPT !.inode[ino] = in])
PutData(m, b, data) == Put(m, [m.d EXCEPT !.data[b] = data])
PutTable(m, b, tab) == Put(m, [m.d EXCEPT !.tab[b] = tab])
PutDir(m, b, dir) == Put(m, [m.d EXCEPT !.dir[b] = dir])

FlushIb(m) == IF m.ib.dirty THEN [PutTable(m, m.ib.blk, m.ib.tab) EXCEPT !.ib.dirty = FALSE] ELSE m
FlushDb(m) == IF m.db.dirty THEN [PutTable(m, m.db.blk, m.db.tab) EXCEPT !.db.dirty = FALSE] ELSE m

(* ext2_flush: the bitmaps, the tables, the counts.                         *)
PutBits(m) == Put(m, [m.d EXCEPT !.bits = m.bits])
PutIbits(m) == Put(m, [m.d EXCEPT !.ibits = m.ibits])
PutSum(m) == Put(m, [m.d EXCEPT !.sum = m.sum])
Flush(m) == PutSum(FlushDb(FlushIb(PutIbits(PutBits(m)))))

(* The lowest free block, if the counts say that there is one.              *)
AllocBlock(m) ==
  LET free == Blocks \ m.bits
      b == CHOOSE x \in free : \A y \in free : x <= y
  IN  IF m.sum.fb = 0 \/ free = {} THEN [m EXCEPT !.got = 0]
      ELSE [m EXCEPT !.got = b, !.bits = @ \cup {b}, !.sum.fb = @ - 1]
FreeBlocks(m, S) == [m EXCEPT !.bits = @ \ S, !.sum.fb = @ + Cardinality(S)]

AllocInode(m) ==
  LET free == Inodes \ m.ibits
      i == CHOOSE x \in free : \A y \in free : x <= y
  IN  IF m.sum.fi = 0 \/ free = {} THEN [m EXCEPT !.got = 0]
      ELSE [m EXCEPT !.got = i, !.ibits = @ \cup {i}, !.sum.fi = @ - 1]
FreeInode(m, i) == [m EXCEPT !.ibits = @ \ {i}, !.sum.fi = @ + 1]

(* wtable: the table of the write path, read once, changed in memory.       *)
WTableIb(m, blk, fresh) ==
  IF m.ib.blk = blk THEN m
  ELSE LET f == FlushIb(m)
       IN  [f EXCEPT !.ib = [blk |-> blk, tab |-> IF fresh THEN NoTable ELSE f.d.tab[blk],
                             dirty |-> fresh]]
WTableDb(m, blk, fresh) ==
  IF m.db.blk = blk THEN m
  ELSE LET f == FlushDb(m)
       IN  [f EXCEPT !.db = [blk |-> blk, tab |-> IF fresh THEN NoTable ELSE f.d.tab[blk],
                             dirty |-> fresh]]

(* The block in pointer p of the inode, allocated on demand.                *)
PtrBlock(m, p) ==
  IF m.i.ptr[p] # 0 THEN [m EXCEPT !.got = m.i.ptr[p], !.fresh = FALSE]
  ELSE LET a == AllocBlock(m)
       IN  IF a.got = 0 THEN a
           ELSE [a EXCEPT !.i.ptr[p] = a.got, !.i.nblk = @ + 1, !.fresh = TRUE]

(* The same for entry k of the table in ib, and in db.                      *)
IbBlock(m, k) ==
  IF m.ib.tab[k] # 0 THEN [m EXCEPT !.got = m.ib.tab[k], !.fresh = FALSE]
  ELSE LET a == AllocBlock(m)
       IN  IF a.got = 0 THEN a
           ELSE [a EXCEPT !.ib.tab[k] = a.got, !.ib.dirty = TRUE, !.i.nblk = @ + 1, !.fresh = TRUE]
DbBlock(m, k) ==
  IF m.db.tab[k] # 0 THEN [m EXCEPT !.got = m.db.tab[k], !.fresh = FALSE]
  ELSE LET a == AllocBlock(m)
       IN  IF a.got = 0 THEN a
           ELSE [a EXCEPT !.db.tab[k] = a.got, !.db.dirty = TRUE, !.i.nblk = @ + 1, !.fresh = TRUE]

(* get_or_alloc_block: the block behind index bi, with the tables above it; *)
(* t is how far it has come when the table above has been looked for.       *)
InIb(t, k) == IF t.got = 0 THEN t ELSE IbBlock(WTableIb(t, t.got, t.fresh), k)
InDb(t, k) == IF t.got = 0 THEN t ELSE DbBlock(WTableDb(t, t.got, t.fresh), k)
GetOrAllocBlock(m, bi) ==
  LET s == bi - NDirect
      t == s - Per
  IN  IF bi < NDirect THEN PtrBlock(m, bi)
      ELSE IF s < Per THEN InIb(PtrBlock(m, Single), s)
      ELSE InIb(InDb(PtrBlock(m, Double), t \div Per), t % Per)

-----------------------------------------------------------------------------
(* Files.                                                                   *)

(* One block of a write of val to bytes off .. off+len-1: what is not       *)
(* written of it stays, or is zeros in a block just taken.                  *)
PutPart(g, bi, off, len, val) ==
  LET old == IF g.fresh THEN ZeroData ELSE g.d.data[g.got]
      in(k) == bi * BSize + k >= off /\ bi * BSize + k < off + len
  IN  IF g.got = 0 THEN [g EXCEPT !.ok = FALSE]
      ELSE [PutData(g, g.got, [k \in 0..(BSize-1) |-> IF in(k) THEN val ELSE old[k]])
              EXCEPT !.total = @ + Cardinality({k \in 0..(BSize-1) : in(k)})]
WriteBlock(m, bi, off, len, val) == PutPart(GetOrAllocBlock(m, bi), bi, off, len, val)

(* ext2_write: as much as there is room for; then the inode, then the rest. *)
PutSize(m, ino, end) ==
  LET i == [m.i EXCEPT !.size = IF end > @ THEN end ELSE @]
  IN  [PutInode(m, ino, i) EXCEPT !.i = i]
EndWrite(m, ino, off) == Flush(PutSize(m, ino, off + m.total))
WriteFile(d, ino, off, len, val) ==
  LET first == off \div BSize
      n == Ceil(off + len) - first
  IN  EndWrite(FoldLeft(LAMBDA a, k : IF a.ok THEN WriteBlock(a, first + k - 1, off, len, val) ELSE a,
                        Begin(d, d.inode[ino]), [k \in 1..n |-> k]), ino, off)

(* ext2_truncate: shrinking frees every block past the new end and every    *)
(* table that is not needed any more; growing only records the size.        *)
TruncateFile(d, ino, len) ==
  LET in == d.inode[ino]
      old == Ceil(in.size)
      new == Ceil(len)
      base == NDirect + Per
      T(b) == IF b = 0 THEN NoTable ELSE d.tab[b]
      direct == {in.ptr[b] : b \in {x \in 0..(NDirect-1) : x >= new /\ x < old}} \ {0}
      \* the single-indirect table
      one == in.ptr[Single]
      reach1 == old > NDirect /\ one # 0
      cut1 == {k \in 0..(Per-1) : NDirect + k >= new /\ NDirect + k < old}
      gone1 == IF reach1 THEN {T(one)[k] : k \in cut1} \ {0} ELSE {}
      drop1 == reach1 /\ new <= NDirect
      tab1 == [k \in 0..(Per-1) |-> IF k \in cut1 THEN 0 ELSE T(one)[k]]
      \* the double-indirect tables
      top == in.ptr[Double]
      reach2 == old > base /\ top # 0
      outer == IF reach2 THEN {o \in 0..(Per-1) : T(top)[o] # 0} ELSE {}
      index(o, k) == base + o * Per + k
      cut2(o) == {k \in 0..(Per-1) : index(o, k) >= new /\ index(o, k) < old}
      left(o) == \E k \in 0..(Per-1) : index(o, k) < new /\ T(T(top)[o])[k] # 0
      tab2(o) == [k \in 0..(Per-1) |-> IF k \in cut2(o) THEN 0 ELSE T(T(top)[o])[k]]
      gone2 == UNION {{T(T(top)[o])[k] : k \in cut2(o)} : o \in outer} \ {0}
      empty == {o \in outer : ~left(o)}
      drop2 == reach2 /\ new <= base
      free == direct \cup gone1 \cup (IF drop1 THEN {one} ELSE {})
              \cup gone2 \cup {T(top)[o] : o \in empty} \cup (IF drop2 THEN {top} ELSE {})
      m0 == FreeBlocks(Begin(d, in), free)
      m1 == IF reach1 THEN PutTable(m0, one, tab1) ELSE m0
      m2 == FoldLeft(LAMBDA a, o : PutTable(a, T(top)[o], tab2(o)),
                     m1, SetToSortSeq(outer \ empty, <))
      m3 == IF empty = {} THEN m2
            ELSE PutTable(m2, top, [o \in 0..(Per-1) |-> IF o \in empty THEN 0 ELSE T(top)[o]])
      ptr == [p \in 0..Double |->
                IF \/ p < NDirect /\ p >= new /\ p < old
                   \/ p = Single /\ drop1
                   \/ p = Double /\ drop2 THEN 0 ELSE in.ptr[p]]
      i == [in EXCEPT !.size = len, !.ptr = ptr, !.nblk = @ - Cardinality(free)]
  IN  IF len >= in.size THEN Flush(PutInode(Begin(d, in), ino, [in EXCEPT !.size = len]))
      ELSE Flush(PutInode(m3, ino, i))

(* The blocks an inode leads to, data and tables.                           *)
DataOf(d, in) == {ResolveBlock(d, in, b) : b \in 0..(Ceil(in.size) - 1)} \ {0}
TablesOf(d, in) ==
  ({in.ptr[Single], in.ptr[Double]}
     \cup (IF in.ptr[Double] = 0 THEN {} ELSE {d.tab[in.ptr[Double]][o] : o \in 0..(Per-1)})) \ {0}

(* A mutation: the tables are forgotten.                                    *)
LeakyFreeInodeData(m, in) == FreeBlocks(m, DataOf(m.d, in))

(* free_inode_data: the data and the tables.                                *)
FreeInodeData(m, in) == FreeBlocks(m, DataOf(m.d, in) \cup TablesOf(m.d, in))

-----------------------------------------------------------------------------
(* Directories.                                                             *)

DirBlocks(d, in) == {ResolveBlock(d, in, b) : b \in 0..((in.size \div BSize) - 1)} \ {0}
EntriesIn(d, b) == {x \in Names : d.dir[b].ents[x] # 0}
HasRoom(d, b) == Cardinality(EntriesIn(d, b)) + (IF d.dir[b].up # 0 THEN 2 ELSE 0) < DirRoom

(* dir_has_name: the inode behind a name of a directory, 0 for none.        *)
Find(d, ino, x) ==
  LET bs == {b \in DirBlocks(d, d.inode[ino]) : d.dir[b].ents[x] # 0}
  IN  IF bs = {} THEN 0 ELSE d.dir[CHOOSE b \in bs : TRUE].ents[x]

(* add_dirent: in the first block with room, or in the block g appended.    *)
AppendDirent(g, ino, x, child) ==
  IF g.got = 0 THEN [g EXCEPT !.ok = FALSE]
  ELSE PutInode(PutDir(PutData(g, g.got, ZeroData), g.got, [NoDir EXCEPT !.ents[x] = child]),
                ino, [g.i EXCEPT !.size = @ + BSize])
AddDirent(m, ino, x, child) ==
  LET in == m.d.inode[ino]
      n == in.size \div BSize
      room == {b \in 0..(n-1) : HasRoom(m.d, ResolveBlock(m.d, in, b))}
      at == ResolveBlock(m.d, in, CHOOSE b \in room : \A c \in room : b <= c)
  IN  IF room # {} THEN Put(m, [m.d EXCEPT !.dir[at].ents[x] = child])
      ELSE AppendDirent(GetOrAllocBlock([m EXCEPT !.i = in], n), ino, x, child)

RemoveDirent(m, ino, x) ==
  LET b == CHOOSE c \in DirBlocks(m.d, m.d.inode[ino]) : m.d.dir[c].ents[x] # 0
  IN  Put(m, [m.d EXCEPT !.dir[b].ents[x] = 0])

(* Whether AddDirent would find room: what a caller who keeps some room on  *)
(* the disk relies on.                                                      *)
InPlace(d, ino) == \E b \in DirBlocks(d, d.inode[ino]) : HasRoom(d, b)
WouldFit(d, ino, need) ==
  LET in == d.inode[ino]
  IN  \/ InPlace(d, ino)
      \/ d.sum.fb >= need + 1 + (IF in.size \div BSize >= NDirect THEN 2 ELSE 0)

(* A directory gains or loses a subdirectory.                               *)
Link(m, ino) == PutInode(m, ino, [m.d.inode[ino] EXCEPT !.links = @ + 1])
Unlinked(m, ino) == PutInode(m, ino, [m.d.inode[ino] EXCEPT !.links = IF @ > 0 THEN @ - 1 ELSE 0])
CountDir(m) == [m EXCEPT !.sum.dirs = @ + 1]
UncountDir(m) == [m EXCEPT !.sum.dirs = IF @ > 0 THEN @ - 1 ELSE 0]

(* ext2_create.  A directory gets its first block, with "." and "..", and   *)
(* its parent a link; an entry that finds no room is undone in part.        *)
NewInode(isdir) ==
  [NoInode EXCEPT !.mode = IF isdir THEN "dir" ELSE "file", !.links = IF isdir THEN 2 ELSE 1]
KeepOrUndo(m, ino, in) ==
  Flush(IF m.ok THEN [m EXCEPT !.got = ino]
        ELSE FreeInode(FreeInodeData(IF in.mode = "dir" THEN UncountDir(m) ELSE m, in), ino))
MakeFile(m, ino, parent, x) ==
  KeepOrUndo(AddDirent(PutInode(m, ino, NewInode(FALSE)), parent, x, ino), ino, NewInode(FALSE))
MakeDir(m, ino, parent, x) ==
  LET in == [m.i EXCEPT !.size = BSize]
      dots == PutDir(PutData(m, m.got, ZeroData), m.got, [NoDir EXCEPT !.up = parent])
  IN  IF m.got = 0 THEN Flush([FreeInode(m, ino) EXCEPT !.ok = FALSE])
      ELSE KeepOrUndo(AddDirent(CountDir(PutInode(Link(dots, parent), ino, in)), parent, x, ino), ino, in)
MakeWith(m, parent, x, isdir) ==
  IF m.got = 0 THEN Flush([m EXCEPT !.ok = FALSE])
  ELSE IF isdir THEN MakeDir(GetOrAllocBlock([m EXCEPT !.i = NewInode(TRUE)], 0), m.got, parent, x)
  ELSE MakeFile(m, m.got, parent, x)
CreateIn(d, parent, x, isdir) == MakeWith(AllocInode(Begin(d, NoInode)), parent, x, isdir)

(* ext2_unlink: the entry, the blocks, the inode; a directory only when it  *)
(* is empty, and its parent loses a link.                                   *)
EmptyDir(d, ino) == \A b \in DirBlocks(d, d.inode[ino]) : EntriesIn(d, b) = {}

UnlinkIn(d, parent, x) ==
  LET child == Find(d, parent, x)
      removed == RemoveDirent(Begin(d, NoInode), parent, x)
      freed == FreeInode(PutInode(FreeInodeData(removed, d.inode[child]), child, NoInode), child)
  IN  Flush(IF d.inode[child].mode = "dir" THEN Unlinked(UncountDir(freed), parent) ELSE freed)

(* ext2_move: the new entry, then the old one; a directory that changes     *)
(* parents has its ".." and both parents' links put right.                  *)
PutUp(m, b, up) == PutDir(m, b, [m.d.dir[b] EXCEPT !.up = up])
Reparent(m, op, np, child) ==
  LET in == m.d.inode[child]
  IN  Flush(IF in.mode = "dir" /\ np # op
            THEN Link(Unlinked(PutUp(m, in.ptr[0], np), op), np) ELSE m)
Leave(m, op, ox, np, child) ==
  IF m.ok THEN Reparent(RemoveDirent(m, op, ox), op, np, child) ELSE Flush(m)

(* A mutation: the old entry goes first.                                    *)
HastyMoveIn(d, op, ox, np, nx) ==
  LET child == Find(d, op, ox)
  IN  Reparent(AddDirent(RemoveDirent(Begin(d, NoInode), op, ox), np, nx, child), op, np, child)

MoveIn(d, op, ox, np, nx) ==
  LET child == Find(d, op, ox)
  IN  Leave(AddDirent(Begin(d, NoInode), np, nx, child), op, ox, np, child)

-----------------------------------------------------------------------------
(* How a call ends: all of it written, or the power cut after some of it.   *)

Call == ~down /\ calls < MaxCalls /\ calls' = calls + 1

Done(m, table, now) ==
  /\ disk' = m.d
  /\ open' = table
  /\ kept' = now
  /\ UNCHANGED down

Cut(m, mine) ==
  /\ \E k \in 1..(Len(m.log) - 1) : disk' = m.log[k]
  /\ down' = TRUE
  /\ open' = [fd \in Fds |-> Closed]
  /\ kept' = [i \in Inodes |-> IF i \in mine THEN NoFile ELSE kept[i]]

Ends(m, table, now, mine) == Done(m, table, now) \/ Cut(m, mine)

(* The directories a path may go through: the root and those in it.         *)
Parents == {Root} \cup {i \in Inodes : disk.inode[i].mode = "dir" /\ \E x \in Names : Find(disk, Root, x) = i}

Overwrite(data, off, len, val) ==
  [i \in 1..(IF off + len > Len(data) THEN off + len ELSE Len(data)) |->
     IF i > off /\ i <= off + len THEN val ELSE IF i <= Len(data) THEN data[i] ELSE "zero"]
Resize(data, len) == [i \in 1..len |-> IF i <= Len(data) THEN data[i] ELSE "zero"]

OpenOn(i) == {fd \in Fds : open[fd].used /\ open[fd].ino = i}

-----------------------------------------------------------------------------
(* The calls (vfs_create, vfs_mkdir, vfs_unlink, vfs_rename, vfs_truncate). *)

Created(m, x, isdir) ==
  Ends(m, open, IF m.ok /\ ~isdir THEN [kept EXCEPT ![m.got] = FileOf(x, <<>>)] ELSE kept, {})

Create(p, x, isdir) ==
  /\ Call
  /\ Find(disk, p, x) = 0
  /\ "full" \in Risky \/ WouldFit(disk, p, IF isdir THEN 1 ELSE 0)
  /\ Created(CreateIn(disk, p, x, isdir), x, isdir)

Unlink(p, x) ==
  LET child == Find(disk, p, x)
  IN  /\ Call
      /\ child # 0
      /\ disk.inode[child].mode = "dir" => EmptyDir(disk, child)
      /\ "unlink" \in Risky \/ OpenOn(child) = {}
      /\ Ends(UnlinkIn(disk, p, x), open, [kept EXCEPT ![child] = NoFile], {child})

Rename(op, ox, np, nx) ==
  LET child == Find(disk, op, ox)
  IN  /\ Call
      /\ child # 0 /\ Find(disk, np, nx) = 0
      /\ "full" \in Risky \/ WouldFit(disk, np, 0)
      /\ "inside" \in Risky \/ child # np
      /\ "bigdir" \in Risky \/ InPlace(disk, np) \/ disk.inode[np].size \div BSize < NDirect
      /\ Ends(MoveIn(disk, op, ox, np, nx), open, kept, {})

(* A mutation: open files keep their copy of the inode.                     *)
StaleRefreshed(i, in) == open

(* Every fd open on the inode sees the new size, and stands within it.      *)
Refreshed(i, in) ==
  [fd \in Fds |-> IF fd \in OpenOn(i)
     THEN [open[fd] EXCEPT !.cache = in, !.pos = IF @ > in.size THEN in.size ELSE @]
     ELSE open[fd]]

CutPath(m, i, len) ==
  Ends(m, Refreshed(i, m.d.inode[i]), [kept EXCEPT ![i].data = Resize(@, len)], {i})

TruncatePath(p, x, len) ==
  LET i == Find(disk, p, x)
  IN  /\ Call
      /\ i # 0 /\ disk.inode[i].mode = "file" /\ len # disk.inode[i].size
      /\ CutPath(TruncateFile(disk, i, len), i, len)

(* The calls on open files (vfs_open, vfs_read, vfs_write, vfs_seek,        *)
(* vfs_ftruncate, vfs_fstat, vfs_close).                                    *)

InMemory == UNCHANGED <<disk, down, kept, calls>>

Open(fd, p, x) ==
  LET i == Find(disk, p, x)
  IN  /\ ~down /\ ~open[fd].used
      /\ \A o \in Fds : o < fd => open[o].used
      /\ i # 0 /\ disk.inode[i].mode = "file"
      /\ open' = [open EXCEPT ![fd] = [used |-> TRUE, ino |-> i, cache |-> disk.inode[i], pos |-> 0]]
      /\ InMemory

Read(fd, len) ==
  LET f == open[fd]
      n == IF f.pos >= f.cache.size THEN 0
           ELSE IF len > f.cache.size - f.pos THEN f.cache.size - f.pos ELSE len
  IN  /\ f.used
      /\ open' = [open EXCEPT ![fd].pos = @ + n]
      /\ InMemory

Wrote(m, fd, f) ==
  Ends(m, [open EXCEPT ![fd].cache = m.d.inode[f.ino], ![fd].pos = @ + m.total],
       [kept EXCEPT ![f.ino].data = Overwrite(@, f.pos, m.total, kept[f.ino].tag)], {f.ino})

Write(fd, len) ==
  LET f == open[fd]
  IN  /\ f.used /\ f.pos + len <= MaxSize
      /\ Call
      /\ Wrote(WriteFile(disk, f.ino, f.pos, len, kept[f.ino].tag), fd, f)

Seek(fd, pos) ==
  /\ open[fd].used /\ open[fd].pos # pos
  /\ open' = [open EXCEPT ![fd].pos = pos]
  /\ InMemory

CutOpen(m, fd, f, len) ==
  Ends(m, [open EXCEPT ![fd].cache = m.d.inode[f.ino], ![fd].pos = IF @ > len THEN len ELSE @],
       [kept EXCEPT ![f.ino].data = Resize(@, len)], {f.ino})

Ftruncate(fd, len) ==
  LET f == open[fd]
  IN  /\ f.used /\ len # disk.inode[f.ino].size
      /\ "ftruncate" \in Risky \/ OpenOn(f.ino) = {fd}
      /\ Call
      /\ CutOpen(TruncateFile(disk, f.ino, len), fd, f, len)

Fstat(fd) ==
  /\ open[fd].used
  /\ open[fd].cache # disk.inode[open[fd].ino]
  /\ open' = [open EXCEPT ![fd].cache = disk.inode[open[fd].ino]]
  /\ InMemory

Close(fd) ==
  /\ open[fd].used
  /\ open' = [open EXCEPT ![fd] = Closed]
  /\ InMemory

-----------------------------------------------------------------------------
Init ==
  /\ disk = MkDisk
  /\ down = FALSE
  /\ open = [fd \in Fds |-> Closed]
  /\ kept = [i \in Inodes |-> NoFile]
  /\ calls = 0

Next ==
  \/ \E p \in Parents, x \in Names :
       \/ \E isdir \in BOOLEAN : Create(p, x, isdir)
       \/ Unlink(p, x)
       \/ \E np \in Parents, nx \in Names : Rename(p, x, np, nx)
       \/ \E len \in Lens : TruncatePath(p, x, len)
       \/ \E fd \in Fds : Open(fd, p, x)
  \/ \E fd \in Fds :
       \/ Fstat(fd) \/ Close(fd)
       \/ \E n \in Writes : Read(fd, n) \/ Write(fd, n)
       \/ \E n \in Places : Seek(fd, n)
       \/ \E n \in Lens : Ftruncate(fd, n)

Spec == Init /\ [][Next]_vars

-----------------------------------------------------------------------------
Ptrs == [0..Double -> 0..NBlocks]
INodes == [mode : {"none", "file", "dir"}, links : Nat, size : 0..(BSize * NBlocks),
           nblk : 0..NBlocks, ptr : Ptrs]

(* The state has its type; in particular no free count goes below zero and  *)
(* no inode has more blocks than the disk.                                  *)
TypeOK ==
  /\ disk.bits \subseteq Blocks /\ disk.ibits \subseteq Inodes
  /\ disk.sum \in [fb : 0..NBlocks, fi : 0..NInodes, dirs : 0..NInodes]
  /\ disk.inode \in [Inodes -> INodes]
  /\ disk.data \in [Blocks -> [0..(BSize-1) -> Cells]]
  /\ disk.tab \in [Blocks -> [0..(Per-1) -> 0..NBlocks]]
  /\ disk.dir \in [Blocks -> [up : 0..NInodes, ents : [Names -> 0..NInodes]]]
  /\ \A fd \in Fds : open[fd] = Closed \/
       open[fd] \in [used : {TRUE}, ino : Inodes, cache : INodes, pos : 0..MaxSize]
  /\ down \in BOOLEAN /\ calls \in 0..MaxCalls

(* Where each block is led to from: the data and the tables of the inodes   *)
(* in use.                                                                  *)
InUse == {i \in Inodes : disk.inode[i].mode # "none"}
Uses(i) ==
  LET in == disk.inode[i]
      top == in.ptr[Double]
  IN  {<<"data", i, b>> : b \in {x \in 0..(Ceil(in.size) - 1) : ResolveBlock(disk, in, x) # 0}}
      \cup {<<"ptr", i, p>> : p \in {x \in {Single, Double} : in.ptr[x] # 0}}
      \cup (IF top = 0 THEN {} ELSE {<<"table", i, o>> : o \in {x \in 0..(Per-1) : disk.tab[top][x] # 0}})
BlockOf(u) ==
  LET in == disk.inode[u[2]]
  IN  CASE u[1] = "data" -> ResolveBlock(disk, in, u[3])
        [] u[1] = "ptr" -> in.ptr[u[3]]
        [] u[1] = "table" -> disk.tab[in.ptr[Double]][u[3]]

(* Between calls the block bitmap marks exactly the blocks that files,      *)
(* directories and tables lead to, and nothing leads twice to one block:    *)
(* no file shares a block and none is lost, however files grow through the  *)
(* tables, run into a full disk, shrink and are removed.                    *)
BlocksOnce ==
  ~down =>
    LET uses == UNION {Uses(i) : i \in InUse}
    IN  /\ {BlockOf(u) : u \in uses} = disk.bits
        /\ Cardinality(uses) = Cardinality(disk.bits)

(* Between calls the counts that e2fsck compares are right: free blocks and *)
(* inodes, directories, each inode's blocks (ext2.c:938-940: "failing to    *)
(* mirror that here makes e2fsck report a wrong block count") and links.    *)
EntryPairs ==
  {<<p, x>> \in InUse \X Names : disk.inode[p].mode = "dir" /\ Find(disk, p, x) # 0}
Children(p) == {Find(disk, p, x) : x \in {y \in Names : Find(disk, p, y) # 0}}
CountsTrue ==
  ~down =>
    /\ disk.sum.fb = NBlocks - Cardinality(disk.bits)
    /\ disk.sum.fi = NInodes - Cardinality(disk.ibits)
    /\ disk.sum.dirs = Cardinality({i \in InUse : disk.inode[i].mode = "dir"})
    /\ \A i \in InUse :
         /\ disk.inode[i].nblk = Cardinality(Uses(i))
         /\ disk.inode[i].links =
              IF disk.inode[i].mode = "file" THEN 1
              ELSE 2 + Cardinality({c \in Children(i) : disk.inode[c].mode = "dir"})

(* Between calls the names make a tree: every inode in use but the root has *)
(* exactly one name, in the directory its ".." names, the inode bitmap      *)
(* marks exactly these inodes, and every one is reached from the root.      *)
Reached ==
  LET step(S) == S \cup UNION {IF disk.inode[i].mode = "dir" THEN Children(i) ELSE {} : i \in S}
      at[n \in 0..NInodes] == IF n = 0 THEN {Root} ELSE step(at[n-1])
  IN  at[NInodes]
NamesTree ==
  ~down =>
    /\ disk.ibits = InUse
    /\ Reached = InUse
    /\ Cardinality(EntryPairs) = Cardinality(InUse) - 1
    /\ \A e \in EntryPairs :
         LET c == Find(disk, e[1], e[2])
         IN  disk.inode[c].mode = "dir" => disk.dir[disk.inode[c].ptr[0]].up = e[1]

(* Between calls the disk is what e2fsck calls clean.                       *)
Clean == TypeOK /\ BlocksOnce /\ CountsTrue /\ NamesTree

(* The power cut after any write of any call: every file but the one that   *)
(* was being written, shortened or removed still has a name and holds what  *)
(* it held.                                                                 *)
HoldsOthers ==
  \A i \in Inodes :
    kept[i].st = "file" =>
      LET in == disk.inode[i]
          k == kept[i].data
      IN  /\ i \in Reached
          /\ in.size = Len(k)
          /\ \A n \in 1..Len(k) :
               LET b == ResolveBlock(disk, in, (n - 1) \div BSize)
               IN  k[n] = IF b = 0 THEN "zero" ELSE disk.data[b][(n - 1) % BSize]

(* The copy of the inode that an open file reads by leads only to blocks    *)
(* that are still that file's: a read never returns another file's bytes,   *)
(* whoever wrote to the file or shortened it by its path meanwhile          *)
(* (vfs_truncate, vfs.c:236: "Any fd already open on this inode must see    *)
(* the new size").  It does not hold when a file open twice is shortened    *)
(* through one of its fds, nor when an open file is removed: "ftruncate"    *)
(* and "unlink" of Risky.                                                   *)
ReadsOwn ==
  \A fd \in Fds :
    open[fd].used =>
      LET f == open[fd]
          mine == {BlockOf(u) : u \in {v \in Uses(f.ino) : v[1] = "data"}}
      IN  DataOf(disk, f.cache) \subseteq mine
=============================================================================
