-------------------------------- MODULE Fat --------------------------------
(***************************************************************************)
(* The volumes on USB drives: the volume layer (src/kernel/fs/vol.c), the  *)
(* FAT16/FAT32/exFAT driver (src/kernel/fs/fatfs.c) and the part of the    *)
(* open file table that serves them (src/kernel/fs/vfs.c).                 *)
(*                                                                         *)
(* Every call runs under the kernel lock, so calls do not interleave; what *)
(* comes at any moment is the user's hand.  A drive is pulled out between  *)
(* two calls or between two sector writes of one call, and another, or the *)
(* same, is put in.  The driver writes its sectors as it goes, so a call   *)
(* is the list of the drive's contents after each of its writes, and a     *)
(* drive pulled out in the middle keeps the contents of some point of it.  *)
(*                                                                         *)
(* One place for a drive, one volume on it, files in its root directory.   *)
(* A byte of the model stands for a sector.  What a file is given to hold  *)
(* is its own name, so a cluster in the wrong file shows.                  *)
(***************************************************************************)
EXTENDS Naturals, FiniteSets, Sequences, SequencesExt

CONSTANTS
  Names,      \* names in the root directory (strings)
  NClus,      \* clusters of a drive
  CSize,      \* bytes of a cluster
  MaxSize,    \* bound: the longest file
  Writes,     \* lengths of a read or a write
  Places,     \* where a seek goes, and lengths a file is truncated to
  Drives,     \* the drives there are
  ExFat,      \* the ones that are exFAT; the others are FAT
  Shipped,    \* what each drive holds at first: a name, or NoName
  Risky,      \* situations the environment may bring about, see below
  Setups      \* the bounds of this instance, see Setup

(* How many slots the open file table has, which drives are put in, how     *)
(* often, and how many calls that may write are made.                       *)
Setup == [fds : Nat \ {0}, drives : SUBSET Drives, plugs : Nat, calls : Nat]

(* Situations in which the code is known not to keep its word; a run says  *)
(* which of them it lets happen.                                           *)
(*   "two fds"   a file is opened while it is already open                 *)
(*   "stale"     a file is renamed while an fd of a drive that went is     *)
(*               open on the same entry                                    *)
(*   "eject"     a drive is ejected while a file on it is written to       *)
(*   "length"    an exFAT file not written to its end is renamed           *)
(*   "replug"    a drive is used again after one was pulled out in the     *)
(*               middle of a call                                          *)
ASSUME RiskyAssumption ==
  Risky \subseteq {"two fds", "stale", "eject", "length", "replug"}
ASSUME SizeAssumption ==
  /\ NClus \in Nat \ {0}
  /\ CSize \in Nat \ {0}
  /\ MaxSize \in 0..(NClus * CSize)
  /\ Writes \subseteq 1..MaxSize /\ Places \subseteq 0..MaxSize
  /\ ExFat \subseteq Drives
  /\ Setups \subseteq Setup
  /\ Shipped \in [Drives -> Names \cup {"none"}]

VARIABLES
  setup,      \* the one of Setups this is; it does not change
  disk,       \* what each drive holds
  cut,        \* drives that were pulled out in the middle of a call
  place,      \* the drive that is plugged in and its usb_disk_id, 0 for none
  lastId,     \* the last id given to a drive
  vol,        \* the volume: used, the id of its drive, gen
  scanned,    \* the id that was looked at
  open,       \* the open file table
  kept,       \* ghost: what each file of each drive is to hold
  calls       \* calls so far

vars == <<disk, cut, place, lastId, vol, scanned, open, kept, calls>>

Fds == 1..setup.fds
MaxPlugs == setup.plugs
MaxCalls == setup.calls

-----------------------------------------------------------------------------
(* Drives, entries and open files.                                         *)

Clusters == 1..NClus
EOC == NClus + 1
Cells == Names \cup {"zero", "old"}
Ceil(bytes) == (bytes + CSize - 1) \div CSize

NoEntry == [there |-> FALSE, first |-> 0, size |-> 0, vdl |-> 0, contig |-> FALSE]
Entry(first, size, vdl, contig) ==
  [there |-> TRUE, first |-> first, size |-> size, vdl |-> vdl, contig |-> contig]

NoFile == [st |-> "none", data |-> <<>>]
AnyFile == [st |-> "any", data |-> <<>>]
FileOf(data) == [st |-> "file", data |-> data]

Closed == [used |-> FALSE]
Nothing == [drive |-> CHOOSE d \in Drives : TRUE, id |-> 0]

(* A file opened from entry e: its size and clusters as the entry has them, *)
(* nothing counted yet, no cursor (ck-th cluster is cc) yet.                *)
FillFile(e) ==
  [first |-> e.first, size |-> e.size, vdl |-> e.vdl, contig |-> e.contig,
   ncl |-> 0, lastc |-> 0, ck |-> 0, cc |-> 0, dirty |-> FALSE]

(* A drive as another system left it: empty, or with a file that fills one  *)
(* cluster, on exFAT with only its first byte ever written.                 *)
MkDisk(d) ==
  LET n == Shipped[d]
      ex == d \in ExFat
      size == CSize
  IN  [fat |-> [c \in Clusters |-> IF c = 1 /\ n \in Names /\ ~ex THEN EOC ELSE 0],
       bm |-> IF n \in Names /\ ex THEN {1} ELSE {},
       data |-> [c \in Clusters |-> [i \in 0..(CSize-1) |->
                   IF n \in Names /\ c = 1 /\ i < (IF ex THEN 1 ELSE size) THEN n ELSE "old"]],
       dir |-> [x \in Names |-> IF x = n THEN Entry(1, size, IF ex THEN 1 ELSE size, ex)
                                ELSE NoEntry]]

MkKept(d) ==
  [x \in Names |-> IF x # Shipped[d] THEN NoFile
     ELSE FileOf([i \in 1..CSize |-> IF d \in ExFat /\ i > 1 THEN "zero" ELSE x])]

-----------------------------------------------------------------------------
(* The driver.  A call in progress is m: the drive's contents d, the        *)
(* contents after every write so far, the open file f it works on, whether  *)
(* all went well, the cluster it last allocated, the volume's hint where to *)
(* look for a free one, and whether it is exFAT.                            *)

Begin(d, f, hint, ex) ==
  [d |-> d, log |-> <<d>>, f |-> f, ok |-> TRUE, got |-> 0, hint |-> hint, ex |-> ex]
Put(m, d) == [m EXCEPT !.d = d, !.log = Append(@, d)]

FatSet(m, c, val) == Put(m, [m.d EXCEPT !.fat[c] = val])
BmSet(m, c, used) ==
  Put(m, [m.d EXCEPT !.bm = IF used THEN @ \cup {c} ELSE @ \ {c}])
PutEntry(m, name, e) == Put(m, [m.d EXCEPT !.dir[name] = e])
IsFree(m, c) == IF m.ex THEN c \notin m.d.bm ELSE m.d.fat[c] = 0

(* The clusters of a chain as the FAT links them, from the 0th.             *)
Follow(d, c) == IF c \in Clusters THEN d.fat[c] ELSE EOC
Walk(d, first) ==
  LET at[k \in 0..NClus] == IF k = 0 THEN first ELSE Follow(d, at[k-1])
  IN  at

(* The clusters a chain has, counted from the walk w along it.              *)
Length(w) == Cardinality({k \in 0..NClus : w[k] \in Clusters})
Listed(w) == [k \in 1..Length(w) |-> w[k-1]]

(* A cluster number as a file's cluster: 0 when it is none.                 *)
Valid(c) == IF c \in Clusters THEN c ELSE 0

(* The k-th cluster of a file, 0 when there is none.  A chain is walked     *)
(* from the file's cursor, where the last walk ended, unless that lies      *)
(* further on; the cursor then stays at what was found.                     *)
FileClus(d, f, k) ==
  IF f.first \notin Clusters THEN 0
  ELSE Valid(IF f.contig THEN f.first + k
             ELSE IF f.cc # 0 /\ f.ck <= k THEN Walk(d, f.cc)[k - f.ck]
             ELSE Walk(d, f.first)[k])
CursorAt(f, k, c) == IF c # 0 /\ ~f.contig THEN [f EXCEPT !.ck = k, !.cc = c] ELSE f

(* How many clusters a file has and its last, counted once and then kept.   *)
CountRow(m, n) ==
  [m EXCEPT !.f.ncl = n, !.f.lastc = IF n = 0 THEN 0 ELSE m.f.first + n - 1]
CountChain(m, cs) ==
  [m EXCEPT !.f.ncl = Len(cs), !.f.lastc = IF cs = <<>> THEN 0 ELSE Last(cs)]
FileNclus(m) ==
  IF m.f.first \notin Clusters \/ m.f.ncl # 0 THEN m
  ELSE IF m.f.contig THEN CountRow(m, Ceil(m.f.size))
  ELSE CountChain(m, Listed(Walk(m.d, m.f.first)))

(* A free cluster, taken: the first from `near` on, or from the hint.       *)
Nearest(free, start) ==
  CHOOSE x \in free : \A y \in free :
    (x + NClus - start) % NClus <= (y + NClus - start) % NClus
Take(m, c) ==
  [(IF m.ex THEN BmSet(m, c, TRUE) ELSE FatSet(m, c, EOC)) EXCEPT !.got = c, !.hint = c + 1]
TakeOf(m, free, start) ==
  IF free = {} THEN [m EXCEPT !.ok = FALSE] ELSE Take(m, Nearest(free, start))
AllocClus(m, near) ==
  TakeOf(m, {c \in Clusters : IsFree(m, c)},
         IF near \in Clusters THEN near ELSE IF m.hint \in Clusters THEN m.hint ELSE 1)

FreeClus(m, c) == IF m.ex THEN BmSet(m, c, FALSE) ELSE FatSet(m, c, 0)

(* Clusters in a row, or a chain as it is linked now: given back one by one.*)
FreeChain(m, first, contig, n) ==
  FoldLeft(FreeClus, m,
           SelectSeq(IF contig THEN [k \in 1..n |-> first + k - 1] ELSE Listed(Walk(m.d, first)),
                     LAMBDA c : c \in Clusters))

(* Clusters that were in a row get a FAT chain.                             *)
MakeChain(m, first, n) ==
  FoldLeft(LAMBDA a, k : FatSet(a, first + k - 1, IF k = n THEN EOC ELSE first + k),
           m, [k \in 1..n |-> k])

(* One more cluster for the file, linked behind its last.  A row the new    *)
(* cluster does not continue becomes a chain.                               *)
Broken(m) == m.ex /\ m.f.contig /\ m.f.ncl > 0 /\ m.got # m.f.lastc + 1
BreakRow(m) ==
  IF m.f.ncl = 0 THEN [m EXCEPT !.f.first = m.got, !.f.contig = m.ex]
  ELSE IF Broken(m) THEN [MakeChain(m, m.f.first, m.f.ncl) EXCEPT !.f.contig = FALSE]
  ELSE m
LinkLast(m) == IF m.f.ncl > 0 THEN FatSet(m, m.f.lastc, m.got) ELSE m
LinkChain(m) == IF m.ex /\ m.f.contig THEN m ELSE LinkLast(FatSet(m, m.got, EOC))
Counted(m) == [m EXCEPT !.f.ncl = @ + 1, !.f.lastc = m.got, !.f.dirty = TRUE]
Attach(m) == IF m.ok THEN Counted(LinkChain(BreakRow(m))) ELSE m
Grow(m) == Attach(AllocClus(m, IF m.f.lastc = 0 THEN 0 ELSE m.f.lastc + 1))

(* Clusters enough for `bytes`; what was taken stays taken when the volume  *)
(* fills up on the way.                                                     *)
Started(m) == IF m.f.first \in Clusters THEN m ELSE [m EXCEPT !.f.ncl = 0, !.f.lastc = 0]
FileReserve(m, bytes) ==
  FoldLeft(LAMBDA a, i : IF a.ok /\ a.f.ncl < Ceil(bytes) THEN Grow(a) ELSE a,
           Started(FileNclus(m)), [i \in Clusters |-> i])

(* The bytes of one write, put where the file's clusters are (each cluster  *)
(* in a transfer of its own).                                               *)
PutIn(m, c, off, val) ==
  IF c = 0 THEN [m EXCEPT !.ok = FALSE]
  ELSE Put([m EXCEPT !.f = CursorAt(@, off \div CSize, c)],
           [m.d EXCEPT !.data[c][off % CSize] = val])
PutByte(m, off, val) == PutIn(m, FileClus(m.d, m.f, off \div CSize), off, val)

Larger(x, y) == IF x > y THEN x ELSE y
Reaches(m, end) ==
  IF ~m.ok THEN m
  ELSE [m EXCEPT !.f.size = Larger(end, @), !.f.vdl = Larger(end, @), !.f.dirty = TRUE]
PwriteAt(m, off, len, val) ==
  Reaches(FoldLeft(LAMBDA a, i : IF a.ok THEN PutByte(a, off + i - 1, val) ELSE a,
                   FileReserve(m, off + len), [i \in 1..len |-> i]),
          off + len)

(* A gap before what is written -- or what lies past what was ever written  *)
(* -- becomes zeros first.                                                  *)
FillGap(m, from, off) == IF off > from THEN PwriteAt(m, from, off - from, "zero") ELSE m
ThenWrite(m, off, len, val) == IF m.ok THEN PwriteAt(m, off, len, val) ELSE m
Pwrite(m, off, len, val) ==
  ThenWrite(FillGap(m, IF m.f.vdl < m.f.size THEN m.f.vdl ELSE m.f.size, off), off, len, val)

(* What reading byte `off` of an open file gives, and where reading `len`   *)
(* bytes from `off` on leaves the file's cursor.                            *)
Pread(d, f, off) ==
  LET c == FileClus(d, f, off \div CSize)
  IN  IF off >= f.vdl THEN "zero" ELSE IF c = 0 THEN "fails" ELSE d.data[c][off % CSize]
ReadOn(d, f, off, len) ==
  FoldLeft(LAMBDA g, k : CursorAt(g, k, FileClus(d, g, k)), f,
           SelectSeq([k \in 1..NClus |-> k - 1],
                     LAMBDA k : \E i \in off..(off + len - 1) : i < f.vdl /\ i \div CSize = k))

(* Longer: zeros to the new end.  Shorter: the clusters past the new end    *)
(* are given back, the chain being ended first where there is one.          *)
FreeFile(m) ==
  IF m.f.first \in Clusters /\ m.f.ncl > 0
    THEN FreeChain(m, m.f.first, m.f.contig, m.f.ncl) ELSE m
DropAll(m) ==
  [FreeFile(m) EXCEPT !.f.first = 0, !.f.contig = FALSE, !.f.ncl = 0, !.f.lastc = 0]
EndChain(m, last, rest) ==
  IF rest \in Clusters THEN FreeChain(FatSet(m, last, EOC), rest, FALSE, 0)
  ELSE FatSet(m, last, EOC)
KeepTo(m, keep, last) ==
  IF last = 0 THEN [m EXCEPT !.ok = FALSE]
  ELSE [(IF m.f.contig THEN FreeChain(m, m.f.first + keep, TRUE, m.f.ncl - keep)
         ELSE EndChain(m, last, m.d.fat[last]))
          EXCEPT !.f.ncl = keep, !.f.lastc = last]
Shorten(m, keep) ==
  IF keep = 0 THEN DropAll(m)
  ELSE IF m.f.first \in Clusters /\ keep < m.f.ncl
    THEN KeepTo(m, keep, FileClus(m.d, m.f, keep - 1)) ELSE m

(* Mutant: the cursor stays where it was in the chain.                      *)
LastingCursor(m, len) ==
  IF ~m.ok THEN m
  ELSE [m EXCEPT !.f.size = len, !.f.vdl = IF @ > len THEN len ELSE @, !.f.dirty = TRUE]

CutTo(m, len) ==
  IF ~m.ok THEN m
  ELSE [m EXCEPT !.f.size = len, !.f.vdl = IF @ > len THEN len ELSE @,
                 !.f.ck = 0, !.f.cc = 0, !.f.dirty = TRUE]

Truncate(m, len) ==
  IF len > m.f.size THEN Pwrite(m, m.f.size, len - m.f.size, "zero")
  ELSE IF len = m.f.size THEN m
  ELSE CutTo(Shorten(FileNclus(m), Ceil(len)), len)

(* The file's entry, written back if it changed.  FAT has no place for how  *)
(* much was ever written.                                                   *)
EntryOf(f, ex) == Entry(f.first, f.size, IF ex THEN f.vdl ELSE f.size, ex /\ f.contig /\ f.first # 0)

Sync(m, name) ==
  IF ~m.ok \/ ~m.f.dirty THEN m
  ELSE [PutEntry(m, name, EntryOf(m.f, m.ex)) EXCEPT !.f.dirty = FALSE]

(* The entry goes, then the clusters it led to.                             *)
Unlinked(m, name) == FreeFile(FileNclus(PutEntry(m, name, NoEntry)))

(* The old entry goes first, then the new one is made; a new entry says of  *)
(* its file that all of it was written.                                     *)
MoveEntry(m, e, from, to) ==
  PutEntry(PutEntry(m, from, NoEntry), to, Entry(e.first, e.size, e.size, e.contig))
Renamed(m, from, to) == MoveEntry(m, m.d.dir[from], from, to)

(* The directory has no room for the new one: the old entry, as it was, is  *)
(* put back.                                                                *)
PutBack(m, from) == PutEntry(PutEntry(m, from, NoEntry), from, m.d.dir[from])

-----------------------------------------------------------------------------
(* The volume layer.                                                        *)

(* vol_refresh: a volume whose drive went, or was replaced, is forgotten;   *)
(* a drive not looked at yet is mounted.                                    *)
Emptied(v) == [used |-> FALSE, id |-> 0, gen |-> v.gen + 1, hint |-> 0]
Mounted(v) ==
  IF place.id \notin {0, scanned} /\ ~v.used
    THEN [used |-> TRUE, id |-> place.id, gen |-> v.gen + 1, hint |-> 0] ELSE v
Seen == Mounted(IF vol.used /\ vol.id # place.id THEN Emptied(vol) ELSE vol)

LookAgain == vol' = Seen /\ scanned' = place.id

(* Mutant: a file is on whichever drive is there.                           *)
OnAnyVolume(f) == ~f.dead /\ Seen.used

(* The volume an open file is on, if it is still the one it was opened on.  *)
OnItsVolume(f) == ~f.dead /\ vol.gen = f.vgen /\ Seen.used /\ Seen.gen = f.vgen

(* An fd whose drive is there now: its file is the truth about that entry.  *)
Live(fd) == open[fd].used /\ OnItsVolume(open[fd])
Unsynced(fd) == Live(fd) /\ open[fd].ff.dirty

(* The same entry of the same directory -- of whichever drive was there.    *)
SameFile(fd, name) == open[fd].used /\ ~open[fd].dead /\ open[fd].name = name

-----------------------------------------------------------------------------
(* How a call ends.                                                         *)

Here == place.drive
ExHere == Here \in ExFat

(* A call on file f of the drive that is there.                             *)
On(f) == Begin(disk[Here], f, Seen.hint, ExHere)

Call == calls < MaxCalls /\ calls' = calls + 1

(* All of it was written: `table` is the open file table after it and `now` *)
(* what the files of this drive are to hold.                                *)
Done(m, table, now) ==
  /\ vol' = [Seen EXCEPT !.hint = m.hint] /\ scanned' = place.id
  /\ disk' = [disk EXCEPT ![Here] = m.d]
  /\ open' = table
  /\ kept' = [kept EXCEPT ![Here] = now]
  /\ UNCHANGED <<cut, place, lastId>>

(* The drive is pulled out after some of the writes: nothing is promised of *)
(* the file this call was about, nor of files written to and not closed.    *)
Lost(mine) ==
  [x \in Names |-> IF x \in mine \/ \E fd \in Fds : Unsynced(fd) /\ open[fd].name = x
                     THEN AnyFile ELSE kept[Here][x]]

Interrupted(m, mine) ==
  /\ LookAgain
  /\ \E k \in 1..(Len(m.log) - 1) : disk' = [disk EXCEPT ![Here] = m.log[k]]
  /\ cut' = cut \cup {Here}
  /\ place' = Nothing
  /\ kept' = [kept EXCEPT ![Here] = Lost(mine)]
  /\ UNCHANGED <<lastId, open>>

(* A call that writes: all of it, or the drive goes on the way.             *)
Ends(m, table, now, mine) == Done(m, table, now) \/ Interrupted(m, mine)

(* Nothing is written.                                                      *)
Refused(table) ==
  /\ open' = table
  /\ UNCHANGED <<disk, cut, place, lastId, kept>>

DeadTable(fd) == [open EXCEPT ![fd].dead = TRUE]

Overwrite(data, off, len, val) ==
  [i \in 1..(IF off + len > Len(data) THEN off + len ELSE Len(data)) |->
     IF i > off /\ i <= off + len THEN val ELSE IF i <= Len(data) THEN data[i] ELSE "zero"]
Resize(data, len) == [i \in 1..len |-> IF i <= Len(data) THEN data[i] ELSE "zero"]

(* A write that failed on a full volume may have lengthened the file by the *)
(* zeros of the gap: the file is as long as its open file says.             *)
Holds(name, m, data) ==
  [kept[Here] EXCEPT ![name] = IF @.st = "any" THEN @
                               ELSE FileOf(IF m.ok THEN data ELSE Resize(@.data, m.f.size))]

-----------------------------------------------------------------------------
(* The calls on paths (vfs_open, vfs_create, vfs_truncate, vfs_unlink,      *)
(* vfs_rename): each looks at the drives first.                             *)

Entries == disk[Here].dir

Open(fd, name) ==
  /\ ~open[fd].used
  /\ \A o \in Fds : o < fd => open[o].used
  /\ Seen.used /\ Entries[name].there
  /\ "two fds" \in Risky \/ \A o \in Fds : ~(Live(o) /\ SameFile(o, name))
  /\ LookAgain
  /\ open' = [open EXCEPT ![fd] = [used |-> TRUE, name |-> name, vgen |-> Seen.gen,
                                   dead |-> FALSE, pos |-> 0, ff |-> FillFile(Entries[name])]]
  /\ UNCHANGED <<disk, cut, place, lastId, kept, calls>>

Create(name) ==
  /\ Call
  /\ Seen.used /\ ~Entries[name].there
  /\ Ends(PutEntry(On(FillFile(NoEntry)), name, Entry(0, 0, 0, FALSE)),
          open, [kept[Here] EXCEPT ![name] = FileOf(<<>>)], {name})

(* An fd open on it is the file's truth: the file is truncated through the  *)
(* first such fd, which fails if that is one of a drive that went.          *)
CutOpen(m, fd, f, len) ==
  Ends(m, [open EXCEPT ![fd].ff = m.f, ![fd].pos = IF m.ok /\ @ > len THEN len ELSE @],
       Holds(f.name, m, Resize(kept[Here][f.name].data, len)), {f.name})
TruncateFd(fd, len) ==
  CutOpen(Sync(Truncate(On(open[fd].ff), len), open[fd].name), fd, open[fd], len)

CutEntry(m, name, len) ==
  Ends(m, open, IF m.ok THEN Holds(name, m, Resize(kept[Here][name].data, len)) ELSE kept[Here],
       {name})

TruncateVia(same, name, len) ==
  \/ /\ same = {}
     /\ CutEntry(Sync(Truncate(On(FillFile(Entries[name])), len), name), name, len)
  \/ \E fd \in same :
       /\ \A o \in same : fd <= o
       /\ \/ OnItsVolume(open[fd]) /\ TruncateFd(fd, len)
          \/ ~OnItsVolume(open[fd]) /\ LookAgain /\ Refused(open)

TruncatePath(name, len) ==
  /\ Call
  /\ Seen.used /\ Entries[name].there
  /\ TruncateVia({fd \in Fds : SameFile(fd, name)}, name, len)

Unlink(name) ==
  /\ Call
  /\ Seen.used /\ Entries[name].there
  /\ Ends(Unlinked(On(FillFile(Entries[name])), name),
          [fd \in Fds |-> IF SameFile(fd, name) THEN [open[fd] EXCEPT !.dead = TRUE] ELSE open[fd]],
          [kept[Here] EXCEPT ![name] = NoFile], {name})

(* The files open on it have their entries written before and are found     *)
(* again under the new name after, if it could be made.                     *)
SyncAll(fds, name) ==
  FoldLeft(LAMBDA a, fd : Sync([a EXCEPT !.f = open[fd].ff], name),
           On(FillFile(NoEntry)), SetToSortSeq(fds, <))
NamedNow(from, name) ==
  [fd \in Fds |-> IF SameFile(fd, from)
                    THEN [open[fd] EXCEPT !.name = name, !.ff.dirty = FALSE] ELSE open[fd]]
Moved(synced, from, to) ==
  \/ /\ "length" \in Risky \/ synced.d.dir[from].vdl = synced.d.dir[from].size
     /\ Ends(Renamed(synced, from, to), NamedNow(from, to),
             [kept[Here] EXCEPT ![from] = NoFile, ![to] = kept[Here][from]], {from, to})
  \/ Ends(PutBack(synced, from), NamedNow(from, from), kept[Here], {from})

Rename(from, to) ==
  /\ Call
  /\ Seen.used /\ Entries[from].there /\ ~Entries[to].there
  /\ "stale" \in Risky \/ \A fd \in Fds : SameFile(fd, from) => OnItsVolume(open[fd])
  /\ Moved(SyncAll({fd \in Fds : SameFile(fd, from)}, from), from, to)

-----------------------------------------------------------------------------
(* The calls on open files (vfs_read, vfs_write, vfs_seek, vfs_ftruncate,   *)
(* vfs_close).                                                              *)

(* What file_vol does when the fd's drive is not there: it looks at the     *)
(* drives only while the volume is the fd's, and marks the fd if that shows *)
(* that it went.                                                            *)
NotThere(fd) ==
  LET f == open[fd]
      asks == ~f.dead /\ vol.gen = f.vgen
  IN  /\ f.used /\ ~OnItsVolume(f)
      /\ IF asks THEN LookAgain ELSE UNCHANGED <<vol, scanned>>
      /\ Refused(IF asks THEN DeadTable(fd) ELSE open)
      /\ UNCHANGED calls

Read(fd, len) ==
  LET f == open[fd]
      n == IF f.pos >= f.ff.size THEN 0 ELSE IF len > f.ff.size - f.pos THEN f.ff.size - f.pos ELSE len
  IN  /\ Live(fd)
      /\ LookAgain
      /\ Refused([open EXCEPT ![fd].pos = @ + n, ![fd].ff = ReadOn(disk[Here], @, f.pos, n)])
      /\ UNCHANGED calls

Wrote(m, fd, f, len) ==
  Ends(m, [open EXCEPT ![fd].ff = m.f, ![fd].pos = IF m.ok THEN @ + len ELSE @],
       Holds(f.name, m, Overwrite(kept[Here][f.name].data, f.pos, len, f.name)), {f.name})
Write(fd, len) ==
  /\ Call
  /\ Live(fd) /\ open[fd].pos + len <= MaxSize
  /\ Wrote(Pwrite(On(open[fd].ff), open[fd].pos, len, open[fd].name), fd, open[fd], len)

(* (Where an fd whose drive went stands is of no use to anyone.)            *)
Seek(fd, pos) ==
  /\ Live(fd) /\ open[fd].pos # pos
  /\ Refused([open EXCEPT ![fd].pos = pos])
  /\ UNCHANGED <<vol, scanned, calls>>

Ftruncate(fd, len) ==
  /\ Call
  /\ Live(fd)
  /\ TruncateFd(fd, len)

Close(fd) ==
  /\ Live(fd)
  /\ Ends(Sync(On(open[fd].ff), open[fd].name), [open EXCEPT ![fd] = Closed], kept[Here],
          {open[fd].name})
  /\ UNCHANGED calls

(* Closing an fd whose drive went only frees its slot.                      *)
CloseGone(fd) ==
  LET f == open[fd]
  IN  /\ f.used /\ ~OnItsVolume(f)
      /\ IF ~f.dead /\ vol.gen = f.vgen THEN LookAgain ELSE UNCHANGED <<vol, scanned>>
      /\ Refused([open EXCEPT ![fd] = Closed])
      /\ UNCHANGED calls

-----------------------------------------------------------------------------
(* The drives.                                                              *)

(* A drive is put in: it gets an id no drive had before.                    *)
Plug(d) ==
  /\ place.id = 0 /\ lastId < MaxPlugs
  /\ "replug" \in Risky \/ cut = {}
  /\ place' = [drive |-> d, id |-> lastId + 1]
  /\ lastId' = lastId + 1
  /\ UNCHANGED <<disk, cut, vol, scanned, open, kept, calls>>

(* A drive is pulled out between two calls: nothing is promised of files    *)
(* written to and not closed.                                               *)
Pull ==
  /\ place.id # 0
  /\ place' = Nothing
  /\ kept' = [kept EXCEPT ![Here] = Lost({})]
  /\ UNCHANGED <<disk, cut, lastId, vol, scanned, open, calls>>

(* The desktop lists the volumes.                                           *)
Refresh ==
  /\ LookAgain
  /\ <<Seen, place.id>> # <<vol, scanned>>
  /\ UNCHANGED <<disk, cut, place, lastId, open, kept, calls>>

(* vol_eject: the volume is let go of, and stays so until the drive comes   *)
(* back with a new id.                                                      *)
Eject ==
  /\ vol.used
  /\ "eject" \in Risky \/ \A fd \in Fds : ~Unsynced(fd)
  /\ vol' = Emptied(vol)
  /\ UNCHANGED <<disk, cut, place, lastId, scanned, open, kept, calls>>

-----------------------------------------------------------------------------
Init ==
  /\ setup \in Setups
  /\ disk = [d \in Drives |-> MkDisk(d)]
  /\ kept = [d \in Drives |-> MkKept(d)]
  /\ place = Nothing
  /\ cut = {} /\ lastId = 0 /\ scanned = 0 /\ calls = 0
  /\ vol = [used |-> FALSE, id |-> 0, gen |-> 0, hint |-> 0]
  /\ open = [fd \in Fds |-> Closed]

Step ==
  \/ \E name \in Names :
       \/ Create(name) \/ Unlink(name)
       \/ \E to \in Names : Rename(name, to)
       \/ \E len \in Places : TruncatePath(name, len)
       \/ \E fd \in Fds : Open(fd, name)
  \/ \E fd \in Fds :
       \/ NotThere(fd) \/ Close(fd) \/ CloseGone(fd)
       \/ \E n \in Writes : Read(fd, n) \/ Write(fd, n)
       \/ \E n \in Places : Seek(fd, n) \/ Ftruncate(fd, n)
  \/ \E d \in setup.drives : Plug(d)
  \/ Pull \/ Refresh \/ Eject

Next == Step /\ UNCHANGED setup

Spec == Init /\ [][Next]_<<setup, vars>>

-----------------------------------------------------------------------------
FFiles == [first : 0..NClus, size : 0..MaxSize, vdl : 0..MaxSize, contig : BOOLEAN,
           ncl : 0..NClus, lastc : 0..NClus, ck : 0..NClus, cc : 0..NClus, dirty : BOOLEAN]
Disks == [fat : [Clusters -> 0..EOC], bm : SUBSET Clusters,
          data : [Clusters -> [0..(CSize-1) -> Cells]],
          dir : [Names -> [there : BOOLEAN, first : 0..NClus, size : 0..MaxSize,
                           vdl : 0..MaxSize, contig : BOOLEAN]]]

(* The state has its type: no file has more clusters than the volume, no    *)
(* entry leads outside it, and no more of a file was ever written than the  *)
(* file is long.                                                            *)
TypeOK ==
  /\ disk \in [Drives -> Disks]
  /\ cut \subseteq Drives
  /\ place \in [drive : Drives, id : 0..MaxPlugs] /\ lastId \in 0..MaxPlugs
  /\ vol \in [used : BOOLEAN, id : 0..MaxPlugs, gen : Nat, hint : 0..EOC] /\ scanned \in 0..MaxPlugs
  /\ \A fd \in Fds :
       \/ open[fd] = Closed
       \/ /\ open[fd] \in [used : {TRUE}, name : Names, vgen : Nat, dead : BOOLEAN,
                           pos : 0..MaxSize, ff : FFiles]
          /\ open[fd].ff.vdl <= open[fd].ff.size
  /\ calls \in 0..MaxCalls

(* The open file, or the entry, that says where the file is.                *)
Truth(d, name) ==
  LET mine == {fd \in Fds : Live(fd) /\ place.drive = d /\ open[fd].name = name}
  IN  IF mine = {} THEN FillFile(disk[d].dir[name]) ELSE open[CHOOSE fd \in mine : TRUE].ff

ClustersOf(d, f) ==
  IF f.first = 0 THEN {}
  ELSE IF f.contig THEN f.first..(f.first + (IF f.ncl > Ceil(f.size) THEN f.ncl ELSE Ceil(f.size)) - 1)
  ELSE ToSet(Listed(Walk(disk[d], f.first)))

(* No cluster belongs to two files and none that belongs to one is free     *)
(* for another to take: allocating in a row, breaking a row into a chain,   *)
(* truncating and removing keep the FAT, the bitmap and the entries         *)
(* together, whichever drive is in the socket.                              *)
InUse(d) == {c \in Clusters : IF d \in ExFat THEN c \in disk[d].bm ELSE disk[d].fat[c] # 0}
Apart ==
  \A d \in Drives \ cut :
    LET own == [n \in Names |-> ClustersOf(d, Truth(d, n))]
    IN  /\ \A n \in Names : own[n] \subseteq InUse(d)
        /\ \A n \in Names : \A c \in own[n] : \A o \in Names \ {n} : c \notin own[o]

ReadsAs(d, f, data) ==
  /\ f.size = Len(data)
  /\ \A i \in 1..Len(data) : Pread(disk[d], f, i - 1) = data[i]

(* A drive holds, in its own sectors, everything closed before it went:     *)
(* pulled out between any two writes of any call on another file, ejected,  *)
(* replaced by another drive while files were open on it (vfs.c:12-15).     *)
HoldsClosed ==
  \A d \in Drives, n \in Names :
    LET k == kept[d][n]
        e == disk[d].dir[n]
        written == \E fd \in Fds : Unsynced(fd) /\ place.drive = d /\ open[fd].name = n
    IN  /\ k.st = "file" /\ ~written => e.there /\ ReadsAs(d, FillFile(e), k.data)
        /\ k.st = "none" => ~e.there

(* A file reads through its open file as it was written: the gaps are       *)
(* zeros, what was cut off does not come back, and another file's bytes     *)
(* never show (fatfs.h: "a gap before it reads as zeros").                  *)
ReadsBack ==
  \A fd \in Fds :
    Live(fd) /\ kept[place.drive][open[fd].name].st = "file" =>
      ReadsAs(place.drive, open[fd].ff, kept[place.drive][open[fd].name].data)

(* Files keep to their own clusters, and read as they were written.         *)
FilesSound == TypeOK /\ Apart /\ ReadsBack
=============================================================================
