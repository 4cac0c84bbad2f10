--------------------------- MODULE ProcessProofs ---------------------------
(***************************************************************************)
(* Proofs about module Process, for any number of cores, slots, pids and   *)
(* any programs: one core to a process and one process to a kernel stack   *)
(* (Exclusive), address spaces counted by their holders and never loaded   *)
(* on more cores than they have holders (SpacesHeld), and no wake-up lost  *)
(* (NoLostWake).                                                           *)
(*                                                                         *)
(* None of the three is inductive alone.  PInv adds what each core stands  *)
(* on in each of its modes (Cpus), that one core at a time has the lock    *)
(* (OneLock), and what the identities in the table mean (Ids): above all,  *)
(* that pids and spaces are handed out once, and that a dead process that  *)
(* was no thread has already given up its space.                           *)
(***************************************************************************)
EXTENDS Process, TLAPS, FiniteSetTheorems, WellFoundedInduction

\* A nonempty set of numbers has a least one.
LEMMA LeastNat ==
    ASSUME NEW T \in SUBSET Nat, T # {}
    PROVE  \E x \in T : \A y \in T : x <= y
  <1>1. PICK x \in T : \A y \in T : <<y, x>> \notin OpToRel(<, Nat)
    BY NatLessThanWellFounded, WFMin
  <1>2. \A y \in T : <<y, x>> \in OpToRel(<, Nat) <=> y < x
    BY DEF OpToRel
  <1>3. \A y \in T : ~(y < x)
    BY <1>1, <1>2
  <1> QED
    BY <1>3

\* A remainder is a number: the distance round the table in pick_next.
LEMMA ModRange ==
    ASSUME NEW a \in Int, NEW n \in Nat \ {0}
    PROVE  a % n \in Nat
  OBVIOUS

----------------------------------------------------------------------------
(* The inductive invariant.                                                *)

\* TypeOK, but for the bound on the counts, which follows from RefsCount.
Types ==
    /\ setup \in Setups
    /\ proc \in [Slots -> Proc]
    /\ refs \in [Pids -> Nat]
    /\ current \in [Cores -> Slots \cup {None}]
    /\ on \in [Cores -> Slots \cup {None}]
    /\ cr3 \in [Cores -> 0..MaxPid]
    /\ mode \in [Cores -> {"user", "kernel", "exiting", "loop", "idle"}]
    /\ rrLast \in Slots
    /\ nextPid \in 1..(MaxPid + 1)

\* Pids and address spaces are handed out once, from next_pid; whoever can run
\* has an address space, whoever was not a thread gives it up when it ends; a
\* thread has no parent to wait for it.
IdOk(r, n) ==
    /\ r.state # "unused" => r.pid \in 1..(n - 1)
    /\ r.as < n
    /\ r.state \in {"ready", "running", "blocked"} => r.as >= 1
    /\ r.state = "zombie" /\ ~r.thread => r.as = 0
    /\ r.thread => r.parent = 0
Ids == \A p \in Slots : IdOk(proc[p], nextPid)

\* What a core stands on in each mode.  In its loop it may still have the page
\* tables of a process that nobody runs.
CpuAt(t, m, cu, o, r) ==
    /\ m \in {"user", "kernel"} => cu \in Slots /\ o = cu /\ r = t[cu].as
    /\ m = "exiting" =>
         cu = None /\ o \in Slots /\ r = 0 /\ t[o].state \in {"zombie", "unused"}
    /\ m = "loop" =>
         /\ cu = None /\ o = None
         /\ r = 0 \/ \E p \in Slots : t[p].state \in {"ready", "blocked"} /\ t[p].as = r
    /\ m = "idle" => cu = None /\ o = None /\ r = 0
Cpus == \A c \in Cores : CpuAt(proc, mode[c], current[c], on[c], cr3[c])

\* The big kernel lock (module Bkl): one core at a time.
OneLock == \A c, d \in Cores : HasLock(c) /\ HasLock(d) => c = d

\* The inductive invariant.
PInv == Types /\ Ids /\ Cpus /\ OneLock /\ RunningOnce /\ RefsCount /\ NoLostWake

----------------------------------------------------------------------------
(* The machine, and the choices the code makes from a set of slots.        *)

\* What the assumption on the constants says of a machine.
LEMMA Machine ==
    ASSUME setup \in Setups
    PROVE  /\ MaxProcs \in Nat \ {0} /\ MaxPid \in Nat \ {0} /\ MaxSleep \in Nat
           /\ Slots \subseteq Nat /\ 0 \in Slots /\ MaxProcs - 1 \in Slots
           /\ IsFiniteSet(Slots) /\ Cardinality(Slots) = MaxProcs
           /\ None \notin Slots /\ 1 \in Pids /\ Pids \subseteq Nat
  <1>1. setup.procs \in Nat \ {0} /\ setup.pids \in Nat \ {0} /\ setup.sleep \in Nat
    BY ProcessAssumption DEF Setup
  <1>2. IsFiniteSet(0..(setup.procs - 1)) /\ Cardinality(0..(setup.procs - 1)) = setup.procs
    <2> DEFINE m == setup.procs - 1
    <2>1. m \in Int /\ 0 \in Int /\ m >= 0 /\ m - 0 + 1 = setup.procs
      BY <1>1
    <2> HIDE DEF m
    <2>2. IsFiniteSet(0..m) /\ Cardinality(0..m) = m - 0 + 1
      BY <2>1, FS_Interval
    <2> QED
      BY <2>1, <2>2 DEF m
  <1> QED
    BY <1>1, <1>2, ProcessAssumption DEF MaxProcs, MaxPid, MaxSleep, Slots, Pids

\* A step does not change the machine.
LEMMA SameMachine ==
    ASSUME setup' = setup
    PROVE  /\ Slots' = Slots /\ Pids' = Pids /\ Proc' = Proc /\ Calls' = Calls
           /\ MaxProcs' = MaxProcs /\ MaxPid' = MaxPid /\ MaxSleep' = MaxSleep
  BY DEF Slots, Pids, Proc, Calls, MaxProcs, MaxPid, MaxSleep

\* The first slot of a nonempty set is in it.
LEMMA FirstSlot ==
    ASSUME setup \in Setups, NEW D \in SUBSET Slots, D # {}
    PROVE  (CHOOSE p \in D : \A q \in D : p <= q) \in D
  <1>1. D \in SUBSET Nat
    BY Machine
  <1>2. \E p \in D : \A q \in D : p <= q
    BY <1>1, LeastNat
  <1> QED
    BY <1>2

\* proc_alloc's slot is free, if one is.
LEMMA FreeSlotFacts ==
    ASSUME setup \in Setups, NEW t, FreeSlots(t) # {}
    PROVE  FreeSlot(t) \in Slots /\ t[FreeSlot(t)].state = "unused"
  <1>1. FreeSlots(t) \in SUBSET Slots
    BY DEF FreeSlots
  <1>2. FreeSlot(t) \in FreeSlots(t)
    BY <1>1, FirstSlot DEF FreeSlot
  <1> QED
    BY <1>2 DEF FreeSlots

\* pick_next picks one that is READY, if there is one.
LEMMA PickFacts ==
    ASSUME setup \in Setups, NEW t, NEW start \in Int
    PROVE  /\ PickFrom(t, start) = None \/ PickFrom(t, start) \in Ready(t)
           /\ Ready(t) # {} => PickFrom(t, start) \in Ready(t)
  <1> DEFINE dist(p) == (p - start) % MaxProcs
             T == {dist(p) : p \in Ready(t)}
  <1>1. CASE Ready(t) = {}
    BY <1>1 DEF PickFrom
  <1>2. CASE Ready(t) # {}
    <2>1. \A p \in Ready(t) : p \in Int /\ dist(p) \in Nat
      BY Machine, ModRange DEF Ready
    <2> HIDE DEF dist
    <2>2. T \in SUBSET Nat /\ T # {}
      BY <1>2, <2>1
    <2>3. PICK x \in T : \A y \in T : x <= y
      BY <2>2, LeastNat
    <2>4. PICK p \in Ready(t) : x = dist(p)
      OBVIOUS
    <2>5. \A q \in Ready(t) : dist(p) <= dist(q)
      BY <2>3, <2>4
    <2>6. (CHOOSE r \in Ready(t) : \A q \in Ready(t) : dist(r) <= dist(q)) \in Ready(t)
      BY <2>4, <2>5
    <2>7. PickFrom(t, start) = CHOOSE r \in Ready(t) : \A q \in Ready(t) : dist(r) <= dist(q)
      BY <1>2 DEF PickFrom, dist
    <2> QED
      BY <2>6, <2>7
  <1> QED
    BY <1>1, <1>2

----------------------------------------------------------------------------
(* What a step does to the cores.                                          *)

\* The part of Types that is about the cores.
CpuTypes ==
    /\ current \in [Cores -> Slots \cup {None}]
    /\ on \in [Cores -> Slots \cup {None}]
    /\ cr3 \in [Cores -> 0..MaxPid]
    /\ mode \in [Cores -> {"user", "kernel", "exiting", "loop", "idle"}]

\* Under the lock, or taking it, core c puts down the process it had and takes
\* up cu; every other core is in ring 3 or asleep.
LEMMA CpuStep ==
    ASSUME PInv, setup' = setup, NEW c \in Cores, HasLock(c) \/ LockFree, CpuTypes',
           \A d \in Cores \ {c} : /\ mode'[d] = mode[d] /\ current'[d] = current[d]
                                  /\ on'[d] = on[d] /\ cr3'[d] = cr3[d],
           CpuAt(proc', mode'[c], current'[c], on'[c], cr3'[c]),
           \A q \in Slots : q # current[c] /\ q # current'[c] =>
               (proc'[q].state = "running" <=> proc[q].state = "running"),
           \A q \in Slots : proc[q].state = "running" /\ q # current[c] => proc'[q].as = proc[q].as,
           current'[c] \in Slots =>
               /\ proc'[current'[c]].state = "running"
               /\ current'[c] = current[c] \/ proc[current'[c]].state # "running",
           current[c] \in Slots /\ current[c] # current'[c] =>
               proc'[current[c]].state # "running"
    PROVE  Cpus' /\ OneLock' /\ RunningOnce'
  <1> DEFINE cu == current'[c]
  <1>1. /\ Slots' = Slots /\ MaxPid' = MaxPid /\ None \notin Slots
    BY SameMachine, Machine DEF PInv, Types
  <1>2. /\ cu \in Slots \cup {None} /\ cu = current'[c]
        /\ \A d \in Cores \ {c} : /\ mode'[d] = mode[d] /\ current'[d] = current[d]
                                  /\ on'[d] = on[d] /\ cr3'[d] = cr3[d]
    BY <1>1 DEF CpuTypes
  <1> HIDE DEF cu
  <1>3. \A d \in Cores \ {c} : mode[d] \in {"user", "idle"}
    BY DEF PInv, Types, OneLock, HasLock, LockFree
  <1>5. OneLock'
    BY <1>2, <1>3 DEF OneLock, HasLock
  <1>6. \A d \in Cores \ {c} : current[d] \in Slots =>
          /\ proc[current[d]].state = "running" /\ current[d] # current[c]
    BY <1>1 DEF PInv, RunningOnce, Types
  <1>7. \A d \in Cores \ {c} : current[d] \in Slots =>
          /\ current[d] # cu /\ proc'[current[d]].state = "running"
          /\ proc'[current[d]].as = proc[current[d]].as
    BY <1>2, <1>6
  <1>8. Cpus'
    <2> SUFFICES ASSUME NEW d \in Cores
                 PROVE  CpuAt(proc, mode[d], current[d], on[d], cr3[d])'
      BY DEF Cpus
    <2>1. CASE d = c
      BY <1>1, <1>2, <2>1 DEF CpuAt
    <2>2. CASE d # c
      BY <1>1, <1>2, <1>3, <1>7, <2>2 DEF CpuAt, PInv, Cpus
    <2> QED
      BY <2>1, <2>2
  <1>9. RunningOnce'
    <2>1. \A d \in Cores : current[d] # None => current[d] \in Slots
      BY DEF PInv, Types
    <2>2. \A e, d \in Cores : e # d /\ current'[e] # None => current'[e] # current'[d]
      <3> SUFFICES ASSUME NEW e \in Cores, NEW d \in Cores, e # d, current'[e] # None
                   PROVE  current'[e] # current'[d]
        OBVIOUS
      <3>1. CASE e = c
        BY <1>1, <1>2, <1>7, <2>1, <3>1
      <3>2. CASE d = c
        BY <1>2, <1>7, <2>1, <3>2
      <3>3. CASE e # c /\ d # c
        BY <1>2, <3>3 DEF PInv, RunningOnce
      <3> QED
        BY <3>1, <3>2, <3>3
    <2>3. ASSUME NEW q \in Slots, proc'[q].state = "running"
          PROVE  \E d \in Cores : current'[d] = q
      <3>1. CASE q = cu
        BY <1>2, <3>1
      <3>2. CASE q # cu
        <4>1. q # current[c] /\ proc[q].state = "running"
          BY <1>2, <2>3, <3>2
        <4>2. PICK d \in Cores : current[d] = q
          BY <4>1 DEF PInv, RunningOnce
        <4> QED
          BY <1>2, <4>1, <4>2
      <3> QED
        BY <3>1, <3>2
    <2>4. ASSUME NEW q \in Slots, NEW d \in Cores, current'[d] = q
          PROVE  proc'[q].state = "running"
      BY <1>2, <1>7, <2>4
    <2> QED
      BY <1>1, <2>2, <2>3, <2>4 DEF RunningOnce
  <1> QED
    BY <1>5, <1>8, <1>9

----------------------------------------------------------------------------
(* What a step does to the process table.                                  *)

\* A slot keeps whose it is and whether it counts as a holder or as dead.
SameId(r, s) ==
    /\ s.pid = r.pid /\ s.parent = r.parent /\ s.thread = r.thread /\ s.as = r.as
    /\ s.state = "unused" <=> r.state = "unused"
    /\ s.state = "zombie" <=> r.state = "zombie"

\* A step that keeps every slot's identity keeps who holds which space.
LEMMA IdsKept ==
    ASSUME PInv, setup' = setup, nextPid' = nextPid, refs' = refs, proc' \in [Slots -> Proc],
           \A q \in Slots : SameId(proc[q], proc'[q])
    PROVE  Ids' /\ RefsCount' /\ refs' \in [Pids -> Nat]
  <1>1. Slots' = Slots /\ Pids' = Pids
    BY SameMachine
  <1>2. Ids'
    BY <1>1 DEF PInv, Types, Ids, IdOk, SameId, Proc
  <1>3. ASSUME NEW a \in Pids
        PROVE  {p \in Slots : proc'[p].state # "unused" /\ proc'[p].as = a}
                 = {p \in Slots : proc[p].state # "unused" /\ proc[p].as = a}
    BY DEF SameId
  <1>4. RefsCount'
    BY <1>1, <1>3 DEF PInv, RefsCount, Used
  <1> QED
    BY <1>2, <1>4 DEF PInv, Types

\* One slot of a table is written.
LEMMA Reslot ==
    ASSUME NEW t \in [Slots -> Proc], NEW p \in Slots, NEW r \in Proc, NEW u,
           u = [t EXCEPT ![p] = r]
    PROVE  /\ u \in [Slots -> Proc] /\ u[p] = r
           /\ \A q \in Slots : q # p => u[q] = t[q]
  OBVIOUS

\* A step that changes the table and leaves the cores alone.
LEMMA QuietCpus ==
    ASSUME PInv, setup' = setup, UNCHANGED cpus,
           \A q \in Slots : /\ SameId(proc[q], proc'[q])
                            /\ proc'[q].state = "running" <=> proc[q].state = "running",
           proc' \in [Slots -> Proc]
    PROVE  CpuTypes' /\ Cpus' /\ OneLock' /\ RunningOnce'
  <1>1. Slots' = Slots /\ MaxPid' = MaxPid
    BY SameMachine
  <1>2. \A q \in Slots : /\ proc'[q].as = proc[q].as
                         /\ proc[q].state \in {"ready", "blocked"} => proc'[q].state \in {"ready", "blocked"}
                         /\ proc[q].state \in {"zombie", "unused"} => proc'[q].state \in {"zombie", "unused"}
    BY DEF SameId, PInv, Types, Proc
  <1>3. Cpus'
    <2> SUFFICES ASSUME NEW c \in Cores
                 PROVE  CpuAt(proc, mode[c], current[c], on[c], cr3[c])'
      BY DEF Cpus
    <2> QED
      BY <1>1, <1>2 DEF cpus, PInv, Cpus, CpuAt
  <1>4. CpuTypes' /\ OneLock' /\ RunningOnce'
    BY <1>1 DEF cpus, PInv, Types, CpuTypes, OneLock, HasLock, RunningOnce
  <1> QED
    BY <1>3, <1>4

\* What NoLostWake says of a blocked process.
Awaited(q) ==
    /\ proc[q].reason \in {"child", "thread"} =>
         \E p \in Slots : Live(p) /\ (Child(p, q) \/ Joined(p, q))
    /\ \A p \in Slots : proc[p].state = "zombie" => ~Child(p, q) /\ ~Joined(p, q)

\* The step keeps whom slot p is and belongs to.
SameName(p) ==
    /\ proc'[p].pid = proc[p].pid /\ proc'[p].parent = proc[p].parent
    /\ proc'[p].thread = proc[p].thread

\* Nobody loses a wake-up if nobody falls asleep on a dead process, and the
\* processes that end (X) are not those a process still asleep waits for.
LEMMA WakesKept ==
    ASSUME NoLostWake, Slots' = Slots, NEW X,
           \A q \in Slots : proc'[q].state = "blocked" =>
               \/ Awaited(q)'
               \/ /\ proc[q].state = "blocked" /\ proc'[q].pid = proc[q].pid
                  /\ proc'[q].reason = proc[q].reason /\ proc'[q].waitingFor = proc[q].waitingFor
                  /\ \A p \in X : p \in Slots => ~Child(p, q) /\ ~Joined(p, q),
           \A p \in Slots : Live(p) /\ p \notin X =>
               proc'[p].state \notin {"unused", "zombie"} /\ SameName(p),
           \A p \in Slots : proc'[p].state = "zombie" =>
               SameName(p) /\ (proc[p].state = "zombie" \/ p \in X)
    PROVE  NoLostWake'
  <1> SUFFICES ASSUME NEW q \in Slots, proc'[q].state = "blocked"
               PROVE  Awaited(q)'
    BY DEF NoLostWake, Awaited
  <1>1. CASE ~Awaited(q)'
    <2>1. /\ proc[q].state = "blocked" /\ proc'[q].pid = proc[q].pid
          /\ proc'[q].reason = proc[q].reason /\ proc'[q].waitingFor = proc[q].waitingFor
          /\ \A p \in X : p \in Slots => ~Child(p, q) /\ ~Joined(p, q)
      BY <1>1
    <2>2. Awaited(q)
      BY <2>1 DEF NoLostWake, Awaited
    <2>3. \A p \in Slots : SameName(p) => /\ Child(p, q)' <=> Child(p, q)
                                          /\ Joined(p, q)' <=> Joined(p, q)
      BY <2>1 DEF SameName, Child, Joined
    <2>4. proc'[q].reason \in {"child", "thread"} =>
            \E p \in Slots : Live(p)' /\ (Child(p, q)' \/ Joined(p, q)')
      BY <2>1, <2>2, <2>3 DEF Awaited, Live
    <2>5. \A p \in Slots : proc'[p].state = "zombie" => ~Child(p, q)' /\ ~Joined(p, q)'
      BY <2>1, <2>2, <2>3 DEF Awaited
    <2> QED
      BY <2>4, <2>5 DEF Awaited
  <1> QED
    BY <1>1

\* A step that only touches what WakesKept looks at in slots that do not
\* become blocked.
LEMMA WakesQuiet ==
    ASSUME NoLostWake, Slots' = Slots,
           \A q \in Slots : SameId(proc[q], proc'[q]),
           \A q \in Slots : proc'[q].state = "blocked" =>
               \/ Awaited(q)'
               \/ /\ proc[q].state = "blocked"
                  /\ proc'[q].reason = proc[q].reason /\ proc'[q].waitingFor = proc[q].waitingFor
    PROVE  NoLostWake'
  <1> DEFINE X == {}
  <1>1. \A q \in Slots : SameName(q)
    BY DEF SameId, SameName
  <1>2. \A p \in Slots : Live(p) => proc'[p].state \notin {"unused", "zombie"}
    BY DEF SameId, Live
  <1>3. \A p \in Slots : proc'[p].state = "zombie" => proc[p].state = "zombie"
    BY DEF SameId
  <1>4. \A q \in Slots : proc'[q].state = "blocked" =>
               \/ Awaited(q)'
               \/ /\ proc[q].state = "blocked" /\ proc'[q].pid = proc[q].pid
                  /\ proc'[q].reason = proc[q].reason /\ proc'[q].waitingFor = proc[q].waitingFor
                  /\ \A p \in X : p \in Slots => ~Child(p, q) /\ ~Joined(p, q)
    BY <1>1 DEF SameName
  <1> HIDE DEF X
  <1> QED
    BY <1>1, <1>2, <1>3, <1>4, WakesKept

----------------------------------------------------------------------------
(* Steps that change only what a slot waits for or whether it may run.     *)

\* A step that only wakes, or touches what the invariant does not look at.
LEMMA QuietStep ==
    ASSUME PInv, setup' = setup, proc' \in [Slots -> Proc],
           UNCHANGED <<refs, current, on, cr3, mode, rrLast, nextPid>>,
           \A q \in Slots :
               /\ SameId(proc[q], proc'[q])
               /\ proc'[q].reason = proc[q].reason /\ proc'[q].waitingFor = proc[q].waitingFor
               /\ \/ proc'[q].state = proc[q].state
                  \/ proc[q].state = "blocked" /\ proc'[q].state = "ready"
    PROVE  PInv'
  <1>1. Slots' = Slots /\ Pids' = Pids /\ Proc' = Proc /\ MaxPid' = MaxPid
    BY SameMachine
  <1>2. Ids' /\ RefsCount' /\ refs' \in [Pids -> Nat]
    BY IdsKept
  <1>3. \A q \in Slots : proc'[q].state = "running" <=> proc[q].state = "running"
    OBVIOUS
  <1>4. CpuTypes' /\ Cpus' /\ OneLock' /\ RunningOnce'
    BY <1>3, QuietCpus DEF cpus
  <1>5. NoLostWake'
    BY <1>1, WakesQuiet DEF PInv
  <1>6. Types'
    BY <1>1, <1>2, <1>4 DEF PInv, Types, CpuTypes
  <1> QED
    BY <1>2, <1>4, <1>5, <1>6 DEF PInv

\* process_kill.
LEMMA KillStep ==
    ASSUME PInv, setup' = setup, NEW c \in Cores, NEW pid, Kill(c, pid)
    PROVE  PInv'
  <1>1. PICK p \in Slots :
          /\ proc[p].pid = pid /\ Live(p)
          /\ proc' = [proc EXCEPT ![p].killed = TRUE,
                        ![p].state = IF @ = "blocked" THEN "ready" ELSE @]
    BY DEF Kill
  <1>2. proc' \in [Slots -> Proc]
    <2> DEFINE st == IF proc[p].state = "blocked" THEN "ready" ELSE proc[p].state
    <2>1. st \in {"unused", "ready", "running", "blocked", "zombie"}
      BY DEF PInv, Types, Proc
    <2>2. proc' = [proc EXCEPT ![p] = [proc[p] EXCEPT !.killed = TRUE, !.state = st]]
      BY <1>1 DEF PInv, Types
    <2> HIDE DEF st
    <2>3. [proc[p] EXCEPT !.killed = TRUE, !.state = st] \in Proc
      BY <2>1, ZenonT(60) DEF PInv, Types, Proc
    <2> QED
      BY <2>2, <2>3 DEF PInv, Types
  <1>3. ASSUME NEW q \in Slots
        PROVE  /\ SameId(proc[q], proc'[q])
               /\ proc'[q].reason = proc[q].reason /\ proc'[q].waitingFor = proc[q].waitingFor
               /\ \/ proc'[q].state = proc[q].state
                  \/ proc[q].state = "blocked" /\ proc'[q].state = "ready"
    BY <1>1 DEF PInv, Types, Proc, SameId
  <1> QED
    BY <1>2, <1>3, QuietStep DEF Kill

\* process_suspend and process_resume.
LEMMA StopStep ==
    ASSUME PInv, setup' = setup, NEW c \in Cores, NEW pid, Suspend(c, pid) \/ Continue(c, pid)
    PROVE  PInv'
  <1>1. PICK p \in Slots, b \in BOOLEAN : proc' = [proc EXCEPT ![p].stopped = b]
    BY DEF Suspend, Continue
  <1>2. proc' \in [Slots -> Proc]
    BY <1>1 DEF PInv, Types, Proc
  <1>3. ASSUME NEW q \in Slots
        PROVE  /\ SameId(proc[q], proc'[q])
               /\ proc'[q].reason = proc[q].reason /\ proc'[q].waitingFor = proc[q].waitingFor
               /\ proc'[q].state = proc[q].state
    BY <1>1 DEF PInv, Types, Proc, SameId
  <1>4. UNCHANGED <<refs, current, on, cr3, mode, rrLast, nextPid>>
    BY DEF Suspend, Continue
  <1> QED
    BY <1>2, <1>3, <1>4, QuietStep

\* The clock, process_tick and process_wake_key.
LEMMA ClockStep ==
    ASSUME PInv, setup' = setup, Clock \/ WakeSleepers \/ Key
    PROVE  PInv'
  <1>1. CASE Clock
    <2>1. proc' \in [Slots -> Proc]
      <3>1. ASSUME NEW p \in Slots, proc[p].left >= 0
            PROVE  [proc[p] EXCEPT !.left = @ - 1] \in Proc
        <4>1. proc[p].left \in -1..MaxSleep /\ MaxSleep \in Nat
          BY Machine DEF PInv, Types, Proc
        <4>2. proc[p].left - 1 \in -1..MaxSleep
          BY <3>1, <4>1
        <4> QED
          BY <4>2 DEF PInv, Types, Proc
      <3> QED
        BY <1>1, <3>1 DEF Clock, PInv, Types
    <2>2. \A q \in Slots :
               /\ SameId(proc[q], proc'[q])
               /\ proc'[q].reason = proc[q].reason /\ proc'[q].waitingFor = proc[q].waitingFor
               /\ proc'[q].state = proc[q].state
      BY <1>1 DEF Clock, PInv, Types, Proc, SameId
    <2> QED
      BY <1>1, <2>1, <2>2, QuietStep DEF Clock
  <1>2. CASE WakeSleepers \/ Key
    <2>1. PICK D \in SUBSET Slots :
            /\ \A p \in D : proc[p].state = "blocked"
            /\ proc' = [p \in Slots |->
                  IF p \in D THEN [proc[p] EXCEPT !.state = "ready"] ELSE proc[p]]
      <3>1. CASE WakeSleepers
        <4> DEFINE D == {p \in Slots : Due(p)}
        <4>1. /\ D \in SUBSET Slots /\ \A p \in D : proc[p].state = "blocked"
              /\ proc' = [p \in Slots |->
                  IF p \in D THEN [proc[p] EXCEPT !.state = "ready"] ELSE proc[p]]
          BY <3>1 DEF WakeSleepers, Due
        <4> QED
          BY <4>1
      <3>2. CASE Key
        BY <3>2 DEF Key
      <3> QED
        BY <1>2, <3>1, <3>2
    <2>2. proc' \in [Slots -> Proc]
      BY <2>1 DEF PInv, Types, Proc
    <2>3. \A q \in Slots :
               /\ SameId(proc[q], proc'[q])
               /\ proc'[q].reason = proc[q].reason /\ proc'[q].waitingFor = proc[q].waitingFor
               /\ \/ proc'[q].state = proc[q].state
                  \/ proc[q].state = "blocked" /\ proc'[q].state = "ready"
      BY <2>1 DEF PInv, Types, Proc, SameId
    <2>4. UNCHANGED <<refs, current, on, cr3, mode, rrLast, nextPid>>
      BY <1>2 DEF WakeSleepers, Key
    <2> QED
      BY <2>2, <2>3, <2>4, QuietStep
  <1> QED
    BY <1>1, <1>2

----------------------------------------------------------------------------
(* A core leaves, keeps or takes up a process.                             *)

\* A core in ring 3 or inside a call that was resumed.
Active(c) == (mode[c] = "user" /\ LockFree) \/ mode[c] = "kernel"

\* Such a core stands on a running process, in its page tables.
LEMMA ActiveFacts ==
    ASSUME PInv, NEW c \in Cores, Active(c)
    PROVE  /\ current[c] \in Slots /\ on[c] = current[c] /\ current[c] # None
           /\ proc[current[c]].state = "running" /\ cr3[c] = proc[current[c]].as
           /\ HasLock(c) \/ LockFree
           /\ proc[current[c]] \in Proc /\ IdOk(proc[current[c]], nextPid)
           /\ proc[current[c]].pid \in Pids /\ proc[current[c]].as \in Pids
  <1>1. current[c] \in Slots /\ on[c] = current[c] /\ cr3[c] = proc[current[c]].as
    BY DEF PInv, Cpus, CpuAt, Active
  <1>2. current[c] # None /\ proc[current[c]].state = "running"
    BY <1>1, Machine DEF PInv, Types, RunningOnce
  <1>3. HasLock(c) \/ LockFree
    BY DEF Active, HasLock
  <1>4. proc[current[c]] \in Proc /\ IdOk(proc[current[c]], nextPid)
    BY <1>1 DEF PInv, Types, Ids
  <1>5. /\ proc[current[c]].pid \in 1..(nextPid - 1)
        /\ proc[current[c]].as \in 0..MaxPid /\ proc[current[c]].as >= 1
        /\ nextPid \in 1..(MaxPid + 1) /\ MaxPid \in Nat
    BY <1>2, <1>4, Machine DEF IdOk, PInv, Types, Proc
  <1>6. proc[current[c]].pid \in Pids /\ proc[current[c]].as \in Pids
    BY <1>5 DEF Pids
  <1> QED
    BY <1>1, <1>2, <1>3, <1>4, <1>6

\* The cores, when one gives up its process and goes to its loop.
LEMMA LoopStep ==
    ASSUME PInv, setup' = setup, NEW c \in Cores, Active(c), ToLoop(c),
           \A q \in Slots : q # current[c] =>
               (proc'[q].state = "running" <=> proc[q].state = "running"),
           \A q \in Slots : proc[q].state = "running" => proc'[q].as = proc[q].as,
           proc'[current[c]].state \in {"ready", "blocked"}
    PROVE  CpuTypes' /\ Cpus' /\ OneLock' /\ RunningOnce' /\ rrLast' \in Slots
  <1>1. /\ current[c] \in Slots /\ proc[current[c]].state = "running"
        /\ cr3[c] = proc[current[c]].as /\ (HasLock(c) \/ LockFree)
    BY ActiveFacts
  <1>2. /\ mode' = [mode EXCEPT ![c] = "loop"] /\ current' = [current EXCEPT ![c] = None]
        /\ on' = [on EXCEPT ![c] = None] /\ cr3' = [cr3 EXCEPT ![c] = cr3[c]]
        /\ rrLast' = rrLast /\ cr3[c] \in 0..MaxPid
    BY DEF ToLoop, PInv, Types
  <1>3. /\ mode'[c] = "loop" /\ current'[c] = None /\ on'[c] = None /\ cr3'[c] = cr3[c]
        /\ \A d \in Cores \ {c} : /\ mode'[d] = mode[d] /\ current'[d] = current[d]
                                  /\ on'[d] = on[d] /\ cr3'[d] = cr3[d]
    BY <1>2 DEF PInv, Types
  <1>4. None \notin Slots /\ CpuTypes'
    BY <1>2, Machine, SameMachine DEF PInv, Types, CpuTypes
  <1>a. CpuAt(proc', mode'[c], current'[c], on'[c], cr3'[c])
    BY <1>1, <1>3 DEF CpuAt
  <1>5. CpuTypes' /\ Cpus' /\ OneLock' /\ RunningOnce'
    BY <1>1, <1>3, <1>4, <1>a, CpuStep
  <1> QED
    BY <1>2, <1>5 DEF PInv, Types

\* The cores, when one goes on with its process.
LEMMA UserStep ==
    ASSUME PInv, setup' = setup, NEW c \in Cores, Active(c),
           ToUser(c) \/ UNCHANGED <<current, on, cr3, mode, rrLast>>,
           \A q \in Slots : proc'[q].state = "running" <=> proc[q].state = "running",
           \A q \in Slots : proc[q].state = "running" => proc'[q].as = proc[q].as
    PROVE  CpuTypes' /\ Cpus' /\ OneLock' /\ RunningOnce' /\ rrLast' \in Slots
  <1>1. /\ current[c] \in Slots /\ proc[current[c]].state = "running" /\ on[c] = current[c]
        /\ cr3[c] = proc[current[c]].as /\ (HasLock(c) \/ LockFree)
    BY ActiveFacts
  <1>2. /\ mode'[c] \in {"user", "kernel"}
        /\ \A d \in Cores \ {c} : mode'[d] = mode[d]
        /\ mode' \in [Cores -> {"user", "kernel", "exiting", "loop", "idle"}]
    BY DEF ToUser, Active, PInv, Types
  <1>3. current' = current /\ on' = on /\ cr3' = cr3 /\ rrLast' = rrLast
    BY DEF ToUser
  <1>4. CpuTypes' /\ CpuAt(proc', mode'[c], current'[c], on'[c], cr3'[c])
    BY <1>1, <1>2, <1>3, SameMachine DEF CpuAt, PInv, Types, CpuTypes
  <1>5. CpuTypes' /\ Cpus' /\ OneLock' /\ RunningOnce'
    BY <1>1, <1>2, <1>3, <1>4, CpuStep
  <1> QED
    BY <1>3, <1>5 DEF PInv, Types

\* The caller gives the core up: it is ready, or blocked with reason to be.
LEMMA GiveUpStep ==
    ASSUME PInv, setup' = setup, NEW c \in Cores, Active(c), ToLoop(c),
           NEW me \in Slots, me = current[c],
           UNCHANGED <<refs, nextPid>>, proc' \in [Slots -> Proc],
           \A q \in Slots : q # me => proc'[q] = proc[q],
           SameId(proc[me], proc'[me]),
           proc'[me].state \in {"ready", "blocked"},
           proc'[me].state = "blocked" => Awaited(me)'
    PROVE  PInv'
  <1>1. Slots' = Slots /\ Pids' = Pids /\ Proc' = Proc /\ MaxPid' = MaxPid
    BY SameMachine
  <1>2. current[c] \in Slots /\ proc[current[c]].state = "running"
    BY ActiveFacts
  <1>3. \A q \in Slots : SameId(proc[q], proc'[q])
    BY DEF SameId
  <1>4. Ids' /\ RefsCount' /\ refs' \in [Pids -> Nat]
    BY <1>3, IdsKept
  <1>5. \A q \in Slots : proc'[q].as = proc[q].as
    BY <1>3 DEF SameId
  <1>6. CpuTypes' /\ Cpus' /\ OneLock' /\ RunningOnce' /\ rrLast' \in Slots
    BY <1>5, LoopStep
  <1>7. NoLostWake'
    <2>1. \A q \in Slots : proc'[q].state = "blocked" => Awaited(q)' \/ proc'[q] = proc[q]
      OBVIOUS
    <2> QED
      BY <1>1, <1>3, <2>1, WakesQuiet DEF PInv
  <1>8. Types'
    BY <1>1, <1>4, <1>6 DEF PInv, Types, CpuTypes
  <1> QED
    BY <1>4, <1>6, <1>7, <1>8 DEF PInv

\* The caller goes on where it was.
LEMMA GoOnStep ==
    ASSUME PInv, setup' = setup, NEW c \in Cores, Active(c), ToUser(c),
           UNCHANGED <<refs, nextPid>>, proc' \in [Slots -> Proc],
           \A q \in Slots : q # current[c] => proc'[q] = proc[q],
           SameId(proc[current[c]], proc'[current[c]]),
           proc'[current[c]].state = "running"
    PROVE  PInv'
  <1>1. Slots' = Slots /\ Pids' = Pids /\ Proc' = Proc /\ MaxPid' = MaxPid
    BY SameMachine
  <1>2. current[c] \in Slots /\ proc[current[c]].state = "running"
    BY ActiveFacts
  <1>3. \A q \in Slots : SameId(proc[q], proc'[q])
    BY DEF SameId
  <1>4. Ids' /\ RefsCount' /\ refs' \in [Pids -> Nat]
    BY <1>3, IdsKept
  <1>5. \A q \in Slots : /\ proc'[q].as = proc[q].as
                         /\ proc'[q].state = "running" <=> proc[q].state = "running"
    BY <1>2, <1>3 DEF SameId
  <1>6. CpuTypes' /\ Cpus' /\ OneLock' /\ RunningOnce' /\ rrLast' \in Slots
    BY <1>5, UserStep
  <1>7. \A q \in Slots : proc'[q].state = "blocked" => proc'[q] = proc[q]
    BY <1>2
  <1>8. NoLostWake'
    BY <1>1, <1>3, <1>7, WakesQuiet DEF PInv
  <1>9. Types'
    BY <1>1, <1>4, <1>6 DEF PInv, Types, CpuTypes
  <1> QED
    BY <1>4, <1>6, <1>8, <1>9 DEF PInv

\* activate and resume_process take up p and put the process the core had, if
\* it had one, back among the ready ones.
LEMMA TakeUpStep ==
    ASSUME PInv, setup' = setup, NEW c \in Cores, HasLock(c) \/ LockFree,
           NEW p \in Slots, proc[p].state = "ready", proc' \in [Slots -> Proc],
           \A q \in Slots : q # p /\ q # current[c] => proc'[q] = proc[q],
           SameId(proc[p], proc'[p]), proc'[p].state = "running",
           current[c] \in Slots => /\ SameId(proc[current[c]], proc'[current[c]])
                                   /\ proc'[current[c]].state = "ready",
           current' = [current EXCEPT ![c] = p], on' = [on EXCEPT ![c] = p],
           cr3' = [cr3 EXCEPT ![c] = proc[p].as],
           NEW m \in {"user", "kernel"}, mode' = [mode EXCEPT ![c] = m],
           rrLast' = p, UNCHANGED <<refs, nextPid>>
    PROVE  PInv'
  <1>1. Slots' = Slots /\ Pids' = Pids /\ Proc' = Proc /\ MaxPid' = MaxPid
    BY SameMachine
  <1>2. current[c] \in Slots => proc[current[c]].state = "running" /\ p # current[c]
    BY DEF PInv, RunningOnce
  <1>3. \A q \in Slots : SameId(proc[q], proc'[q])
    BY DEF SameId
  <1>4. Ids' /\ RefsCount' /\ refs' \in [Pids -> Nat]
    BY <1>3, IdsKept
  <1>5. \A q \in Slots : proc'[q].as = proc[q].as
    BY <1>3 DEF SameId
  <1>6. /\ mode'[c] = m /\ current'[c] = p /\ on'[c] = p /\ cr3'[c] = proc[p].as
        /\ \A d \in Cores \ {c} : /\ mode'[d] = mode[d] /\ current'[d] = current[d]
                                  /\ on'[d] = on[d] /\ cr3'[d] = cr3[d]
    BY DEF PInv, Types
  <1>7. proc[p].as \in 0..MaxPid
    BY DEF PInv, Types, Proc
  <1>8. CpuTypes' /\ CpuAt(proc', mode'[c], current'[c], on'[c], cr3'[c])
    BY <1>1, <1>5, <1>6, <1>7 DEF CpuTypes, CpuAt, PInv, Types
  <1>9. Cpus' /\ OneLock' /\ RunningOnce'
    BY <1>2, <1>5, <1>6, <1>8, CpuStep
  <1>10. \A q \in Slots : proc'[q].state = "blocked" => proc'[q] = proc[q]
    OBVIOUS
  <1>11. NoLostWake'
    BY <1>1, <1>3, <1>10, WakesQuiet DEF PInv
  <1>12. Types'
    BY <1>1, <1>4, <1>8 DEF PInv, Types, CpuTypes
  <1> QED
    BY <1>4, <1>9, <1>11, <1>12 DEF PInv

----------------------------------------------------------------------------
(* The scheduler's steps.                                                  *)

\* What a core in its loop has: nothing.
LEMMA LoopFacts ==
    ASSUME PInv, NEW c \in Cores, mode[c] = "loop"
    PROVE  HasLock(c) /\ current[c] = None /\ current[c] \notin Slots
  BY Machine DEF HasLock, PInv, Types, Cpus, CpuAt

\* cpu_loop takes up a process.
LEMMA LoopResumeStep ==
    ASSUME PInv, setup' = setup, NEW c \in Cores, LoopResume(c)
    PROVE  PInv'
  <1> DEFINE p == PickFrom(proc, rrLast + 1)
  <1>1. mode[c] = "loop" /\ Ready(proc) # {} /\ Resume(c, p, proc) /\ UNCHANGED <<refs, nextPid>>
    BY DEF LoopResume
  <1>2. p \in Ready(proc)
    <2>1. rrLast + 1 \in Int /\ setup \in Setups
      BY Machine DEF PInv, Types
    <2> QED
      BY <1>1, <2>1, PickFacts
  <1> HIDE DEF p
  <1>3. p \in Slots /\ proc[p].state = "ready"
    BY <1>2 DEF Ready
  <1>4. proc' = [proc EXCEPT ![p].state = "running"]
    BY <1>1 DEF Resume
  <1>5. /\ proc' \in [Slots -> Proc] /\ SameId(proc[p], proc'[p]) /\ proc'[p].state = "running"
        /\ \A q \in Slots : q # p => proc'[q] = proc[q]
    BY <1>3, <1>4 DEF PInv, Types, Proc, SameId
  <1>6. PICK m \in {"user", "kernel"} : mode' = [mode EXCEPT ![c] = m]
    BY <1>1 DEF Resume
  <1>7. /\ current' = [current EXCEPT ![c] = p] /\ on' = [on EXCEPT ![c] = p]
        /\ cr3' = [cr3 EXCEPT ![c] = proc[p].as] /\ rrLast' = p
    BY <1>1 DEF Resume
  <1>8. HasLock(c) /\ current[c] \notin Slots
    BY <1>1, LoopFacts
  <1> QED
    BY <1>1, <1>3, <1>5, <1>6, <1>7, <1>8, TakeUpStep

\* sched_on_tick: parked, or rotated.
LEMMA TickStep ==
    ASSUME PInv, setup' = setup, NEW c \in Cores, Tick(c)
    PROVE  PInv'
  <1> DEFINE me == current[c]
             down == [proc EXCEPT ![me].state = "ready", ![me].resumeKernel = FALSE]
             next == PickFrom(proc, me + 1)
  <1>1. /\ mode[c] = "user" /\ LockFree /\ UNCHANGED <<refs, nextPid>>
        /\ (proc' = down /\ ToLoop(c)) \/ (next # None /\ Resume(c, next, down))
    BY DEF Tick
  <1>2. Active(c) /\ (HasLock(c) \/ LockFree)
    BY <1>1 DEF Active
  <1>3. me \in Slots /\ proc[me].state = "running"
    BY <1>2, ActiveFacts
  <1>4. /\ down \in [Slots -> Proc] /\ SameId(proc[me], down[me]) /\ down[me].state = "ready"
        /\ \A q \in Slots : q # me => down[q] = proc[q]
    <2> DEFINE r == [proc[me] EXCEPT !.state = "ready", !.resumeKernel = FALSE]
    <2>1. r \in Proc /\ SameId(proc[me], r) /\ r.state = "ready"
      BY <1>3, ZenonT(60) DEF PInv, Types, Proc, SameId
    <2>2. down = [proc EXCEPT ![me] = r] /\ proc \in [Slots -> Proc]
      BY <1>3 DEF PInv, Types
    <2> HIDE DEF down, r, me
    <2> QED
      BY <1>3, <2>1, <2>2, Reslot
  <1>5. CASE proc' = down /\ ToLoop(c)
    BY <1>1, <1>2, <1>3, <1>4, <1>5, GiveUpStep
  <1>6. CASE next # None /\ Resume(c, next, down)
    <2>1. next \in Ready(proc)
      <3>1. me + 1 \in Int /\ setup \in Setups
        BY <1>3, Machine DEF PInv, Types
      <3> QED
        BY <1>6, <3>1, PickFacts
    <2> HIDE DEF next
    <2>2. next \in Slots /\ proc[next].state = "ready" /\ next # me
      BY <1>3, <2>1 DEF Ready
    <2>3. proc' = [down EXCEPT ![next].state = "running"]
      BY <1>6 DEF Resume
    <2>4. /\ proc' \in [Slots -> Proc] /\ SameId(proc[next], proc'[next])
          /\ proc'[next].state = "running" /\ proc'[me] = down[me]
          /\ \A q \in Slots : q # next /\ q # me => proc'[q] = proc[q]
      <3> DEFINE r == [proc[next] EXCEPT !.state = "running"]
      <3>1. r \in Proc /\ SameId(proc[next], r) /\ r.state = "running"
        BY <2>2 DEF PInv, Types, Proc, SameId
      <3>2. proc' = [down EXCEPT ![next] = r]
        BY <1>4, <2>2, <2>3
      <3> HIDE DEF down, r, me
      <3> QED
        BY <1>3, <1>4, <2>2, <3>1, <3>2, Reslot
    <2>5. PICK m \in {"user", "kernel"} : mode' = [mode EXCEPT ![c] = m]
      BY <1>6 DEF Resume
    <2>6. /\ current' = [current EXCEPT ![c] = next] /\ on' = [on EXCEPT ![c] = next]
          /\ cr3' = [cr3 EXCEPT ![c] = proc[next].as] /\ rrLast' = next
      BY <1>4, <1>6, <2>2 DEF Resume
    <2>7. SameId(proc[me], proc'[me]) /\ proc'[me].state = "ready"
      BY <1>4, <2>4
    <2> HIDE DEF down
    <2> QED
      BY <1>1, <1>2, <2>2, <2>4, <2>5, <2>6, <2>7, TakeUpStep
  <1> QED
    BY <1>1, <1>5, <1>6

\* A core without a process goes to sleep, wakes, or leaves a dead one's stack.
LEMMA EmptyStep ==
    ASSUME PInv, setup' = setup, NEW c \in Cores, Idle(c) \/ Wake(c) \/ LeaveDead(c)
    PROVE  PInv'
  <1>1. Slots' = Slots /\ Pids' = Pids /\ Proc' = Proc /\ MaxPid' = MaxPid
    BY SameMachine
  <1>2. UNCHANGED <<proc, refs, rrLast, nextPid>>
    BY DEF Idle, Wake, LeaveDead, ToLoop
  <1>3. current[c] = None /\ None \notin Slots
    BY Machine DEF Idle, Wake, LeaveDead, PInv, Types, Cpus, CpuAt
  <1>4. HasLock(c) \/ LockFree
    BY DEF Idle, Wake, LeaveDead, HasLock
  <1>5. /\ mode'[c] \in {"loop", "idle"} /\ current'[c] = None /\ on'[c] = None /\ cr3'[c] = 0
        /\ \A d \in Cores \ {c} : /\ mode'[d] = mode[d] /\ current'[d] = current[d]
                                  /\ on'[d] = on[d] /\ cr3'[d] = cr3[d]
    BY DEF Idle, Wake, LeaveDead, ToLoop, PInv, Types, Cpus, CpuAt, KernelSpace
  <1>6. CpuAt(proc', mode'[c], current'[c], on'[c], cr3'[c])
    BY <1>5 DEF CpuAt
  <1>7. 0 \in 0..MaxPid
    BY Machine DEF PInv, Types
  <1>8. CpuTypes'
    BY <1>1, <1>7 DEF Idle, Wake, LeaveDead, ToLoop, PInv, Types, CpuTypes, KernelSpace
  <1>9. Cpus' /\ OneLock' /\ RunningOnce'
    BY <1>2, <1>3, <1>4, <1>5, <1>6, <1>8, CpuStep
  <1>10. Types'
    BY <1>1, <1>2, <1>8 DEF PInv, Types, CpuTypes
  <1>11. Ids' /\ RefsCount' /\ NoLostWake'
    BY <1>1, <1>2 DEF PInv, Ids, IdOk, RefsCount, Used, NoLostWake, Live, Child, Joined
  <1> QED
    BY <1>9, <1>10, <1>11 DEF PInv

\* A core that makes a system call is one with a running process.
LEMMA MakesActive ==
    ASSUME PInv, NEW c \in Cores, NEW k, Makes(c, k)
    PROVE  /\ Active(c) /\ LockFree /\ mode[c] = "user"
           /\ current[c] \in Slots /\ proc[current[c]] \in Proc
           /\ proc[current[c]].state = "running"
  <1>1. Active(c) /\ LockFree /\ mode[c] = "user"
    BY DEF Makes, Active
  <1> QED
    BY <1>1, ActiveFacts

\* process_yield.
LEMMA YieldStep ==
    ASSUME PInv, setup' = setup, NEW c \in Cores, Yield(c)
    PROVE  PInv'
  <1> DEFINE me == current[c]
             r == [proc[me] EXCEPT !.state = "ready", !.resumeKernel = TRUE]
  <1>1. Active(c) /\ me \in Slots /\ proc[me] \in Proc /\ proc[me].state = "running"
    BY MakesActive DEF Yield
  <1>2. r \in Proc /\ SameId(proc[me], r) /\ r.state = "ready"
    BY <1>1 DEF Proc, SameId
  <1>3. ToLoop(c) /\ UNCHANGED <<refs, nextPid>> /\ proc \in [Slots -> Proc]
        /\ proc' = [proc EXCEPT ![me] = r]
    BY <1>1 DEF Yield, PInv, Types
  <1> HIDE DEF r
  <1>4. /\ proc' \in [Slots -> Proc] /\ proc'[me] = r
        /\ \A q \in Slots : q # me => proc'[q] = proc[q]
    BY <1>1, <1>2, <1>3, Reslot
  <1> QED
    BY <1>1, <1>2, <1>3, <1>4, GiveUpStep

\* The end of a call that gave way, slept or waited for a key.
LEMMA ReturnStep ==
    ASSUME PInv, setup' = setup, NEW c \in Cores, Return(c)
    PROVE  PInv'
  <1> DEFINE me == current[c]
             r == [proc[me] EXCEPT !.reason = "none", !.left = 0]
  <1>0. Active(c)
    BY DEF Return, Resumed, Active
  <1>1. me \in Slots /\ proc[me] \in Proc /\ proc[me].state = "running" /\ 0 \in -1..MaxSleep
    BY <1>0, ActiveFacts, Machine DEF PInv, Types
  <1>2. r \in Proc /\ SameId(proc[me], r) /\ r.state = "running"
    BY <1>1 DEF Proc, SameId
  <1>3. ToUser(c) /\ UNCHANGED <<refs, nextPid>> /\ proc \in [Slots -> Proc]
        /\ proc' = [proc EXCEPT ![me] = r]
    BY <1>1 DEF Return, PInv, Types
  <1> HIDE DEF r
  <1>4. /\ proc' \in [Slots -> Proc] /\ proc'[me] = r
        /\ \A q \in Slots : q # me => proc'[q] = proc[q]
    BY <1>1, <1>2, <1>3, Reslot
  <1> QED
    BY <1>0, <1>1, <1>2, <1>3, <1>4, GoOnStep

\* block_current by a call that waits for the clock or for a key.
LEMMA SleepStep ==
    ASSUME PInv, setup' = setup, NEW c \in Cores,
           KeyWait(c) \/ \E n \in 1..MaxSleep : Sleep(c, n)
    PROVE  PInv'
  <1> DEFINE me == current[c]
  <1>1. Active(c) /\ me \in Slots /\ proc[me] \in Proc /\ proc[me].state = "running"
    BY MakesActive DEF KeyWait, Sleep
  <1>2. PICK w \in {"time", "key"}, n \in -1..MaxSleep :
          proc' = [proc EXCEPT ![me] = [proc[me] EXCEPT !.state = "blocked", !.reason = w,
                                          !.left = n, !.resumeKernel = TRUE]]
    <2>1. CASE KeyWait(c)
      <3>1. proc' = [proc EXCEPT ![me] = [proc[me] EXCEPT !.state = "blocked", !.reason = "key",
                                          !.left = proc[me].left, !.resumeKernel = TRUE]]
        BY <1>1, <2>1 DEF KeyWait, BlockIn, PInv, Types, Proc
      <3>2. proc[me].left \in -1..MaxSleep
        BY <1>1 DEF Proc
      <3> QED
        BY <3>1, <3>2
    <2>2. ASSUME NEW n \in 1..MaxSleep, Sleep(c, n)
          PROVE  proc' = [proc EXCEPT ![me] = [proc[me] EXCEPT !.state = "blocked", !.reason = "time",
                                          !.left = n, !.resumeKernel = TRUE]]
      BY <1>1, <2>2 DEF Sleep, BlockIn, PInv, Types, Proc
    <2>3. \A n \in 1..MaxSleep : n \in -1..MaxSleep
      BY Machine DEF PInv, Types
    <2> QED
      BY <2>1, <2>2, <2>3
  <1> DEFINE r == [proc[me] EXCEPT !.state = "blocked", !.reason = w,
                                          !.left = n, !.resumeKernel = TRUE]
  <1>3. r \in Proc /\ SameId(proc[me], r) /\ r.state = "blocked" /\ r.reason = w
    BY <1>1 DEF Proc, SameId
  <1>4. ToLoop(c) /\ UNCHANGED <<refs, nextPid>> /\ proc \in [Slots -> Proc]
    BY DEF KeyWait, Sleep, BlockIn, PInv, Types
  <1>5. proc' = [proc EXCEPT ![me] = r]
    BY <1>2
  <1> HIDE DEF r
  <1>6. /\ proc' \in [Slots -> Proc] /\ proc'[me] = r
        /\ \A q \in Slots : q # me => proc'[q] = proc[q]
    BY <1>1, <1>3, <1>4, <1>5, Reslot
  <1>7. PICK m \in Slots : m = me
    BY <1>1
  <1>8. Awaited(m)'
    BY <1>3, <1>6, <1>7 DEF Awaited, Child, Joined
  <1> HIDE DEF me
  <1> QED
    BY <1>1, <1>3, <1>4, <1>6, <1>7, <1>8, GiveUpStep DEF me

----------------------------------------------------------------------------
(* Holders of an address space.                                            *)

\* The holders of space a in table t with slots S.
Holds(S, t, a) == {p \in S : t[p].state # "unused" /\ t[p].as = a}

\* There are at most MAX_PROCESSES holders.
LEMMA HoldsFinite ==
    ASSUME setup \in Setups, NEW t, NEW a
    PROVE  /\ IsFiniteSet(Holds(Slots, t, a)) /\ Cardinality(Holds(Slots, t, a)) \in Nat
           /\ Cardinality(Holds(Slots, t, a)) <= MaxProcs
  <1>1. Holds(Slots, t, a) \in SUBSET Slots
    BY DEF Holds
  <1>2. IsFiniteSet(Slots) /\ Cardinality(Slots) = MaxProcs
    BY Machine
  <1> QED
    BY <1>1, <1>2, FS_Subset, FS_CardinalityType

\* RefsCount after a step, said with Holds.
LEMMA HoldsPrimed ==
    ASSUME setup' = setup, \A a \in Pids : refs'[a] = Cardinality(Holds(Slots, proc', a))
    PROVE  RefsCount'
  <1>1. Slots' = Slots /\ Pids' = Pids
    BY SameMachine
  <1> QED
    BY <1>1 DEF Holds, RefsCount, Used

\* RefsCount, said with Holds.
LEMMA HoldsNow ==
    ASSUME RefsCount
    PROVE  \A a \in Pids : refs[a] = Cardinality(Holds(Slots, proc, a))
  BY DEF Holds, RefsCount, Used

\* A free slot.
LEMMA UnusedFacts ==
    ASSUME setup \in Setups
    PROVE  /\ Unused \in Proc /\ Unused.state = "unused" /\ Unused.as = 0
           /\ ~Unused.thread
           /\ \A n \in Nat \ {0} : IdOk(Unused, n)
  <1>1. 0 \in 0..MaxPid /\ 0 \in -1..MaxPid /\ 0 \in -1..MaxSleep
    BY Machine
  <1>2. Unused \in Proc /\ Unused.state = "unused" /\ Unused.as = 0 /\ Unused.thread = FALSE
    BY <1>1 DEF Unused, Proc, KernelSpace
  <1>3. \A n \in Nat \ {0} : IdOk(Unused, n)
    BY <1>2 DEF IdOk
  <1> QED
    BY <1>2, <1>3

\* reap_dead_threads: dead threads leave the table and give up their shares.
LEMMA ReapFacts ==
    ASSUME PInv, NEW me \in Slots
    PROVE  /\ ReapThreads(me) \in [Slots -> Proc]
           /\ ReapThreads(me)[me] = proc[me]
           /\ \A q \in Slots : \/ ReapThreads(me)[q] = proc[q]
                               \/ /\ q # me /\ proc[q].state = "zombie" /\ proc[q].thread
                                  /\ ReapThreads(me)[q] = Unused
           /\ \A q \in Slots : q # me =>
                ~(ReapThreads(me)[q].state = "zombie" /\ ReapThreads(me)[q].thread)
           /\ \A q \in Slots : IdOk(ReapThreads(me)[q], nextPid)
           /\ RefsReaped(me) \in [Pids -> Nat]
           /\ \A a \in Pids : RefsReaped(me)[a] = Cardinality(Holds(Slots, ReapThreads(me), a))
  <1> DEFINE t == ReapThreads(me)
  <1>0. setup \in Setups /\ nextPid \in Nat \ {0} /\ proc \in [Slots -> Proc]
    BY Machine DEF PInv, Types
  <1>1. \A q \in Slots : t[q] = IF q \in DeadThreads(me) THEN Unused ELSE proc[q]
    BY DEF ReapThreads
  <1>2. \A q \in Slots : q \in DeadThreads(me) <=>
                           q # me /\ proc[q].thread /\ proc[q].state = "zombie"
    BY DEF DeadThreads
  <1>3. t \in [Slots -> Proc]
    BY <1>0, UnusedFacts DEF ReapThreads
  <1>4. \A q \in Slots : IdOk(t[q], nextPid)
    BY <1>0, <1>1, UnusedFacts DEF PInv, Ids
  <1>5. \A q \in Slots : q # me => ~(t[q].state = "zombie" /\ t[q].thread)
    BY <1>0, <1>1, <1>2, UnusedFacts
  <1>6. ASSUME NEW a \in Pids
        PROVE  refs[a] - Cardinality({p \in DeadThreads(me) : proc[p].as = a})
                 = Cardinality(Holds(Slots, t, a))
    <2> DEFINE D == {p \in DeadThreads(me) : proc[p].as = a}
    <2>1. D \subseteq Holds(Slots, proc, a)
      BY DEF DeadThreads, Holds
    <2>2. Holds(Slots, t, a) = Holds(Slots, proc, a) \ D
      BY <1>0, <1>1, <1>2, UnusedFacts DEF Holds
    <2>3. IsFiniteSet(Holds(Slots, proc, a)) /\ Cardinality(Holds(Slots, proc, a)) \in Nat
      BY <1>0, HoldsFinite
    <2>4. IsFiniteSet(D) /\ Cardinality(D) \in Nat
      BY <2>1, <2>3, FS_Subset, FS_CardinalityType
    <2>5. Holds(Slots, proc, a) \cap D = D
      BY <2>1
    <2> HIDE DEF D
    <2>6. Cardinality(Holds(Slots, t, a)) = Cardinality(Holds(Slots, proc, a)) - Cardinality(D)
      BY <2>2, <2>3, <2>5, FS_Difference
    <2> QED
      BY <2>6, HoldsNow DEF PInv, D
  <1>7. \A a \in Pids : RefsReaped(me)[a] = Cardinality(Holds(Slots, t, a))
    BY <1>6 DEF RefsReaped
  <1>8. RefsReaped(me) \in [Pids -> Nat]
    <2>1. \A a \in Pids : refs[a] - Cardinality({p \in DeadThreads(me) : proc[p].as = a}) \in Nat
      BY <1>0, <1>6, HoldsFinite
    <2> QED
      BY <2>1 DEF RefsReaped
  <1>9. t[me] = proc[me]
    BY <1>1, <1>2
  <1> QED
    BY <1>1, <1>2, <1>3, <1>4, <1>5, <1>7, <1>8, <1>9

----------------------------------------------------------------------------
(* Starting.                                                               *)

\* What a larger next_pid leaves as it was.
LEMMA IdGrows ==
    ASSUME NEW n \in Nat, NEW r, IdOk(r, n), r.as \in Int, r.pid \in Int
    PROVE  IdOk(r, n + 1)
  BY DEF IdOk

\* proc_alloc fills a free slot of table t with r.
LEMMA FillSlot ==
    ASSUME PInv, setup' = setup, NEW t \in [Slots -> Proc], NEW f \in Slots,
           t[f].state = "unused", NEW r \in Proc, r.state = "ready",
           \A q \in Slots : t[q] = proc[q] \/ (proc[q].state = "zombie" /\ t[q] = Unused),
           \A q \in Slots : IdOk(t[q], nextPid), IdOk(r, nextPid + 1),
           \A a \in Pids : refs'[a] = Cardinality(Holds(Slots, t, a)) + (IF r.as = a THEN 1 ELSE 0),
           proc' = [t EXCEPT ![f] = r], nextPid \in Pids, nextPid' = nextPid + 1,
           refs' \in [Pids -> Nat]
    PROVE  /\ proc' \in [Slots -> Proc] /\ nextPid' \in 1..(MaxPid + 1)
           /\ Ids' /\ RefsCount' /\ NoLostWake'
           /\ \A q \in Slots : proc'[q].state = "running" <=> proc[q].state = "running"
           /\ \A q \in Slots : proc[q].state \in {"running", "ready", "blocked"} => proc'[q] = proc[q]
  <1>1. Slots' = Slots /\ Pids' = Pids /\ setup \in Setups /\ MaxPid \in Nat /\ nextPid \in Nat
    BY SameMachine, Machine DEF PInv, Types
  <1>2. /\ proc' \in [Slots -> Proc] /\ proc'[f] = r
        /\ \A q \in Slots : q # f => proc'[q] = t[q]
    BY Reslot
  <1>3. Ids'
    <2>1. \A q \in Slots : IdOk(t[q], nextPid + 1)
      BY <1>1, IdGrows DEF Proc
    <2> QED
      BY <1>1, <1>2, <2>1 DEF Ids
  <1>4. RefsCount'
    <2>1. \A a \in Pids : Cardinality(Holds(Slots, proc', a)) = refs'[a]
      <3>1. proc'[f].state # "unused" /\ proc'[f].as = r.as
        BY <1>2
      <3>2. ASSUME NEW a \in Pids
            PROVE  Cardinality(Holds(Slots, proc', a)) = refs'[a]
        <4>1. IsFiniteSet(Holds(Slots, t, a)) /\ Cardinality(Holds(Slots, t, a)) \in Nat
          BY <1>1, HoldsFinite
        <4>2. CASE r.as # a
          <5>1. Holds(Slots, proc', a) = Holds(Slots, t, a)
            BY <1>2, <4>2 DEF Holds
          <5> QED
            BY <4>1, <4>2, <5>1
        <4>3. CASE r.as = a
          <5>1. Holds(Slots, proc', a) = Holds(Slots, t, a) \cup {f} /\ f \notin Holds(Slots, t, a)
            BY <1>2, <4>3 DEF Holds
          <5>2. Cardinality(Holds(Slots, t, a) \cup {f}) = Cardinality(Holds(Slots, t, a)) + 1
            BY <4>1, <5>1, FS_AddElement
          <5> QED
            BY <4>1, <4>3, <5>1, <5>2
        <4> QED
          BY <4>2, <4>3
      <3> QED
        BY <3>2
    <2> QED
      BY <2>1, HoldsPrimed
  <1>5. /\ t[f] = proc[f] \/ proc[f].state = "zombie"
        /\ \A q \in Slots : proc[q].state \in {"running", "ready", "blocked"} => q # f /\ t[q] = proc[q]
    OBVIOUS
  <1>6. Unused.state = "unused"
    BY <1>1, UnusedFacts
  <1>7. \A q \in Slots :
          /\ proc'[q].state = "running" <=> proc[q].state = "running"
          /\ proc[q].state \in {"running", "ready", "blocked"} => proc'[q] = proc[q]
          /\ proc'[q].state \in {"zombie", "blocked"} => proc'[q] = proc[q]
    BY <1>2, <1>5, <1>6
  <1>8. NoLostWake'
    <2> DEFINE X == {}
    <2>1. \A q \in Slots : proc'[q].state = "blocked" =>
             /\ proc[q].state = "blocked" /\ proc'[q].pid = proc[q].pid
             /\ proc'[q].reason = proc[q].reason /\ proc'[q].waitingFor = proc[q].waitingFor
             /\ \A p \in X : p \in Slots => ~Child(p, q) /\ ~Joined(p, q)
      BY <1>7
    <2>2. \A p \in Slots : Live(p) =>
               proc'[p].state \notin {"unused", "zombie"} /\ SameName(p)
      BY <1>7 DEF Live, SameName, PInv, Types, Proc
    <2>3. \A p \in Slots : proc'[p].state = "zombie" => SameName(p) /\ proc[p].state = "zombie"
      BY <1>7 DEF SameName
    <2> HIDE DEF X
    <2> QED
      BY <1>1, <2>1, <2>2, <2>3, WakesKept DEF PInv
  <1>9. nextPid' \in 1..(MaxPid + 1)
    BY <1>1 DEF Pids
  <1> QED
    BY <1>2, <1>3, <1>4, <1>7, <1>8, <1>9

\* The core goes on and the table gains a process that is ready.
LEMMA StartCpus ==
    ASSUME PInv, setup' = setup, NEW c \in Cores, Active(c) \/ mode[c] = "loop",
           UNCHANGED <<current, on, cr3, mode, rrLast>>,
           \A q \in Slots : proc'[q].state = "running" <=> proc[q].state = "running",
           \A q \in Slots : proc[q].state \in {"running", "ready", "blocked"} => proc'[q] = proc[q]
    PROVE  CpuTypes' /\ Cpus' /\ OneLock' /\ RunningOnce' /\ rrLast' \in Slots
  <1>1. CASE Active(c)
    BY <1>1, UserStep
  <1>2. CASE mode[c] = "loop"
    <2>1. HasLock(c) /\ current[c] = None /\ current[c] \notin Slots
      BY <1>2, LoopFacts
    <2>2. CpuTypes' /\ rrLast' \in Slots
      BY SameMachine DEF PInv, Types, CpuTypes
    <2>3. CpuAt(proc', mode[c], current[c], on[c], cr3[c])
      BY <1>2 DEF PInv, Cpus, CpuAt
    <2> QED
      BY <2>1, <2>2, <2>3, CpuStep
  <1> QED
    BY <1>1, <1>2

\* process_spawn_image, by a process or by the window manager.
LEMMA SpawnStep ==
    ASSUME PInv, setup' = setup, NEW c \in Cores, WmSpawn(c) \/ \E ok \in BOOLEAN : Spawn(c, ok)
    PROVE  PInv'
  <1>1. PICK parent \in 0..MaxPid, ok \in BOOLEAN :
          SpawnAs(parent, ok) /\ (Active(c) \/ mode[c] = "loop")
    <2>1. CASE WmSpawn(c)
      <3>1. 0 \in 0..MaxPid
        BY Machine DEF PInv, Types
      <3> QED
        BY <2>1, <3>1 DEF WmSpawn
    <2>2. ASSUME NEW ok \in BOOLEAN, Spawn(c, ok)
          PROVE  /\ SpawnAs(proc[current[c]].pid, ok) /\ Active(c)
                 /\ proc[current[c]].pid \in 0..MaxPid
      <3>1. Active(c) /\ proc[current[c]] \in Proc
        BY <2>2, MakesActive DEF Spawn
      <3> QED
        BY <2>2, <3>1 DEF Spawn, Proc
    <2> QED
      BY <2>1, <2>2
  <1>2. UNCHANGED <<current, on, cr3, mode, rrLast>>
    BY DEF WmSpawn, Spawn
  <1>3. /\ FreeSlots(proc) # {} /\ nextPid \in Pids /\ nextPid' = nextPid + 1
        /\ setup \in Setups /\ proc \in [Slots -> Proc] /\ refs \in [Pids -> Nat]
        /\ nextPid \in 1..MaxPid /\ MaxPid \in Nat
    BY <1>1, Machine DEF SpawnAs, PInv, Types, Pids
  <1>4. Slots' = Slots /\ Pids' = Pids /\ Proc' = Proc /\ MaxPid' = MaxPid
    BY SameMachine
  <1>5. CASE ok
    <2> DEFINE f == FreeSlot(proc)
               r == [Unused EXCEPT !.state = "ready", !.pid = nextPid,
                                !.parent = parent, !.as = nextPid]
    <2>1. f \in Slots /\ proc[f].state = "unused"
      BY <1>3, FreeSlotFacts
    <2>2. r \in Proc /\ r.state = "ready" /\ r.as = nextPid /\ r.pid = nextPid /\ r.thread = FALSE
      <3>1. Unused \in Proc /\ nextPid \in 0..MaxPid /\ ~Unused.thread
        BY <1>3, UnusedFacts
      <3> QED
        BY <3>1 DEF Proc
    <2>3. proc' = [proc EXCEPT ![f] = r] /\ refs' = [refs EXCEPT ![nextPid] = 1]
      BY <1>1, <1>5 DEF SpawnAs
    <2> HIDE DEF r, f
    <2>4. IdOk(r, nextPid + 1)
      BY <1>3, <2>2 DEF IdOk
    <2>5. Holds(Slots, proc, nextPid) = {}
      BY <1>3 DEF PInv, Ids, IdOk, Holds, Types, Proc
    <2>6. \A a \in Pids : refs'[a] = Cardinality(Holds(Slots, proc, a)) + (IF r.as = a THEN 1 ELSE 0)
      <3>1. Cardinality(Holds(Slots, proc, nextPid)) = 0
        BY <2>5, FS_EmptySet
      <3>2. \A a \in Pids : refs[a] = Cardinality(Holds(Slots, proc, a)) /\ refs[a] \in Nat
        BY <1>3, HoldsNow DEF PInv
      <3> QED
        BY <1>3, <2>2, <2>3, <3>1, <3>2
    <2>7. refs' \in [Pids -> Nat]
      BY <1>3, <2>3
    <2>8. \A q \in Slots : IdOk(proc[q], nextPid)
      BY DEF PInv, Ids
    <2>9. /\ proc' \in [Slots -> Proc] /\ nextPid' \in 1..(MaxPid + 1)
          /\ Ids' /\ RefsCount' /\ NoLostWake'
          /\ \A q \in Slots : proc'[q].state = "running" <=> proc[q].state = "running"
          /\ \A q \in Slots : proc[q].state \in {"running", "ready", "blocked"} => proc'[q] = proc[q]
      BY <1>3, <2>1, <2>2, <2>3, <2>4, <2>6, <2>7, <2>8, FillSlot
    <2>10. CpuTypes' /\ Cpus' /\ OneLock' /\ RunningOnce' /\ rrLast' \in Slots
      BY <1>1, <1>2, <2>9, StartCpus
    <2>11. Types'
      BY <1>4, <2>7, <2>9, <2>10 DEF PInv, Types, CpuTypes
    <2> QED
      BY <2>9, <2>10, <2>11 DEF PInv
  <1>6. CASE ~ok
    <2>1. proc' = proc /\ refs' = refs
      BY <1>1, <1>6 DEF SpawnAs
    <2>2. nextPid' \in 1..(MaxPid + 1)
      BY <1>3
    <2>3. CpuTypes' /\ Cpus' /\ OneLock' /\ RunningOnce' /\ rrLast' \in Slots
      BY <1>1, <1>2, <2>1, StartCpus
    <2>4. Ids'
      <3>1. \A q \in Slots : IdOk(proc[q], nextPid + 1)
        BY <1>3, IdGrows DEF Proc, PInv, Ids
      <3> QED
        BY <1>3, <1>4, <2>1, <3>1 DEF Ids
    <2>5. RefsCount' /\ NoLostWake'
      BY <1>4, <2>1 DEF PInv, RefsCount, Used, NoLostWake, Live, Child, Joined
    <2>6. Types'
      BY <1>3, <1>4, <2>1, <2>2, <2>3 DEF PInv, Types, CpuTypes
    <2> QED
      BY <2>3, <2>4, <2>5, <2>6 DEF PInv
  <1> QED
    BY <1>5, <1>6

----------------------------------------------------------------------------
(* Steps that take dead processes out of the table.                        *)

\* The caller goes on or falls asleep, and dead ones may be gone.
LEMMA ReapStep ==
    ASSUME PInv, setup' = setup, NEW c \in Cores, Active(c),
           NEW me \in Slots, me = current[c], proc' \in [Slots -> Proc],
           refs' \in [Pids -> Nat], RefsCount',
           nextPid' \in 1..(MaxPid + 1), nextPid' = nextPid \/ nextPid' = nextPid + 1,
           \A q \in Slots : q # me =>
               proc'[q] = proc[q] \/ (proc[q].state = "zombie" /\ proc'[q] = Unused),
           SameId(proc[me], proc'[me]),
           \/ /\ ToUser(c) \/ UNCHANGED <<current, on, cr3, mode, rrLast>>
              /\ proc'[me].state = "running"
           \/ ToLoop(c) /\ proc'[me].state = "blocked" /\ Awaited(me)'
    PROVE  PInv'
  <1>1. /\ Slots' = Slots /\ Pids' = Pids /\ Proc' = Proc /\ MaxPid' = MaxPid
        /\ setup \in Setups /\ nextPid \in Nat \ {0} /\ proc \in [Slots -> Proc]
    BY SameMachine, Machine DEF PInv, Types
  <1>2. proc[me].state = "running"
    BY ActiveFacts
  <1>3. /\ Unused.state = "unused" /\ \A n \in Nat \ {0} : IdOk(Unused, n)
    BY <1>1, UnusedFacts
  <1>4. \A q \in Slots : q # me =>
          /\ proc'[q].state = "running" <=> proc[q].state = "running"
          /\ proc[q].state = "running" => proc'[q].as = proc[q].as
          /\ proc'[q].state \in {"zombie", "blocked"} => proc'[q] = proc[q]
          /\ proc[q].state \notin {"unused", "zombie"} => proc'[q] = proc[q]
    BY <1>3
  <1>5. proc'[me].as = proc[me].as /\ SameName(me) /\ proc'[me].state \notin {"unused", "zombie"}
    BY DEF SameId, SameName
  <1>6. CpuTypes' /\ Cpus' /\ OneLock' /\ RunningOnce' /\ rrLast' \in Slots
    <2>1. CASE proc'[me].state = "running"
      BY <1>2, <1>4, <1>5, <2>1, UserStep
    <2>2. CASE proc'[me].state = "blocked"
      BY <1>2, <1>4, <1>5, <2>2, LoopStep
    <2> QED
      BY <2>1, <2>2
  <1>7. Ids'
    <2>1. \A q \in Slots : IdOk(proc[q], nextPid')
      BY <1>1, IdGrows DEF Proc, PInv, Ids
    <2>2. nextPid' \in Nat \ {0}
      BY <1>1
    <2>3. IdOk(proc'[me], nextPid')
      BY <1>2, <1>5, <2>1 DEF IdOk, SameId
    <2>4. \A q \in Slots : q # me => IdOk(proc'[q], nextPid')
      BY <1>3, <2>1, <2>2
    <2> QED
      BY <1>1, <2>3, <2>4 DEF Ids
  <1>8. NoLostWake'
    <2> DEFINE X == {}
    <2>1. \A q \in Slots : proc'[q].state = "blocked" =>
               \/ Awaited(q)'
               \/ /\ proc[q].state = "blocked" /\ proc'[q].pid = proc[q].pid
                  /\ proc'[q].reason = proc[q].reason /\ proc'[q].waitingFor = proc[q].waitingFor
                  /\ \A p \in X : p \in Slots => ~Child(p, q) /\ ~Joined(p, q)
      BY <1>4
    <2>2. \A p \in Slots : Live(p) =>
               proc'[p].state \notin {"unused", "zombie"} /\ SameName(p)
      BY <1>4, <1>5 DEF Live, SameName
    <2>3. \A p \in Slots : proc'[p].state = "zombie" => SameName(p) /\ proc[p].state = "zombie"
      BY <1>4, <1>5 DEF SameName
    <2> HIDE DEF X
    <2> QED
      BY <1>1, <2>1, <2>2, <2>3, WakesKept DEF PInv
  <1>9. Types'
    BY <1>1, <1>6 DEF PInv, Types, CpuTypes
  <1> QED
    BY <1>6, <1>7, <1>8, <1>9 DEF PInv

\* process_wait once round its loop.
LEMMA WaitStep ==
    ASSUME PInv, setup' = setup, NEW c \in Cores, Active(c),
           NEW pid \in -1..MaxPid, WaitRound(c, pid)
    PROVE  PInv'
  <1>1. PICK me \in Slots : me = current[c]
    BY ActiveFacts
  <1> DEFINE dead == {p \in Slots : Matches(me, pid, p) /\ proc[p].state = "zombie"}
             live == {p \in Slots : Matches(me, pid, p) /\ Live(p)}
             r == [proc[me] EXCEPT !.reason = "none"]
             awake == [proc EXCEPT ![me] = r]
             z == CHOOSE p \in dead : \A q \in dead : p <= q
             b == [proc[me] EXCEPT !.state = "blocked", !.reason = "child", !.waitingFor = pid,
                                   !.resumeKernel = TRUE]
  <1>2. /\ proc[me].state = "running" /\ proc[me] \in Proc /\ proc[me].pid \in Pids
        /\ setup \in Setups /\ proc \in [Slots -> Proc] /\ refs \in [Pids -> Nat]
    BY <1>1, ActiveFacts DEF PInv, Types
  <1>3. /\ r \in Proc /\ SameId(proc[me], r) /\ r.state = "running"
    BY <1>2 DEF Proc, SameId
  <1>4. /\ b \in Proc /\ SameId(proc[me], b) /\ b.state = "blocked" /\ b.reason = "child"
        /\ b.waitingFor = pid /\ b.pid = proc[me].pid
    BY <1>2 DEF Proc, SameId
  <1>5. /\ UNCHANGED <<refs, nextPid>>
        /\ \/ dead # {} /\ proc' = [awake EXCEPT ![z] = Unused] /\ ToUser(c)
           \/ dead = {} /\ proc' = awake /\ ToUser(c)
           \/ dead = {} /\ live # {} /\ proc' = [proc EXCEPT ![me] = b] /\ ToLoop(c)
    BY <1>1, <1>2, ZenonT(60) DEF WaitRound, BlockIn
  <1>6. awake \in [Slots -> Proc] /\ awake[me] = r /\ \A q \in Slots : q # me => awake[q] = proc[q]
    BY <1>2, <1>3
  <1>7. CASE dead # {} /\ proc' = [awake EXCEPT ![z] = Unused] /\ ToUser(c)
    <2>1. z \in dead
      BY <1>2, <1>7, FirstSlot
    <2> HIDE DEF z
    <2>2. /\ z \in Slots /\ proc[z].state = "zombie" /\ proc[z].parent = proc[me].pid /\ z # me
      BY <1>2, <2>1 DEF Matches
    <2>3. proc[z].as = 0
      <3>1. IdOk(proc[z], nextPid) /\ proc[me].pid # 0
        BY <1>2, <2>2 DEF PInv, Ids, Pids
      <3>2. proc[z].thread \in BOOLEAN
        BY <1>2, <2>2 DEF Proc
      <3> QED
        BY <2>2, <3>1, <3>2 DEF IdOk
    <2>4. Unused \in Proc /\ Unused.state = "unused"
      BY <1>2, UnusedFacts
    <2> HIDE DEF awake
    <2>5. /\ proc' \in [Slots -> Proc] /\ proc'[z] = Unused
          /\ \A q \in Slots : q # z => proc'[q] = awake[q]
      BY <1>6, <1>7, <2>2, <2>4
    <2> HIDE DEF r
    <2>6. /\ proc'[me] = r /\ \A q \in Slots : q # me /\ q # z => proc'[q] = proc[q]
      BY <1>6, <2>2, <2>5
    <2>7. RefsCount'
      <3>1. \A a \in Pids : Holds(Slots, proc', a) = Holds(Slots, proc, a)
        BY <1>3, <1>2, <2>2, <2>3, <2>4, <2>5, <2>6, Machine, SMTT(40) DEF Holds, SameId, Pids
      <3> QED
        BY <1>5, <3>1, HoldsNow, HoldsPrimed DEF PInv
    <2>8. /\ nextPid' \in 1..(MaxPid + 1) /\ nextPid' = nextPid /\ refs' \in [Pids -> Nat]
          /\ SameId(proc[me], proc'[me]) /\ proc'[me].state = "running"
      BY <1>2, <1>3, <1>5, <2>6 DEF PInv, Types
    <2>9. \A q \in Slots : q # me =>
               proc'[q] = proc[q] \/ (proc[q].state = "zombie" /\ proc'[q] = Unused)
      BY <2>2, <2>5, <2>6
    <2> QED
      BY <1>1, <1>7, <2>5, <2>7, <2>8, <2>9, ReapStep
  <1>8. CASE dead = {} /\ proc' = awake /\ ToUser(c)
    BY <1>1, <1>3, <1>5, <1>6, <1>8, GoOnStep
  <1>9. CASE dead = {} /\ live # {} /\ proc' = [proc EXCEPT ![me] = b] /\ ToLoop(c)
    <2> HIDE DEF b
    <2>1. /\ proc' \in [Slots -> Proc] /\ proc'[me] = b
          /\ \A q \in Slots : q # me => proc'[q] = proc[q]
      BY <1>2, <1>4, <1>9, Reslot
    <2>2. PICK p \in Slots : Matches(me, pid, p) /\ Live(p)
      BY <1>9
    <2>3. \A q \in Slots : proc[q].state = "zombie" => ~Matches(me, pid, q)
      BY <1>9
    <2>4. proc'[p].parent = proc[me].pid /\ pid \in {-1, proc'[p].pid}
          /\ proc'[p].state \notin {"unused", "zombie"}
      BY <1>2, <1>4, <2>1, <2>2 DEF Matches, Live, SameId
    <2>5. Live(p)' /\ Child(p, me)'
      BY <1>4, <2>1, <2>4 DEF Live, Child
    <2>6. \A q \in Slots : proc'[q].state = "zombie" => ~Child(q, me)' /\ ~Joined(q, me)'
      BY <1>4, <2>1, <2>3 DEF Child, Joined, Matches, Used
    <2>7. Awaited(me)'
      BY <2>5, <2>6, SameMachine DEF Awaited
    <2>8. SameId(proc[me], proc'[me]) /\ proc'[me].state = "blocked"
      BY <1>4, <2>1
    <2> QED
      BY <1>1, <1>5, <1>9, <2>1, <2>7, <2>8, GiveUpStep
  <1> QED
    BY <1>5, <1>7, <1>8, <1>9

\* process_thread_join once round its loop.
LEMMA JoinStep ==
    ASSUME PInv, setup' = setup, NEW c \in Cores, Active(c),
           NEW tid \in -1..MaxPid, JoinRound(c, tid)
    PROVE  PInv'
  <1>1. PICK me \in Slots : me = current[c]
    BY ActiveFacts
  <1>2. PICK t : t = ReapThreads(me)
    OBVIOUS
  <1> DEFINE r == [proc[me] EXCEPT !.reason = "none"]
             b == [proc[me] EXCEPT !.state = "blocked", !.reason = "thread", !.waitingFor = tid,
                                   !.resumeKernel = TRUE]
  <1>3. /\ proc[me].state = "running" /\ proc[me] \in Proc
        /\ setup \in Setups /\ proc \in [Slots -> Proc] /\ refs \in [Pids -> Nat]
    BY <1>1, ActiveFacts DEF PInv, Types
  <1>4. /\ t \in [Slots -> Proc] /\ t[me] = proc[me]
        /\ \A q \in Slots : \/ t[q] = proc[q]
                            \/ q # me /\ proc[q].state = "zombie" /\ t[q] = Unused
        /\ \A q \in Slots : q # me => ~(t[q].state = "zombie" /\ t[q].thread)
        /\ RefsReaped(me) \in [Pids -> Nat]
        /\ \A a \in Pids : RefsReaped(me)[a] = Cardinality(Holds(Slots, t, a))
    BY <1>2, ReapFacts
  <1>5. r \in Proc /\ SameId(proc[me], r) /\ r.state = "running"
    BY <1>3 DEF Proc, SameId
  <1>6. /\ b \in Proc /\ SameId(proc[me], b) /\ b.state = "blocked" /\ b.reason = "thread"
        /\ b.waitingFor = tid
    BY <1>3 DEF Proc, SameId
  <1>7. /\ refs' = RefsReaped(me) /\ nextPid' = nextPid
        /\ \/ /\ \E p \in Slots : t[p].state # "unused" /\ t[p].pid = tid /\ t[p].thread /\ p # me
              /\ proc' = [t EXCEPT ![me] = b] /\ ToLoop(c)
           \/ proc' = [t EXCEPT ![me] = r] /\ ToUser(c)
    BY <1>1, <1>2, <1>4, ZenonT(60) DEF JoinRound, BlockIn
  <1> HIDE DEF r, b
  <1>8. PICK s \in {r, b} : proc' = [t EXCEPT ![me] = s]
    BY <1>7
  <1>9. /\ s \in Proc /\ SameId(proc[me], s)
        /\ proc' \in [Slots -> Proc] /\ proc'[me] = s
        /\ \A q \in Slots : q # me => proc'[q] = t[q]
    BY <1>4, <1>5, <1>6, <1>8
  <1>10. RefsCount'
    <2>1. \A a \in Pids : Holds(Slots, proc', a) = Holds(Slots, t, a)
      BY <1>4, <1>9 DEF Holds, SameId
    <2> QED
      BY <1>4, <1>7, <2>1, HoldsPrimed
  <1>11. /\ nextPid' \in 1..(MaxPid + 1) /\ refs' \in [Pids -> Nat] /\ SameId(proc[me], proc'[me])
    BY <1>4, <1>7, <1>9 DEF PInv, Types
  <1>12. \A q \in Slots : q # me =>
               proc'[q] = proc[q] \/ (proc[q].state = "zombie" /\ proc'[q] = Unused)
    BY <1>4, <1>9
  <1>13. CASE proc' = [t EXCEPT ![me] = r] /\ ToUser(c)
    <2>1. proc'[me].state = "running"
      BY <1>4, <1>5, <1>13
    <2> QED
      BY <1>1, <1>7, <1>9, <1>10, <1>11, <1>12, <1>13, <2>1, ReapStep
  <1>14. ASSUME NEW p \in Slots, t[p].state # "unused", t[p].pid = tid, t[p].thread, p # me,
                proc' = [t EXCEPT ![me] = b], ToLoop(c)
         PROVE  PInv'
    <2>1. proc'[me] = b /\ proc'[me].state = "blocked"
      BY <1>4, <1>6, <1>14
    <2>2. Live(p)' /\ Joined(p, me)'
      BY <1>4, <1>6, <1>9, <1>14, <2>1 DEF Live, Joined
    <2>3. \A q \in Slots : proc'[q].state = "zombie" => ~Child(q, me)' /\ ~Joined(q, me)'
      BY <1>4, <1>6, <1>9, <2>1 DEF Child, Joined
    <2>4. Awaited(me)'
      BY <2>2, <2>3, SameMachine DEF Awaited
    <2> QED
      BY <1>1, <1>7, <1>9, <1>10, <1>11, <1>12, <1>14, <2>1, <2>4, ReapStep
  <1> QED
    BY <1>7, <1>13, <1>14

\* process_thread_create: the dead threads go, a new one shares the space.
LEMMA ThreadStep ==
    ASSUME PInv, setup' = setup, NEW c \in Cores, NEW ok \in BOOLEAN, ThreadCreate(c, ok)
    PROVE  PInv'
  <1>0. Active(c)
    BY MakesActive DEF ThreadCreate
  <1>1. PICK me \in Slots : me = current[c]
    BY <1>0, ActiveFacts
  <1>2. PICK t : t = ReapThreads(me)
    OBVIOUS
  <1>3. /\ proc[me].state = "running" /\ proc[me] \in Proc /\ proc[me].as \in Pids
        /\ IdOk(proc[me], nextPid)
        /\ setup \in Setups /\ proc \in [Slots -> Proc] /\ refs \in [Pids -> Nat]
        /\ nextPid \in Nat \ {0} /\ MaxPid \in Nat
    BY <1>0, <1>1, ActiveFacts, Machine DEF PInv, Types
  <1>4. /\ t \in [Slots -> Proc] /\ t[me] = proc[me]
        /\ \A q \in Slots : \/ t[q] = proc[q]
                            \/ q # me /\ proc[q].state = "zombie" /\ t[q] = Unused
        /\ \A q \in Slots : IdOk(t[q], nextPid)
        /\ RefsReaped(me) \in [Pids -> Nat]
        /\ \A a \in Pids : RefsReaped(me)[a] = Cardinality(Holds(Slots, t, a))
    BY <1>2, ReapFacts
  <1>5. /\ FreeSlots(t) # {} /\ nextPid \in Pids /\ nextPid' = nextPid + 1
        /\ UNCHANGED <<current, on, cr3, mode, rrLast>>
        /\ ok => /\ proc' = [t EXCEPT ![FreeSlot(t)] =
                     [Unused EXCEPT !.state = "ready", !.pid = nextPid,
                                    !.thread = TRUE, !.as = t[me].as]]
                 /\ refs' = [RefsReaped(me) EXCEPT ![t[me].as] = @ + 1]
        /\ ~ok => proc' = t /\ refs' = RefsReaped(me)
    BY <1>1, <1>2 DEF ThreadCreate
  <1>6. nextPid \in 1..MaxPid /\ nextPid' \in 1..(MaxPid + 1)
    BY <1>3, <1>5 DEF Pids
  <1>7. CASE ok
    <2> DEFINE f == FreeSlot(t)
               r == [Unused EXCEPT !.state = "ready", !.pid = nextPid,
                                    !.thread = TRUE, !.as = proc[me].as]
    <2>1. f \in Slots /\ t[f].state = "unused"
      BY <1>3, <1>5, FreeSlotFacts
    <2>2. /\ r \in Proc /\ r.state = "ready" /\ r.as = proc[me].as /\ r.pid = nextPid
          /\ r.parent = 0 /\ r.thread = TRUE
      <3>1. Unused \in Proc /\ nextPid \in 0..MaxPid /\ proc[me].as \in 0..MaxPid
        BY <1>3, <1>6, UnusedFacts DEF Proc
      <3>2. Unused.parent = 0
        BY DEF Unused
      <3> QED
        BY <3>1, <3>2 DEF Proc
    <2>3. proc' = [t EXCEPT ![f] = r] /\ refs' = [RefsReaped(me) EXCEPT ![proc[me].as] = @ + 1]
      BY <1>4, <1>5, <1>7
    <2> HIDE DEF r, f
    <2>4. IdOk(r, nextPid + 1)
      <3>1. proc[me].as >= 1 /\ proc[me].as < nextPid /\ proc[me].as \in Int
        BY <1>3 DEF IdOk, Proc
      <3> QED
        BY <1>6, <2>2, <3>1 DEF IdOk
    <2>5. \A a \in Pids : refs'[a] = Cardinality(Holds(Slots, t, a)) + (IF r.as = a THEN 1 ELSE 0)
      <3>1. \A a \in Pids : RefsReaped(me)[a] \in Nat
        BY <1>4
      <3> QED
        BY <1>3, <1>4, <2>2, <2>3, <3>1
    <2>6. refs' \in [Pids -> Nat]
      BY <1>3, <1>4, <2>3
    <2>7. \A q \in Slots : t[q] = proc[q] \/ (proc[q].state = "zombie" /\ t[q] = Unused)
      BY <1>4
    <2>9. /\ proc' \in [Slots -> Proc] /\ nextPid' \in 1..(MaxPid + 1)
          /\ Ids' /\ RefsCount' /\ NoLostWake'
          /\ \A q \in Slots : proc'[q].state = "running" <=> proc[q].state = "running"
          /\ \A q \in Slots : proc[q].state \in {"running", "ready", "blocked"} => proc'[q] = proc[q]
      <3>1. /\ t \in [Slots -> Proc] /\ nextPid \in Pids /\ nextPid' = nextPid + 1
            /\ \A q \in Slots : IdOk(t[q], nextPid)
            /\ r \in Proc /\ r.state = "ready" /\ proc' = [t EXCEPT ![f] = r]
        BY <1>4, <1>5, <2>2, <2>3
      <3> QED
        BY <2>1, <2>4, <2>5, <2>6, <2>7, <3>1, FillSlot
    <2>10. CpuTypes' /\ Cpus' /\ OneLock' /\ RunningOnce' /\ rrLast' \in Slots
      BY <1>0, <1>5, <2>9, StartCpus
    <2>11. Types'
      BY <2>6, <2>9, <2>10, SameMachine DEF PInv, Types, CpuTypes
    <2> QED
      BY <2>9, <2>10, <2>11 DEF PInv
  <1>8. CASE ~ok
    <2>1. proc' = t /\ refs' = RefsReaped(me)
      BY <1>5, <1>8
    <2>2. RefsCount'
      BY <1>4, <2>1, HoldsPrimed
    <2>3. SameId(proc[me], proc'[me]) /\ proc'[me].state = "running"
      BY <1>3, <1>4, <2>1 DEF SameId
    <2> QED
      BY <1>0, <1>1, <1>4, <1>5, <1>6, <2>1, <2>2, <2>3, ReapStep
  <1> QED
    BY <1>7, <1>8

\* process_notify_exit.
LEMMA ExitStep ==
    ASSUME PInv, setup' = setup, NEW c \in Cores, Active(c), NotifyExit(c)
    PROVE  PInv'
  <1>1. PICK me \in Slots : me = current[c]
    BY ActiveFacts
  <1>2. PICK t : t = ReapThreads(me)
    OBVIOUS
  <1>3. /\ proc[me].state = "running" /\ proc[me] \in Proc /\ proc[me].as \in Pids
        /\ IdOk(proc[me], nextPid) /\ on[c] = me /\ (HasLock(c) \/ LockFree)
        /\ setup \in Setups /\ proc \in [Slots -> Proc] /\ refs \in [Pids -> Nat]
        /\ nextPid \in Nat \ {0} /\ MaxPid \in Nat /\ None \notin Slots
        /\ Slots' = Slots /\ Pids' = Pids /\ Proc' = Proc /\ MaxPid' = MaxPid
    BY <1>1, ActiveFacts, Machine, SameMachine DEF PInv, Types
  <1>4. /\ t \in [Slots -> Proc] /\ t[me] = proc[me]
        /\ \A q \in Slots : \/ t[q] = proc[q]
                            \/ q # me /\ proc[q].state = "zombie" /\ t[q] = Unused
        /\ \A q \in Slots : IdOk(t[q], nextPid)
        /\ RefsReaped(me) \in [Pids -> Nat]
        /\ \A a \in Pids : RefsReaped(me)[a] = Cardinality(Holds(Slots, t, a))
    BY <1>2, ReapFacts
  <1> DEFINE dead == [t[me] EXCEPT !.state = "zombie", !.reason = "none",
                              !.as = IF t[me].thread THEN @ ELSE KernelSpace]
             gone == t[me].parent = 0 /\ ~t[me].thread
  <1>5. /\ proc' = [q \in Slots |->
                      IF q = me THEN IF gone THEN Unused ELSE dead
                      ELSE IF WokenBy(t, me, q) THEN [t[q] EXCEPT !.state = "ready"]
                      ELSE t[q]]
        /\ refs' = IF GivesUpSpace(me, t) THEN [RefsReaped(me) EXCEPT ![t[me].as] = @ - 1]
                   ELSE RefsReaped(me)
        /\ current' = [current EXCEPT ![c] = None]
        /\ cr3' = [cr3 EXCEPT ![c] = KernelSpace]
        /\ mode' = [mode EXCEPT ![c] = "exiting"]
        /\ UNCHANGED <<on, rrLast, nextPid>>
    BY <1>1, <1>2 DEF NotifyExit
  <1>6. /\ Unused \in Proc /\ Unused.state = "unused" /\ IdOk(Unused, nextPid) /\ Unused.as = 0
    BY <1>3, UnusedFacts
  <1>7. /\ dead \in Proc /\ dead.state = "zombie" /\ dead.pid = proc[me].pid
        /\ dead.parent = proc[me].parent /\ dead.thread = proc[me].thread
        /\ dead.as = IF proc[me].thread THEN proc[me].as ELSE 0
    <2>1. (IF proc[me].thread THEN proc[me].as ELSE KernelSpace) \in 0..MaxPid
      BY <1>3 DEF Proc, KernelSpace
    <2> DEFINE a == IF proc[me].thread THEN proc[me].as ELSE KernelSpace
    <2>2. dead = [proc[me] EXCEPT !.state = "zombie", !.reason = "none", !.as = a]
      BY <1>3, <1>4 DEF Proc
    <2>3. a = IF proc[me].thread THEN proc[me].as ELSE 0
      BY DEF KernelSpace
    <2> HIDE DEF a, dead
    <2>4. a \in 0..MaxPid
      BY <2>1 DEF a
    <2>5. /\ dead \in Proc /\ dead.state = "zombie" /\ dead.pid = proc[me].pid
          /\ dead.parent = proc[me].parent /\ dead.thread = proc[me].thread /\ dead.as = a
      BY <1>3, <2>2, <2>4 DEF Proc
    <2> QED
      BY <2>3, <2>5
  <1> HIDE DEF dead
  \* The slot of the caller.
  <1>8. \/ proc'[me] = dead
        \/ proc'[me] = Unused /\ ~proc[me].thread
    BY <1>4, <1>5
  \* The others: woken, reaped or as they were.
  <1>9. \A q \in Slots : q # me =>
          /\ SameId(t[q], proc'[q]) /\ proc'[q] \in Proc
          /\ proc'[q].state = "running" <=> proc[q].state = "running"
          /\ proc[q].state = "running" => proc'[q].as = proc[q].as
          /\ proc[q].state \notin {"unused", "zombie"} => t[q] = proc[q]
          /\ proc'[q].state \in {"zombie", "blocked"} => proc'[q] = proc[q]
          /\ proc'[q].state = "blocked" => ~WokenBy(t, me, q)
    <2> SUFFICES ASSUME NEW q \in Slots, q # me
                 PROVE  /\ SameId(t[q], proc'[q]) /\ proc'[q] \in Proc
                        /\ proc'[q].state = "running" <=> proc[q].state = "running"
                        /\ proc[q].state = "running" => proc'[q].as = proc[q].as
                        /\ proc[q].state \notin {"unused", "zombie"} => t[q] = proc[q]
                        /\ proc'[q].state \in {"zombie", "blocked"} => proc'[q] = proc[q]
                        /\ proc'[q].state = "blocked" => ~WokenBy(t, me, q)
      OBVIOUS
    <2>1. t[q] \in Proc
      BY <1>4
    <2>2. CASE WokenBy(t, me, q)
      <3>1. t[q].state = "blocked" /\ proc'[q] = [t[q] EXCEPT !.state = "ready"]
        BY <1>5, <2>2 DEF WokenBy
      <3>2. t[q] = proc[q]
        BY <1>4, <1>6, <3>1
      <3> QED
        BY <2>1, <3>1, <3>2 DEF SameId, Proc
    <2>3. CASE ~WokenBy(t, me, q)
      <3>1. proc'[q] = t[q]
        BY <1>5, <2>3
      <3> QED
        BY <1>4, <1>6, <2>1, <2>3, <3>1 DEF SameId
    <2> QED
      BY <2>2, <2>3
  <1>10. proc' \in [Slots -> Proc] /\ proc'[me].state \in {"zombie", "unused"}
    <2>1. \A q \in Slots : proc'[q] \in Proc
      BY <1>6, <1>7, <1>8, <1>9
    <2>2. proc' = [q \in Slots |-> proc'[q]]
      BY <1>5
    <2> QED
      BY <1>6, <1>7, <1>8, <2>1, <2>2
  <1>11. CpuTypes' /\ Cpus' /\ OneLock' /\ RunningOnce'
    <2>1. /\ mode'[c] = "exiting" /\ current'[c] = None /\ on'[c] = me /\ cr3'[c] = 0
          /\ \A d \in Cores \ {c} : /\ mode'[d] = mode[d] /\ current'[d] = current[d]
                                    /\ on'[d] = on[d] /\ cr3'[d] = cr3[d]
      BY <1>3, <1>5 DEF PInv, Types, KernelSpace
    <2>2. 0 \in 0..MaxPid
      BY <1>3
    <2>3. CpuTypes'
      BY <1>3, <1>5, <2>2 DEF PInv, Types, CpuTypes, KernelSpace
    <2>4. CpuAt(proc', mode'[c], current'[c], on'[c], cr3'[c])
      BY <1>10, <2>1 DEF CpuAt
    <2>5. proc'[me].state # "running"
      BY <1>10
    <2> QED
      BY <1>1, <1>3, <1>9, <2>1, <2>3, <2>4, <2>5, CpuStep
  <1>12. Ids'
    <2>1. IdOk(proc'[me], nextPid)
      BY <1>3, <1>6, <1>7, <1>8 DEF IdOk, Proc
    <2>2. \A q \in Slots : q # me => IdOk(proc'[q], nextPid)
      BY <1>4, <1>9 DEF IdOk, SameId, Proc
    <2> QED
      BY <1>3, <1>5, <2>1, <2>2 DEF Ids
  <1>13. refs' \in [Pids -> Nat] /\ RefsCount'
    <2>1. \A a \in Pids : IsFiniteSet(Holds(Slots, t, a)) /\ Cardinality(Holds(Slots, t, a)) \in Nat
      BY <1>3, HoldsFinite
    <2>2. CASE proc[me].thread
      <3>1. proc'[me] = dead /\ dead.as = proc[me].as
        BY <1>7, <1>8, <2>2
      <3>2. \A a \in Pids : Holds(Slots, proc', a) = Holds(Slots, t, a)
        BY <1>3, <1>4, <1>7, <1>9, <3>1 DEF Holds, SameId
      <3>3. refs' = RefsReaped(me)
        BY <1>4, <1>5, <2>2 DEF GivesUpSpace
      <3> QED
        BY <1>4, <3>2, <3>3, HoldsPrimed
    <2>3. CASE ~proc[me].thread
      <3>1. refs' = [RefsReaped(me) EXCEPT ![proc[me].as] = @ - 1]
        BY <1>4, <1>5, <2>3 DEF GivesUpSpace
      <3>2. proc'[me].as = 0
        BY <1>6, <1>7, <1>8, <2>3
      <3>3. ASSUME NEW a \in Pids
            PROVE  refs'[a] = Cardinality(Holds(Slots, proc', a)) /\ refs'[a] \in Nat
        <4>1. a # 0
          BY <1>3 DEF Pids
        <4>2. CASE proc[me].as # a
          <5>1. Holds(Slots, proc', a) = Holds(Slots, t, a)
            BY <1>4, <1>9, <3>2, <4>1, <4>2 DEF Holds, SameId
          <5> QED
            BY <1>3, <1>4, <2>1, <3>1, <4>2, <5>1
        <4>3. CASE proc[me].as = a
          <5>1. Holds(Slots, proc', a) = Holds(Slots, t, a) \ {me} /\ me \in Holds(Slots, t, a)
            BY <1>3, <1>4, <1>9, <3>2, <4>1, <4>3 DEF Holds, SameId
          <5>2. /\ IsFiniteSet(Holds(Slots, t, a) \ {me})
                /\ Cardinality(Holds(Slots, t, a) \ {me}) = Cardinality(Holds(Slots, t, a)) - 1
            BY <2>1, <5>1, FS_RemoveElement
          <5>3. Cardinality(Holds(Slots, t, a) \ {me}) \in Nat
            BY <5>2, FS_CardinalityType
          <5>4. refs'[a] = RefsReaped(me)[a] - 1
            BY <1>4, <3>1, <4>3
          <5> QED
            BY <1>4, <5>1, <5>2, <5>3, <5>4
        <4> QED
          BY <4>2, <4>3
      <3>4. refs' = [a \in Pids |-> refs'[a]]
        BY <1>4, <3>1
      <3> QED
        BY <3>3, <3>4, HoldsPrimed
    <2> QED
      BY <2>2, <2>3
  <1>14. NoLostWake'
    <2> DEFINE X == {me}
    <2>1. ASSUME NEW q \in Slots, proc'[q].state = "blocked"
          PROVE  /\ proc[q].state = "blocked" /\ proc'[q].pid = proc[q].pid
                 /\ proc'[q].reason = proc[q].reason /\ proc'[q].waitingFor = proc[q].waitingFor
                 /\ \A p \in X : p \in Slots => ~Child(p, q) /\ ~Joined(p, q)
      <3>1. q # me /\ proc'[q] = proc[q] /\ proc[q].state = "blocked" /\ ~WokenBy(t, me, q)
        BY <1>9, <1>10, <2>1
      <3>2. t[q] = proc[q] /\ t[me] = proc[me]
        BY <1>4, <1>9, <3>1
      <3>3. proc[q].pid # 0
        BY <1>3, <3>1 DEF PInv, Ids, IdOk
      <3>4. proc[me].thread => proc[me].parent = 0
        BY <1>3 DEF IdOk
      <3>5. ~Joined(me, q)
        BY <3>1, <3>2 DEF Joined, WokenBy
      <3>6. ~Child(me, q)
        BY <3>1, <3>2, <3>3, <3>4 DEF Child, WokenBy
      <3> QED
        BY <3>1, <3>5, <3>6
    <2>2. \A p \in Slots : Live(p) /\ p \notin X =>
               proc'[p].state \notin {"unused", "zombie"} /\ SameName(p)
      BY <1>9 DEF Live, SameName, SameId
    <2>3. \A p \in Slots : proc'[p].state = "zombie" =>
               SameName(p) /\ (proc[p].state = "zombie" \/ p \in X)
      BY <1>6, <1>7, <1>8, <1>9 DEF SameName
    <2> HIDE DEF X
    <2> QED
      BY <1>3, <2>1, <2>2, <2>3, WakesKept DEF PInv
  <1>15. Types'
    BY <1>3, <1>5, <1>10, <1>11, <1>13 DEF PInv, Types, CpuTypes
  <1> QED
    BY <1>11, <1>12, <1>13, <1>14, <1>15 DEF PInv

----------------------------------------------------------------------------
(* The theorems.                                                           *)

\* The invariant holds at boot.
LEMMA InitPInv == Init => PInv
  <1> SUFFICES ASSUME Init PROVE PInv
    OBVIOUS
  <1> DEFINE r == [Unused EXCEPT !.state = "ready", !.pid = 1, !.as = 1]
  <1>1. /\ setup \in Setups /\ MaxPid \in Nat \ {0} /\ MaxProcs - 1 \in Slots /\ 0 \in Slots
        /\ None \notin Slots /\ 1 \in Pids /\ nextPid = 2 /\ Pids \subseteq Nat
    BY Machine DEF Init
  <1>2. Unused \in Proc /\ Unused.state = "unused" /\ Unused.as = 0 /\ IdOk(Unused, 2)
    BY <1>1, UnusedFacts
  <1>3. /\ r \in Proc /\ r.state = "ready" /\ r.pid = 1 /\ r.as = 1 /\ ~r.thread
    <2>1. Unused.thread = FALSE /\ 1 \in 0..MaxPid
      BY <1>1 DEF Unused
    <2> QED
      BY <1>2, <2>1 DEF Proc
  <1>4. proc = [p \in Slots |-> IF p = 0 THEN r ELSE Unused]
    BY DEF Init
  <1> HIDE DEF r
  <1>5. Types
    <2>1. proc \in [Slots -> Proc]
      BY <1>2, <1>3, <1>4
    <2>2. 0 \in 0..MaxPid /\ 2 \in 1..(MaxPid + 1)
      BY <1>1
    <2> QED
      BY <1>1, <2>1, <2>2 DEF Types, Init, KernelSpace
  <1>6. Ids
    <2>1. IdOk(r, 2)
      BY <1>3 DEF IdOk
    <2> QED
      BY <1>1, <1>2, <1>4, <2>1 DEF Ids
  <1>7. Cpus /\ OneLock
    BY DEF Init, Cpus, CpuAt, OneLock, HasLock, KernelSpace
  <1>8. RunningOnce
    BY <1>1, <1>2, <1>3, <1>4 DEF Init, RunningOnce
  <1>9. RefsCount
    <2>1. ASSUME NEW a \in Pids
          PROVE  refs[a] = Cardinality({p \in Slots : Used(p) /\ proc[p].as = a})
      <3>1. CASE a = 1
        <4>1. {p \in Slots : Used(p) /\ proc[p].as = a} = {0}
          BY <1>1, <1>2, <1>3, <1>4, <3>1 DEF Used
        <4> QED
          BY <3>1, <4>1, FS_Singleton DEF Init
      <3>2. CASE a # 1
        <4>1. {p \in Slots : Used(p) /\ proc[p].as = a} = {}
          BY <1>2, <1>3, <1>4, <3>2 DEF Used
        <4> QED
          BY <3>2, <4>1, FS_EmptySet DEF Init
      <3> QED
        BY <3>1, <3>2
    <2> QED
      BY <2>1 DEF RefsCount
  <1>10. NoLostWake
    BY <1>2, <1>3, <1>4 DEF NoLostWake
  <1> QED
    BY <1>5, <1>6, <1>7, <1>8, <1>9, <1>10 DEF PInv

\* A step of something else.
LEMMA StutterPInv ==
    ASSUME PInv, UNCHANGED <<setup, vars>>
    PROVE  PInv'
  <1>1. UNCHANGED <<refs, current, on, cr3, mode, rrLast, nextPid>> /\ setup' = setup /\ proc' = proc
    BY DEF vars
  <1> QED
    BY <1>1, QuietStep DEF SameId, PInv, Types

\* One step per action.
LEMMA NextPInv == PInv /\ [Next]_<<setup, vars>> => PInv'
  <1> SUFFICES ASSUME PInv, [Next]_<<setup, vars>> PROVE PInv'
    OBVIOUS
  <1>1. CASE UNCHANGED <<setup, vars>>
    BY <1>1, StutterPInv
  <1>2. CASE Next
    <2>1. setup' = setup
      BY <1>2 DEF Next
    <2>2. CASE Clock \/ WakeSleepers \/ Key
      BY <2>1, <2>2, ClockStep
    <2>3. ASSUME NEW c \in Cores, Sched(c)
          PROVE  PInv'
      BY <2>1, <2>3, LoopResumeStep, TickStep, EmptyStep DEF Sched
    <2>4. ASSUME NEW c \in Cores, Continues(c)
          PROVE  PInv'
      <3>1. CASE Return(c)
        BY <2>1, <3>1, ReturnStep
      <3>2. CASE WaitAgain(c) \/ JoinAgain(c)
        <4>1. Active(c)
          BY <3>2 DEF WaitAgain, JoinAgain, Resumed, Active
        <4>2. proc[current[c]].waitingFor \in -1..MaxPid
          BY <4>1, ActiveFacts DEF Proc
        <4> QED
          BY <2>1, <3>2, <4>1, <4>2, WaitStep, JoinStep DEF WaitAgain, JoinAgain
      <3>3. CASE Die(c)
        BY <2>1, <3>3, ExitStep DEF Die, Active
      <3> QED
        BY <2>4, <3>1, <3>2, <3>3 DEF Continues
    <2>5. ASSUME NEW c \in Cores, Call(c)
          PROVE  PInv'
      <3>1. CASE Yield(c)
        BY <2>1, <3>1, YieldStep
      <3>2. CASE Exit(c)
        BY <2>1, <3>2, MakesActive, ExitStep DEF Exit
      <3>3. CASE WmSpawn(c) \/ \E ok \in BOOLEAN : Spawn(c, ok)
        BY <2>1, <3>3, SpawnStep
      <3>4. CASE KeyWait(c) \/ \E n \in 1..MaxSleep : Sleep(c, n)
        BY <2>1, <3>4, SleepStep
      <3>5. CASE \E ok \in BOOLEAN : ThreadCreate(c, ok)
        BY <2>1, <3>5, ThreadStep
      <3>6. CASE \E pid \in Pids : Kill(c, pid) \/ Suspend(c, pid) \/ Continue(c, pid)
        BY <2>1, <3>6, KillStep, StopStep
      <3>7. \A pid \in Pids \cup {-1} : pid \in -1..MaxPid
        BY Machine DEF Pids, PInv, Types
      <3>8. ASSUME NEW pid \in Pids, Join(c, pid)
            PROVE  PInv'
        BY <2>1, <3>7, <3>8, MakesActive, JoinStep DEF Join
      <3>9. ASSUME NEW pid \in Pids \cup {-1}, Wait(c, pid)
            PROVE  PInv'
        BY <2>1, <3>7, <3>9, MakesActive, WaitStep DEF Wait
      <3> QED
        BY <2>5, <3>1, <3>2, <3>3, <3>4, <3>5, <3>6, <3>8, <3>9 DEF Call
    <2> QED
      BY <1>2, <2>2, <2>3, <2>4, <2>5 DEF Next
  <1> QED
    BY <1>1, <1>2

\* The inductive invariant holds in every reachable state of every machine:
\* any number of cores, slots and pids, and any set of system calls.
THEOREM ProcessInvariant == Spec => []PInv
  <1>1. Init => PInv
    BY InitPInv
  <1>2. PInv /\ [Next]_<<setup, vars>> => PInv'
    BY NextPInv
  <1> QED
    BY <1>1, <1>2, PTL DEF Spec

\* The invariant gives Exclusive.
LEMMA PInvExclusive ==
    ASSUME PInv
    PROVE  Exclusive
  <1>1. TypeOK
    <2>1. \A a \in Pids : refs[a] \in Nat /\ refs[a] <= MaxProcs /\ MaxProcs \in Nat
      BY HoldsFinite, HoldsNow, Machine DEF PInv, Types
    <2>2. refs \in [Pids -> 0..MaxProcs]
      BY <2>1 DEF PInv, Types
    <2> QED
      BY <2>2 DEF PInv, Types, TypeOK
  <1>2. StackExclusive
    <2> SUFFICES ASSUME NEW c \in Cores, on[c] # None
                 PROVE  /\ proc[on[c]].state \in (IF mode[c] = "exiting" THEN {"zombie", "unused"}
                                                                        ELSE {"running"})
                        /\ \A d \in Cores : c # d => on[c] # on[d]
      BY DEF StackExclusive
    <2>1. \A d \in Cores : on[d] # None =>
            \/ mode[d] = "exiting" /\ proc[on[d]].state \in {"zombie", "unused"}
            \/ /\ mode[d] \in {"user", "kernel"} /\ on[d] = current[d]
               /\ proc[on[d]].state = "running" /\ current[d] # None
      BY Machine DEF PInv, Types, Cpus, CpuAt, RunningOnce
    <2>2. ASSUME NEW d \in Cores, c # d, on[c] = on[d]
          PROVE  FALSE
      <3>1. CASE mode[c] = "exiting"
        BY <2>1, <2>2, <3>1 DEF PInv, OneLock, HasLock
      <3>2. CASE mode[c] # "exiting"
        BY <2>1, <2>2, <3>2 DEF PInv, RunningOnce
      <3> QED
        BY <3>1, <3>2
    <2> QED
      BY <2>1, <2>2
  <1> QED
    BY <1>1, <1>2 DEF Exclusive, PInv

\* Every core that stands in an address space is sent to a holder of it: the
\* process it runs or, for the one core that may be in its loop, a process that
\* nobody runs.  No two are sent to the same one.
LEMMA PInvTables ==
    ASSUME PInv, NEW a \in Pids
    PROVE  Cardinality({c \in Cores : cr3[c] = a}) <= refs[a]
  <1> DEFINE S == {c \in Cores : cr3[c] = a}
             H == Holds(Slots, proc, a)
  <1>1. a # 0 /\ setup \in Setups
    BY Machine DEF PInv, Types, Pids
  <1>2. \A c \in S : mode[c] \in {"user", "kernel", "loop"}
    BY <1>1 DEF PInv, Types, Cpus, CpuAt
  <1>3. PICK w : (\E c \in S : mode[c] = "loop") =>
                   w \in Slots /\ proc[w].state \in {"ready", "blocked"} /\ proc[w].as = a
    BY <1>1 DEF PInv, Cpus, CpuAt
  <1> DEFINE h == [c \in S |-> IF mode[c] = "loop" THEN w ELSE current[c]]
  <1>4. \A c \in S : mode[c] # "loop" =>
          /\ current[c] \in Slots /\ proc[current[c]].state = "running"
          /\ proc[current[c]].as = a /\ current[c] # None
    BY <1>1, <1>2, Machine DEF PInv, Cpus, CpuAt, RunningOnce
  <1>5. \A c \in S : h[c] \in H
    BY <1>3, <1>4 DEF Holds
  <1>6. \A c, d \in S : h[c] = h[d] => c = d
    <2> SUFFICES ASSUME NEW c \in S, NEW d \in S, h[c] = h[d], c # d
                 PROVE  FALSE
      OBVIOUS
    <2>1. CASE mode[c] = "loop" /\ mode[d] = "loop"
      BY <2>1 DEF PInv, OneLock, HasLock
    <2>2. CASE mode[c] # "loop" /\ mode[d] # "loop"
      BY <1>4, <2>2 DEF PInv, RunningOnce
    <2>3. CASE (mode[c] = "loop") # (mode[d] = "loop")
      BY <1>3, <1>4, <2>3
    <2> QED
      BY <2>1, <2>2, <2>3
  <1>7. h \in Injection(S, H)
    BY <1>5, <1>6 DEF Injection, IsInjective
  <1>8. IsFiniteSet(H)
    BY <1>1, HoldsFinite
  <1> HIDE DEF S, H, h
  <1>9. Cardinality(S) <= Cardinality(H)
    BY <1>7, <1>8, FS_Injection
  <1> QED
    BY <1>9, HoldsNow DEF PInv, S, H

\* One core to a process and one process to a kernel stack, and the count of
\* an address space never below zero, with any number of cores (pick_next,
\* sched_on_tick, block_current, process_notify_exit).
THEOREM ProcessExclusive == Spec => []Exclusive
  <1>1. PInv => Exclusive
    BY PInvExclusive
  <1> QED
    BY <1>1, ProcessInvariant, PTL

\* An address space is counted by its holders, and no core ever stands in page
\* tables that have fewer holders than cores standing in them
\* (reap_dead_threads, vmm_space_unref, cpu_loop).
THEOREM ProcessSpacesHeld == Spec => []SpacesHeld
  <1>1. PInv => SpacesHeld
    BY PInvTables DEF SpacesHeld, TablesHeld, PInv
  <1> QED
    BY <1>1, ProcessInvariant, PTL

\* Nobody sleeps through the end of the child or thread it waits for
\* (process_wait, process_thread_join, wake_parent_of, wake_joiners_of).
THEOREM ProcessNoLostWake == Spec => []NoLostWake
  <1>1. PInv => NoLostWake
    BY DEF PInv
  <1> QED
    BY <1>1, ProcessInvariant, PTL
=============================================================================
