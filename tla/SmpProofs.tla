----------------------------- MODULE SmpProofs -----------------------------
(***************************************************************************)
(* Proofs about module Smp, for any number of cores and of jobs.           *)
(*                                                                         *)
(* The pool (RightJob, JobWhole) rests on JInv: a core that is not in the  *)
(* kernel may be anywhere in run_shares, also inside the shares of a job   *)
(* that has ended (Idles), and what it may still do there is harmless as   *)
(* long as job_next stays spent until the next job is described            *)
(* (Described); once it is open, the shares handed out, done and counted   *)
(* are exactly accounted for (Shared).  This holds whether or not a core   *)
(* may start late.  OwnBlock needs OwnInv as well, and needs a core that   *)
(* was given up to stay off.                                               *)
(***************************************************************************)
EXTENDS Smp, TLAPS, FiniteSetTheorems

----------------------------------------------------------------------------
(* The inductive invariant.                                                *)

\* Where a core is that has not reported in; inside run_shares; without the
\* lock; with it.
Away == {"off", "dead", "tramp", "entry", "online"}
Helping == {"claim", "cmp", "fetch", "run", "count"}
Loose == Away \cup {"user", "hlt", "unhalt", "look", "after", "doze"} \cup Helping
Held == {"boot", "await", "kernel", "arg", "n", "done", "next", "active", "wake", "wait"}
          \cup Helping

Booting == pc[0] \in {"boot", "await"}

\* smp_run has begun and has not opened the shares; has opened them.
Setting == owner # Nobody /\ pc[owner] \in {"arg", "n", "done", "next"}
Open == owner # Nobody /\ pc[owner] \in {"active", "wake", "wait"} \cup Helping

Up == {c \in Aps : pc[c] \notin Away}

\* The lock and the place in the code agree.
Places ==
    /\ owner # Nobody => pc[owner] \in Held
    /\ \A c \in Cores : c # owner => pc[c] \in Loose
    /\ owner # 0 => pc[0] = "user"
    /\ \A c \in Aps : pc[c] \notin {"boot", "await"}

\* smp_init goes through the table in order and counts who reports in.
Boots ==
    /\ Booting => calls = 0 /\ ncpu = 1
    /\ pc[0] = "await" => boot.ap < NAps
    /\ boot.idx <= boot.ap + 1
    /\ online = 1 + Cardinality(Up)
    /\ \A c \in Aps : c > boot.ap /\ ~(pc[0] = "await" /\ c = boot.ap + 1) => pc[c] = "off"

\* Between jobs the shares are spent, or nobody is looking for one.
Idles ==
    ~Open =>
      /\ ~job.active
      /\ \A c \in Cores : /\ pc[c] \notin {"fetch", "run", "count"}
                          /\ pc[c] = "cmp" => mine[c].share >= ncpu
      /\ \/ \A c \in Cores : pc[c] \notin Helping
         \/ job.next >= ncpu /\ job.n = ncpu /\ calls > 0

\* The stores of smp_run, in their order.
Described ==
    Setting \/ Open =>
      /\ ncpu > 1 /\ calls > 0 /\ job.fn = calls /\ ran \in [Shares -> {0, 1}]
      /\ pc[owner] # "arg" => job.arg = calls
      /\ pc[owner] \notin {"arg", "n"} => job.n = ncpu
      /\ pc[owner] = "next" => job.done = 0
      /\ Setting => \A i \in Shares : ran[i] = 0

\* The core has claimed a share that there is; the shares done and counted.
Holding(c) == pc[c] \in {"cmp", "fetch", "run", "count"} /\ mine[c].share < ncpu
Counted == {i \in Shares : ran[i] = 1 /\ \A c \in Cores : pc[c] = "count" => mine[c].share # i}

\* The shares of an open job: claimed by one core each, in order, done once,
\* and counted after they were done.
Shared ==
    Open =>
      /\ job.done = Cardinality(Counted)
      /\ \A i \in Shares : i >= job.next => ran[i] = 0
      /\ \A c \in Cores : pc[c] \in {"fetch", "run", "count"} => mine[c].share < ncpu
      /\ \A c \in Cores : Holding(c) =>
           /\ mine[c].share < job.next
           /\ pc[c] = "count" => ran[mine[c].share] = 1
           /\ pc[c] # "count" => ran[mine[c].share] = 0
           /\ pc[c] = "run" => mine[c].fn = calls /\ mine[c].arg = calls
           /\ \A d \in Cores : Holding(d) /\ c # d => mine[c].share # mine[d].share

Pool == Idles /\ Described /\ Shared /\ JobWhole
JInv == TypeOK /\ Places /\ Boots /\ Pool

----------------------------------------------------------------------------
(* Facts about a state.                                                    *)

\* The numbers of the cores.
LEMMA CoreFacts ==
    /\ Aps \subseteq Cores /\ 0 \in Cores /\ 0 \notin Aps /\ Nobody \notin Cores
    /\ Cores \subseteq Nat /\ NAps \in Nat /\ \A c \in Cores : c # 0 => c \in Aps
    /\ IsFiniteSet(Aps) /\ Cardinality(Aps) = NAps
  <1>1. NAps \in Nat
    BY SmpAssumption
  <1>2. IsFiniteSet(1..NAps) /\ Cardinality(1..NAps) = NAps
    BY <1>1, FS_Interval
  <1> QED
    BY <1>1, <1>2 DEF Aps, Cores, Nobody

\* How many have reported in is a number the table bounds.
LEMMA UpFacts ==
    IsFiniteSet(Up) /\ Cardinality(Up) \in 0..NAps /\ Up \subseteq Aps
  <1>1. Up \subseteq Aps
    BY DEF Up
  <1>2. IsFiniteSet(Up) /\ Cardinality(Up) <= Cardinality(Aps)
    BY <1>1, CoreFacts, FS_Subset
  <1>3. Cardinality(Up) \in Nat
    BY <1>2, FS_CardinalityType
  <1> QED
    BY <1>1, <1>2, <1>3, CoreFacts

\* The holder of the lock is where only the holder can be.
LEMMA OwnerFacts ==
    ASSUME TypeOK, Places
    PROVE  /\ \A c \in Cores : pc[c] \notin Loose => c = owner
           /\ Booting => owner = 0
           /\ Open => ~Setting /\ InJob
           /\ Setting => InJob
           /\ \A c \in Cores : pc[c] = "kernel" => ~Open /\ ~Setting /\ ~InJob /\ c = owner
           /\ Booting => ~Open /\ ~Setting /\ ~InJob
           /\ owner = Nobody => ~Open /\ ~Setting /\ ~InJob
  <1>1. \A c \in Cores : pc[c] \notin Loose => c = owner
    BY DEF Places
  <1>2. Booting => owner = 0
    BY <1>1, CoreFacts DEF Booting, Loose, Away, Helping
  <1>3. \A c \in Cores : pc[c] = "kernel" => c = owner
    BY <1>1 DEF Loose, Away, Helping
  <1> QED
    BY <1>1, <1>2, <1>3, CoreFacts DEF Open, Setting, InJob, Helping, Booting, Places

\* The shares of a job are as many as the cores.
LEMMA ShareFacts ==
    ASSUME TypeOK
    PROVE  /\ IsFiniteSet(Shares) /\ Cardinality(Shares) = ncpu /\ Shares \subseteq Nat
           /\ ncpu \in Nat \ {0} /\ ncpu <= Spent /\ Spent \in Nat
           /\ IsFiniteSet(Counted) /\ Cardinality(Counted) \in Nat /\ Cardinality(Counted) <= ncpu
  <1>1. ncpu \in Nat \ {0} /\ ncpu <= Spent /\ Spent \in Nat
    BY CoreFacts DEF TypeOK, Spent
  <1>2. PICK m \in Int : m = ncpu - 1
    BY <1>1
  <1>3. IsFiniteSet(0..m) /\ Cardinality(0..m) = m - 0 + 1
    BY <1>1, <1>2, FS_Interval
  <1>4. IsFiniteSet(Shares) /\ Cardinality(Shares) = ncpu /\ Shares \subseteq Nat
    BY <1>1, <1>2, <1>3 DEF Shares
  <1>5. Counted \subseteq Shares
    BY DEF Counted
  <1> QED
    BY <1>1, <1>4, <1>5, FS_Subset, FS_CardinalityType

----------------------------------------------------------------------------
(* A core moves on.                                                        *)

\* What a step of one core that is up does to the places and to the boot.
LEMMA CoreMove ==
    ASSUME JInv, NEW c \in Cores, NEW l \in Labels, pc' = [pc EXCEPT ![c] = l],
           UNCHANGED bootVars,
           l \notin Away \cup {"boot", "await"}, pc[c] \notin Away \cup {"boot", "await"},
           calls' = calls \/ ~Booting,
           \/ owner' = owner
           \/ owner = Nobody /\ owner' = c
           \/ owner = c /\ owner' = Nobody,
           owner' = c => l \in Held, owner' # c => l \in Loose /\ (c = 0 => l = "user")
    PROVE  /\ Places' /\ Boots' /\ pc' \in [Cores -> Labels] /\ owner' \in Cores \cup {Nobody}
           /\ pc'[c] = l /\ \A d \in Cores : d # c => pc'[d] = pc[d]
  <1>1. pc' \in [Cores -> Labels] /\ pc'[c] = l /\ \A d \in Cores : d # c => pc'[d] = pc[d]
    BY DEF JInv, TypeOK
  <1>2. owner' \in Cores \cup {Nobody}
    BY DEF JInv, TypeOK
  <1>3. /\ (pc'[0] = "await") <=> (pc[0] = "await")
        /\ Booting' <=> Booting
        /\ \A d \in Aps : /\ pc'[d] \in Away <=> pc[d] \in Away
                          /\ pc[d] = "off" => pc'[d] = "off"
    BY <1>1, CoreFacts DEF Away, Booting
  <1>4. Up' = Up
    BY <1>3 DEF Up, Aps
  <1>5. Boots'
    BY <1>3, <1>4 DEF JInv, Boots, bootVars, Booting, Aps
  <1>6. Places'
    <2>1. owner' # Nobody => pc'[owner'] \in Held
      BY <1>1, <1>2, CoreFacts DEF JInv, Places, TypeOK
    <2>2. ASSUME NEW d \in Cores, d # owner'
          PROVE  pc'[d] \in Loose
      BY <1>1, <2>2, CoreFacts DEF JInv, Places
    <2>3. /\ owner' # 0 => pc'[0] = "user"
          /\ \A d \in Aps : pc'[d] \notin {"boot", "await"}
      BY <1>1, CoreFacts DEF JInv, Places
    <2> QED
      BY <2>1, <2>2, <2>3 DEF Places, Aps, Cores
  <1> QED
    BY <1>1, <1>2, <1>5, <1>6

\* A step outside run_shares and smp_run, or one that only comes to look.
LEMMA PoolQuiet ==
    ASSUME JInv, UNCHANGED <<poolVars, ncpu>>,
           Open' <=> Open, Setting' <=> Setting, InJob' <=> InJob,
           Setting \/ Open => /\ owner' = owner
                              /\ pc'[owner] = "arg" <=> pc[owner] = "arg"
                              /\ pc'[owner] = "n" <=> pc[owner] = "n"
                              /\ pc'[owner] = "next" <=> pc[owner] = "next",
           \A c \in Cores : \/ pc'[c] = pc[c]
                            \/ /\ pc[c] \notin {"cmp", "fetch", "run", "count"}
                               /\ pc'[c] \notin {"cmp", "fetch", "run", "count"}
                               /\ pc'[c] = "claim" => Open
    PROVE  Pool'
  <1>1. /\ Shares' = Shares
        /\ \A c \in Cores : /\ Holding(c)' <=> Holding(c)
                            /\ \A l \in {"cmp", "fetch", "run", "count"} : pc'[c] = l <=> pc[c] = l
                            /\ pc'[c] \in Helping => pc[c] \in Helping \/ Open
    BY DEF Shares, Holding, poolVars, Helping
  <1>2. Counted' = Counted
    BY <1>1 DEF Counted, poolVars
  <1>3. Idles'
    BY <1>1 DEF JInv, Pool, Idles, poolVars
  <1>4. Described'
    BY <1>1 DEF JInv, Pool, Described, poolVars
  <1>5. Shared'
    BY <1>1, <1>2 DEF JInv, Pool, Shared, poolVars
  <1>6. JobWhole'
    BY DEF JInv, Pool, JobWhole, poolVars
  <1> QED
    BY <1>3, <1>4, <1>5, <1>6 DEF Pool

----------------------------------------------------------------------------
(* Steps that leave the pool alone.                                        *)

\* A core that does not have the lock moves about outside run_shares, or goes
\* to look for a share of a job that is active.
LEMMA RoamStep ==
    ASSUME JInv, NEW c \in Cores, c # owner, NEW l \in Labels, pc' = [pc EXCEPT ![c] = l],
           owner' = owner, UNCHANGED <<bootVars, poolVars>>,
           pc[c] \in {"hlt", "unhalt", "look", "after", "doze"},
           l \in {"user", "hlt", "unhalt", "look", "after", "doze", "claim"},
           l = "claim" => job.active,
           scheduling' \in BOOLEAN, joined' \subseteq Aps,
           halted' \in [Cores -> BOOLEAN], wake' \in [Cores -> BOOLEAN]
    PROVE  JInv'
  <1>1. l \notin Away \cup {"boot", "await"} /\ pc[c] \notin Away \cup {"boot", "await"} /\ l \in Loose
    BY DEF Away, Loose, Helping
  <1>2. calls' = calls /\ c # 0
    BY DEF poolVars, JInv, Places
  <1>3. /\ Places' /\ Boots' /\ pc' \in [Cores -> Labels]
        /\ pc'[c] = l /\ \A d \in Cores : d # c => pc'[d] = pc[d]
    BY <1>1, <1>2, CoreMove
  <1>4. owner \in Cores \/ owner = Nobody
    BY DEF JInv, TypeOK
  <1>5. owner # Nobody => pc'[owner] = pc[owner]
    BY <1>3, <1>4
  <1>6. /\ Open' <=> Open
        /\ Setting' <=> Setting
        /\ InJob' <=> InJob
    BY <1>5 DEF Open, Setting, InJob
  <1>7. job.active => Open
    BY DEF JInv, Pool, Idles
  <1>8. Pool'
    <2>1. Setting \/ Open => owner # Nobody
      BY DEF Setting, Open
    <2>2. Setting \/ Open => pc'[owner] = pc[owner]
      BY <1>5, <2>1
    <2>3. \A d \in Cores : \/ pc'[d] = pc[d]
                           \/ /\ pc[d] \notin {"cmp", "fetch", "run", "count"}
                              /\ pc'[d] \notin {"cmp", "fetch", "run", "count"}
                              /\ pc'[d] = "claim" => Open
      BY <1>3, <1>7
    <2>4. UNCHANGED <<poolVars, ncpu>>
      BY DEF bootVars
    <2> QED
      BY <1>6, <2>2, <2>3, <2>4, PoolQuiet
  <1>9. TypeOK'
    BY <1>3 DEF JInv, TypeOK, bootVars, poolVars
  <1> QED
    BY <1>3, <1>8, <1>9 DEF JInv

\* A core takes the lock or leaves it.
LEMMA LockStep ==
    ASSUME JInv, NEW c \in Cores, NEW l \in Labels, pc' = [pc EXCEPT ![c] = l],
           UNCHANGED <<bootVars, poolVars>>,
           \/ /\ owner = Nobody /\ owner' = c /\ l = "kernel" /\ pc[c] \in {"user", "after"}
           \/ /\ pc[c] = "kernel" /\ owner' = Nobody /\ l \in {"user", "hlt"}
              /\ c = 0 => l = "user",
           scheduling' \in BOOLEAN, joined' \subseteq Aps,
           halted' \in [Cores -> BOOLEAN], wake' \in [Cores -> BOOLEAN]
    PROVE  JInv'
  <1>0. pc[c] = "kernel" => c = owner /\ ~Open /\ ~Setting /\ ~InJob
    BY OwnerFacts DEF JInv
  <1>1. /\ l \notin Away \cup {"boot", "await"} /\ pc[c] \notin Away \cup {"boot", "await"}
        /\ owner' = c => l \in Held
        /\ owner' # c => l \in Loose /\ (c = 0 => l = "user")
    BY <1>0, CoreFacts DEF Away, Loose, Held
  <1>2. calls' = calls
    BY DEF poolVars
  <1>a. \/ owner = Nobody /\ owner' = c
        \/ owner = c /\ owner' = Nobody
    BY <1>0
  <1>3. /\ Places' /\ Boots' /\ pc' \in [Cores -> Labels] /\ owner' \in Cores \cup {Nobody}
        /\ pc'[c] = l /\ \A d \in Cores : d # c => pc'[d] = pc[d]
    BY <1>1, <1>2, <1>a, CoreMove
  <1>4. ~Open /\ ~Setting /\ ~InJob
    BY <1>0 DEF Open, Setting, InJob
  <1>5. ~Open' /\ ~Setting' /\ ~InJob'
    <2>1. CASE owner' = Nobody
      BY <2>1 DEF Open, Setting, InJob, Nobody
    <2>2. CASE owner' = c /\ l = "kernel"
      BY <1>3, <2>2 DEF Open, Setting, InJob, Helping
    <2> QED
      BY <2>1, <2>2
  <1>6. Pool'
    <2>1. \A d \in Cores : \/ pc'[d] = pc[d]
                           \/ /\ pc[d] \notin {"cmp", "fetch", "run", "count"}
                              /\ pc'[d] \notin {"cmp", "fetch", "run", "count"}
                              /\ pc'[d] = "claim" => Open
      BY <1>3
    <2>2. UNCHANGED <<poolVars, ncpu>>
      BY DEF bootVars
    <2> QED
      BY <1>4, <1>5, <2>1, <2>2, PoolQuiet
  <1>7. TypeOK'
    BY <1>3 DEF JInv, TypeOK, bootVars, poolVars
  <1> QED
    BY <1>3, <1>6, <1>7 DEF JInv

\* The idle loop, ap_entry, process_ap_run, and the lock.
LEMMA IdleStep ==
    ASSUME JInv, NEW c \in Cores,
           \/ Roused(c) \/ Unhalt(c) \/ Look(c) \/ TryEnter(c) \/ Join(c) \/ Doze(c)
           \/ Ticked(c) \/ Enter(c) \/ LetGo(c) \/ GoIdle(c)
    PROVE  JInv'
  <1>1. /\ scheduling \in BOOLEAN /\ joined \subseteq Aps
        /\ halted \in [Cores -> BOOLEAN] /\ wake \in [Cores -> BOOLEAN]
    BY DEF JInv, TypeOK
  <1>2. pc[c] \in {"user", "hlt", "unhalt", "look", "after", "doze"} => c # owner
    BY CoreFacts DEF JInv, Places, Held, Helping
  <1>3. {"user", "hlt", "unhalt", "look", "after", "doze", "claim", "kernel"} \subseteq Labels
    BY DEF Labels
  <1>4. CASE Roused(c) \/ Ticked(c)
    BY <1>1, <1>2, <1>3, <1>4, RoamStep DEF Roused, Ticked, LeaveHlt, Goto
  <1>5. CASE Unhalt(c)
    BY <1>1, <1>2, <1>3, <1>5, RoamStep DEF Unhalt, Goto
  <1>6. CASE Look(c)
    <2>1. PICK l \in {"claim", "after"} :
            pc' = [pc EXCEPT ![c] = l] /\ (l = "claim" => job.active)
      BY <1>6 DEF Look, Goto
    <2> QED
      BY <1>1, <1>2, <1>3, <1>6, <2>1, RoamStep DEF Look, idleVars
  <1>7. CASE TryEnter(c)
    <2>1. CASE owner = Nobody
      BY <1>1, <1>3, <1>7, <2>1, LockStep DEF TryEnter, Goto
    <2>2. CASE owner # Nobody
      BY <1>1, <1>2, <1>3, <1>7, <2>2, RoamStep DEF TryEnter, Goto
    <2> QED
      BY <2>1, <2>2
  <1>8. CASE Join(c)
    <2>1. c \in Aps
      BY <1>2, <1>8, CoreFacts DEF Join, JInv, Places
    <2>2. PICK l \in {"user", "doze"} : pc' = [pc EXCEPT ![c] = l]
      BY <1>8 DEF Join, Goto
    <2>3. joined' \subseteq Aps
      BY <1>1, <1>8, <2>1 DEF Join
    <2> QED
      BY <1>1, <1>2, <1>3, <1>8, <2>2, <2>3, RoamStep DEF Join
  <1>9. CASE Doze(c)
    BY <1>1, <1>2, <1>3, <1>9, RoamStep DEF Doze, Goto
  <1>10. CASE Enter(c)
    BY <1>1, <1>3, <1>10, LockStep DEF Enter, Goto, idleVars
  <1>11. CASE LetGo(c)
    BY <1>1, <1>3, <1>11, LockStep DEF LetGo, Goto, idleVars
  <1>12. CASE GoIdle(c)
    BY <1>1, <1>3, <1>12, LockStep DEF GoIdle, Goto
  <1> QED
    BY <1>4, <1>5, <1>6, <1>7, <1>8, <1>9, <1>10, <1>11, <1>12

----------------------------------------------------------------------------
(* The bring-up.                                                           *)

\* A step of smp_init or of a core on its way up: nobody who matters to the
\* pool moves.
LEMMA BootPool ==
    ASSUME JInv, UNCHANGED <<owner, poolVars, ncpu>>,
           \A c \in Cores : \/ pc'[c] = pc[c]
                            \/ /\ pc[c] \in Away \cup {"boot", "await"}
                               /\ pc'[c] \in Away \cup {"boot", "await", "look"}
                               /\ c = owner => pc'[c] \in {"boot", "await"}
    PROVE  Pool'
  <1>1. owner \in Cores \/ owner = Nobody
    BY DEF JInv, TypeOK
  <1>2. owner # Nobody =>
          \/ pc'[owner] = pc[owner]
          \/ pc[owner] \in {"boot", "await"} /\ pc'[owner] \in {"boot", "await"}
    BY <1>1 DEF JInv, Places, Held, Away, Helping
  <1>3. /\ Open' <=> Open
        /\ Setting' <=> Setting
        /\ InJob' <=> InJob
    BY <1>2 DEF Open, Setting, InJob, Helping
  <1>4. Setting \/ Open => owner # Nobody /\ pc[owner] \notin {"boot", "await"}
    BY DEF Setting, Open, Helping
  <1>5. Setting \/ Open => pc'[owner] = pc[owner]
    BY <1>2, <1>4
  <1>6. \A d \in Cores : \/ pc'[d] = pc[d]
                         \/ /\ pc[d] \notin {"cmp", "fetch", "run", "count"}
                            /\ pc'[d] \notin {"cmp", "fetch", "run", "count"}
                            /\ pc'[d] = "claim" => Open
    BY DEF Away
  <1> QED
    BY <1>3, <1>5, <1>6, PoolQuiet

\* smp_init, up to its last core.
LEMMA BootStep ==
    ASSUME JInv, BootNext \/ BootSkip \/ BootDone \/ BootTimeout
    PROVE  JInv'
  <1>1. /\ 0 \in Cores /\ NAps \in Nat /\ boot.ap \in 0..NAps /\ boot.idx \in 1..(NAps + 1)
        /\ online \in 1..(NAps + 1) /\ pc \in [Cores -> Labels]
        /\ boot \in [ap : 0..NAps, idx : 1..(NAps + 1), before : 1..(NAps + 1)]
    BY CoreFacts DEF JInv, TypeOK
  <1>2. Booting /\ owner = 0 /\ boot.ap < NAps /\ boot.idx <= boot.ap + 1
    BY OwnerFacts DEF JInv, Boots, BootNext, BootSkip, BootDone, BootTimeout, Booting
  <1>3. UNCHANGED <<owner, stack, block, online, ncpu, idleVars, poolVars>>
    BY DEF BootNext, BootSkip, BootDone, BootTimeout
  <1>4. boot.ap + 1 \in Aps /\ boot.ap + 1 \in Cores /\ boot.ap + 1 # 0
    BY <1>1, <1>2 DEF Aps, Cores
  <1>5. CASE BootNext
    <2>1. PICK l \in {"tramp", "dead"} : pc' = [pc EXCEPT ![0] = "await", ![boot.ap + 1] = l]
      BY <1>5 DEF BootNext
    <2>2. /\ pc'[0] = "await" /\ pc'[boot.ap + 1] = l /\ pc[0] = "boot"
          /\ \A d \in Cores : d # 0 /\ d # boot.ap + 1 => pc'[d] = pc[d]
          /\ pc' \in [Cores -> Labels]
      BY <1>1, <1>4, <1>5, <2>1 DEF BootNext, Labels
    <2>3. pc[boot.ap + 1] = "off"
      BY <1>1, <1>4, <2>2 DEF JInv, Boots
    <2>4. Pool'
      <3>1. \A c \in Cores : \/ pc'[c] = pc[c]
                             \/ /\ pc[c] \in Away \cup {"boot", "await"}
                                /\ pc'[c] \in Away \cup {"boot", "await", "look"}
                                /\ c = owner => pc'[c] \in {"boot", "await"}
        BY <1>2, <1>4, <2>2, <2>3 DEF Away
      <3> QED
        BY <1>3, <3>1, BootPool
    <2>5. boot' = [boot EXCEPT !.before = online]
      BY <1>5 DEF BootNext
    <2>6. boot'.ap = boot.ap /\ boot'.idx = boot.idx
      BY <1>1, <2>5
    <2>7. Up' = Up
      BY <2>2, <2>3, CoreFacts DEF Up, Away
    <2>8. Boots'
      BY <1>2, <1>3, <2>2, <2>6, <2>7, CoreFacts DEF JInv, Boots, Booting, poolVars
    <2>9. Places'
      BY <1>2, <1>3, <1>4, <2>2, CoreFacts DEF JInv, Places, Held, Loose, Away
    <2>10. tramp' = [stack |-> boot.ap + 1, block |-> boot.idx] /\ boot.idx \in 0..NAps
      BY <1>1, <1>2, <1>5 DEF BootNext
    <2>11. TypeOK'
      BY <1>1, <1>3, <1>4, <2>2, <2>5, <2>10 DEF JInv, TypeOK, idleVars, poolVars, Aps
    <2> QED
      BY <2>4, <2>8, <2>9, <2>11 DEF JInv
  <1>6. CASE BootSkip \/ BootDone \/ BootTimeout
    <2>1. /\ pc'[0] = "boot" /\ \A d \in Cores : d # 0 => pc'[d] = pc[d]
          /\ pc' \in [Cores -> Labels] /\ tramp' = tramp
          /\ boot' = [boot EXCEPT !.ap = @ + 1] \/ boot' = [boot EXCEPT !.ap = @ + 1, !.idx = @ + 1]
      BY <1>1, <1>6 DEF BootSkip, BootDone, BootTimeout, Goto, Labels
    <2>2. Pool'
      <3>1. \A c \in Cores : \/ pc'[c] = pc[c]
                             \/ /\ pc[c] \in Away \cup {"boot", "await"}
                                /\ pc'[c] \in Away \cup {"boot", "await", "look"}
                                /\ c = owner => pc'[c] \in {"boot", "await"}
        BY <1>2, <2>1 DEF Booting
      <3> QED
        BY <1>3, <3>1, BootPool
    <2>3. /\ boot' \in [ap : 0..NAps, idx : 1..(NAps + 1), before : 1..(NAps + 1)]
          /\ boot'.ap = boot.ap + 1 /\ boot'.idx <= boot'.ap + 1
      <3>1. /\ boot.ap + 1 \in 0..NAps /\ boot.idx + 1 \in 1..(NAps + 1)
            /\ boot.idx \in Int /\ boot.ap \in Int
        BY <1>1, <1>2
      <3>2. CASE boot' = [boot EXCEPT !.ap = @ + 1]
        BY <1>1, <1>2, <3>1, <3>2
      <3>3. CASE boot' = [boot EXCEPT !.ap = @ + 1, !.idx = @ + 1]
        <4>1. PICK a \in 0..NAps, i \in 1..(NAps + 1) : a = boot.ap + 1 /\ i = boot.idx + 1
          BY <3>1
        <4>2. boot' = [boot EXCEPT !.ap = a, !.idx = i]
          BY <3>3, <4>1
        <4>3. /\ boot' \in [ap : 0..NAps, idx : 1..(NAps + 1), before : 1..(NAps + 1)]
              /\ boot'.ap = a /\ boot'.idx = i
          BY <1>1, <4>2
        <4> QED
          BY <1>2, <3>1, <4>1, <4>3
      <3> QED
        BY <2>1, <3>2, <3>3
    <2>4. Up' = Up
      BY <2>1, CoreFacts DEF Up
    <2>5. Boots'
      <3>1. \A d \in Aps : d > boot'.ap => pc'[d] = "off"
        BY <1>1, <2>1, <2>3, CoreFacts DEF JInv, Boots, Aps
      <3>2. /\ Booting' => calls' = 0 /\ ncpu' = 1
            /\ online' = 1 + Cardinality(Up')
        BY <1>2, <1>3, <2>4 DEF JInv, Boots, poolVars
      <3> QED
        BY <2>1, <2>3, <3>1, <3>2 DEF Boots
    <2>6. Places'
      BY <1>2, <1>3, <2>1, CoreFacts DEF JInv, Places, Held
    <2>7. TypeOK'
      BY <1>1, <1>3, <2>1, <2>3 DEF JInv, TypeOK, idleVars, poolVars
    <2> QED
      BY <2>2, <2>5, <2>6, <2>7 DEF JInv
  <1> QED
    BY <1>5, <1>6

\* The trampoline and ap_entry up to where the core reports in.
LEMMA ApStep ==
    ASSUME JInv, NEW c \in Aps, ApStack(c) \/ ApEntry(c) \/ ApOnline(c)
    PROVE  JInv'
  <1>1. PICK l \in {"entry", "online", "look"} :
          /\ pc' = [pc EXCEPT ![c] = l] /\ pc[c] \in {"tramp", "entry", "online"}
          /\ l = "look" <=> pc[c] = "online"
          /\ online' = IF l = "look" THEN online + 1 ELSE online
    BY DEF ApStack, ApEntry, ApOnline, Goto
  <1>2. c \in Cores /\ c # 0 /\ c # owner
    BY <1>1, CoreFacts DEF JInv, Places, Held, Helping
  <1>3. /\ pc' \in [Cores -> Labels] /\ pc'[c] = l
        /\ \A d \in Cores : d # c => pc'[d] = pc[d]
    BY <1>1, <1>2 DEF JInv, TypeOK, Labels
  <1>4. UNCHANGED <<owner, boot, tramp, ncpu, idleVars, poolVars>>
    BY DEF ApStack, ApEntry, ApOnline
  <1>5. Pool'
    <2>1. \A d \in Cores : \/ pc'[d] = pc[d]
                           \/ /\ pc[d] \in Away \cup {"boot", "await"}
                              /\ pc'[d] \in Away \cup {"boot", "await", "look"}
                              /\ d = owner => pc'[d] \in {"boot", "await"}
      BY <1>1, <1>2, <1>3 DEF Away
    <2> QED
      BY <1>4, <2>1, BootPool
  <1>6. online' = 1 + Cardinality(Up')
    <2>1. IsFiniteSet(Up) /\ Cardinality(Up) \in Nat /\ online = 1 + Cardinality(Up)
      BY UpFacts DEF JInv, Boots
    <2>2. CASE l = "look"
      <3>1. Up' = Up \cup {c} /\ c \notin Up
        BY <1>1, <1>3, <2>2, CoreFacts DEF Up, Away
      <3> QED
        <4>1. Cardinality(Up \cup {c}) = Cardinality(Up) + 1
          BY <2>1, <3>1, FS_AddElement
        <4>2. Cardinality(Up') = Cardinality(Up \cup {c})
          BY <3>1
        <4>3. online' = online + 1
          BY <1>1, <2>2
        <4> QED
          BY <2>1, <4>1, <4>2, <4>3
    <2>3. CASE l # "look"
      <3>1. Up' = Up
        BY <1>1, <1>3, <2>3, CoreFacts DEF Up, Away
      <3> QED
        BY <1>1, <2>1, <2>3, <3>1
    <2> QED
      BY <2>2, <2>3
  <1>7. Boots'
    <2>1. pc'[0] = pc[0] /\ \A d \in Aps : pc[d] = "off" => pc'[d] = "off"
      BY <1>1, <1>2, <1>3, CoreFacts
    <2> QED
      BY <1>4, <1>6, <2>1 DEF JInv, Boots, Booting, poolVars
  <1>8. Places'
    <2>1. owner # Nobody => pc'[owner] = pc[owner]
      BY <1>2, <1>3 DEF JInv, TypeOK
    <2> QED
      BY <1>1, <1>2, <1>3, <1>4, <2>1, CoreFacts DEF JInv, Places, Loose, Away
  <1>9. online' \in 1..(NAps + 1)
    <2>1. IsFiniteSet(Up') /\ Cardinality(Up') \in 0..NAps
      <3>1. Up' \subseteq Aps
        BY DEF Up, Aps
      <3>2. IsFiniteSet(Up') /\ Cardinality(Up') <= Cardinality(Aps)
        BY <3>1, CoreFacts, FS_Subset
      <3>3. Cardinality(Up') \in Nat
        BY <3>2, FS_CardinalityType
      <3> QED
        BY <3>2, <3>3, CoreFacts
    <2> QED
      BY <1>6, <2>1, CoreFacts
  <1>10. stack' \in [Cores -> 0..NAps] /\ block' \in [Cores -> 0..NAps]
    BY DEF ApStack, ApEntry, ApOnline, JInv, TypeOK
  <1>11. TypeOK'
    BY <1>3, <1>4, <1>9, <1>10 DEF JInv, TypeOK, idleVars, poolVars
  <1> QED
    BY <1>5, <1>7, <1>8, <1>11 DEF JInv

\* The end of smp_init: ncpu is set, with no job handed out yet.
LEMMA BootEndStep ==
    ASSUME JInv, BootEnd
    PROVE  JInv'
  <1>1. /\ pc[0] = "boot" /\ Booting /\ owner = 0 /\ calls = 0 /\ ~Open /\ ~Setting /\ ~InJob
    BY OwnerFacts DEF JInv, Boots, BootEnd, Booting
  <1>2. /\ pc'[0] = "kernel" /\ \A d \in Cores : d # 0 => pc'[d] = pc[d]
        /\ pc' \in [Cores -> Labels] /\ ncpu' = online
        /\ UNCHANGED <<owner, boot, tramp, stack, block, online, idleVars, poolVars>>
    BY CoreFacts DEF BootEnd, Goto, JInv, TypeOK, Labels
  <1>3. ~Open' /\ ~Setting' /\ ~InJob'
    BY <1>1, <1>2 DEF Open, Setting, InJob, Helping
  <1>4. \A c \in Cores : pc[c] \notin Helping /\ pc'[c] \notin Helping
    BY <1>1, <1>2 DEF JInv, Pool, Idles, Helping
  <1>5. Pool'
    BY <1>1, <1>2, <1>3, <1>4 DEF JInv, Pool, Idles, Described, Shared, JobWhole, poolVars, Helping
  <1>6. Up' = Up
    BY <1>2, CoreFacts DEF Up
  <1>7. Boots'
    BY <1>1, <1>2, <1>6, CoreFacts DEF JInv, Boots, Booting
  <1>8. Places'
    BY <1>1, <1>2, CoreFacts DEF JInv, Places, Held
  <1>9. TypeOK'
    BY <1>2 DEF JInv, TypeOK, idleVars, poolVars
  <1> QED
    BY <1>5, <1>7, <1>8, <1>9 DEF JInv

----------------------------------------------------------------------------
(* smp_run and run_shares.                                                 *)

\* What the types say of the pool.
LEMMA PoolTypes ==
    ASSUME TypeOK
    PROVE  /\ job.next \in 0..Spent /\ job.n \in Nat /\ job.done \in Nat /\ calls \in Nat
           /\ job \in [fn : 0..MaxJobs, arg : 0..MaxJobs, n : 0..(NAps + 1),
                       next : 0..Spent, done : 0..(NAps + 1), active : BOOLEAN]
           /\ mine \in [Cores -> [share : 0..Spent, fn : 0..MaxJobs, arg : 0..MaxJobs]]
           /\ \A c \in Cores : mine[c].share \in 0..Spent /\ mine[c].share \in Nat
           /\ ncpu \in 1..(NAps + 1) /\ Spent = NAps + 1 /\ NAps \in Nat /\ MaxJobs \in Nat
           /\ calls \in 0..MaxJobs
  BY SmpAssumption DEF TypeOK, Spent

\* With one core the function is called directly.
LEMMA RunAloneStep ==
    ASSUME JInv, NEW c \in Cores, RunAlone(c)
    PROVE  JInv'
  <1>1. pc[c] = "kernel" /\ c = owner /\ ~Open /\ ~Setting /\ ~InJob /\ ~Booting
    BY OwnerFacts, CoreFacts DEF JInv, RunAlone, Booting
  <1>2. /\ UNCHANGED <<pc, owner, bootVars, idleVars, job, mine>>
        /\ calls' = calls + 1 /\ calls < MaxJobs /\ ran' = [i \in Shares |-> 1]
    BY DEF RunAlone
  <1>3. calls' \in 0..MaxJobs /\ calls' > 0
    BY <1>2, PoolTypes DEF JInv
  <1>4. ~Open' /\ ~Setting' /\ ~Booting'
    BY <1>1, <1>2 DEF Open, Setting, Booting
  <1>5. Pool'
    <2>1. Idles'
      BY <1>1, <1>2, <1>3 DEF JInv, Pool, Idles, bootVars
    <2>2. JobWhole'
      BY <1>2 DEF JobWhole
    <2> QED
      BY <1>4, <2>1, <2>2 DEF Pool, Described, Shared
  <1>6. TypeOK'
    BY <1>2, <1>3 DEF JInv, TypeOK, bootVars, idleVars
  <1>7. Up' = Up
    BY <1>2 DEF Up
  <1>8. Places' /\ Boots'
    BY <1>2, <1>4, <1>7 DEF JInv, Places, Boots, bootVars
  <1> QED
    BY <1>5, <1>6, <1>8 DEF JInv

\* smp_run begins.
LEMMA SmpRunStep ==
    ASSUME JInv, NEW c \in Cores, SmpRun(c)
    PROVE  JInv'
  <1>1. pc[c] = "kernel" /\ c = owner /\ ~Open /\ ~Setting /\ ~InJob /\ ~Booting /\ owner # Nobody
    BY OwnerFacts, CoreFacts DEF JInv, SmpRun, Booting
  <1>2. /\ UNCHANGED <<owner, bootVars, idleVars, mine>> /\ pc' = [pc EXCEPT ![c] = "arg"]
        /\ calls' = calls + 1 /\ calls < MaxJobs /\ ran' = [i \in Shares |-> 0] /\ ncpu > 1
        /\ job' = [job EXCEPT !.fn = calls']
    BY DEF SmpRun, Goto
  <1>3. calls' \in 0..MaxJobs /\ calls' > 0
    BY <1>2, PoolTypes DEF JInv
  <1>4. /\ job' \in [fn : 0..MaxJobs, arg : 0..MaxJobs, n : 0..(NAps + 1),
                     next : 0..Spent, done : 0..(NAps + 1), active : BOOLEAN]
        /\ job'.fn = calls' /\ job'.n = job.n /\ job'.next = job.next /\ job'.active = job.active
    BY <1>2, <1>3, PoolTypes DEF JInv
  <1>5. /\ Places' /\ Boots' /\ pc' \in [Cores -> Labels] /\ owner' \in Cores \cup {Nobody}
        /\ pc'[c] = "arg" /\ \A d \in Cores : d # c => pc'[d] = pc[d]
    <2>1. "arg" \in Labels /\ "arg" \notin Away \cup {"boot", "await"} /\ "arg" \in Held
          /\ pc[c] \notin Away \cup {"boot", "await"}
      BY <1>1 DEF Labels, Away, Held
    <2> QED
      BY <1>1, <1>2, <2>1, CoreMove
  <1>6. Setting' /\ ~Open' /\ InJob'
    BY <1>1, <1>2, <1>5 DEF Setting, Open, InJob, Helping
  <1>7. Shares' = Shares /\ ncpu' = ncpu
    BY <1>2 DEF Shares, bootVars
  <1>8. Idles'
    BY <1>1, <1>2, <1>3, <1>4, <1>5, <1>7 DEF JInv, Pool, Idles, Helping
  <1>9. Described'
    BY <1>1, <1>2, <1>3, <1>4, <1>5, <1>6, <1>7 DEF Described
  <1>10. Pool'
    BY <1>6, <1>8, <1>9 DEF Pool, Shared, JobWhole
  <1>11. TypeOK'
    BY <1>2, <1>3, <1>4, <1>5 DEF JInv, TypeOK, bootVars, idleVars
  <1> QED
    BY <1>5, <1>10, <1>11 DEF JInv

\* Its stores, one by one: the shares are opened last but one.
LEMMA SetUpStep ==
    ASSUME JInv, NEW c \in Cores, SetUp(c)
    PROVE  JInv'
  <1>1. PICK l \in {"n", "done", "next", "active", "wake"} :
          /\ pc' = [pc EXCEPT ![c] = l]
          /\ UNCHANGED <<owner, bootVars, idleVars, mine, calls, ran>>
          /\ \/ l = "n" /\ pc[c] = "arg" /\ job' = [job EXCEPT !.arg = calls]
             \/ l = "done" /\ pc[c] = "n" /\ job' = [job EXCEPT !.n = ncpu]
             \/ l = "next" /\ pc[c] = "done" /\ job' = [job EXCEPT !.done = 0]
             \/ l = "active" /\ pc[c] = "next" /\ job' = [job EXCEPT !.next = 0]
             \/ l = "wake" /\ pc[c] = "active" /\ job' = [job EXCEPT !.active = TRUE]
    BY DEF SetUp, Store, Goto
  <1>2. c = owner /\ owner # Nobody /\ ncpu' = ncpu
    BY <1>1, CoreFacts DEF JInv, Places, Loose, Away, Helping, bootVars
  <1>3. /\ job' \in [fn : 0..MaxJobs, arg : 0..MaxJobs, n : 0..(NAps + 1),
                     next : 0..Spent, done : 0..(NAps + 1), active : BOOLEAN]
        /\ job'.fn = job.fn
        /\ job'.arg = IF l = "n" THEN calls ELSE job.arg
        /\ job'.n = IF l = "done" THEN ncpu ELSE job.n
        /\ job'.done = IF l = "next" THEN 0 ELSE job.done
        /\ job'.next = IF l = "active" THEN 0 ELSE job.next
        /\ job'.active = IF l = "wake" THEN TRUE ELSE job.active
    <2>1. /\ job \in [fn : 0..MaxJobs, arg : 0..MaxJobs, n : 0..(NAps + 1),
                     next : 0..Spent, done : 0..(NAps + 1), active : BOOLEAN]
          /\ calls \in 0..MaxJobs /\ ncpu \in 0..(NAps + 1) /\ 0 \in 0..(NAps + 1) /\ 0 \in 0..Spent
      BY PoolTypes DEF JInv
    <2> QED
      BY <1>1, <2>1, ZenonT(60)
  <1>4. /\ Places' /\ Boots' /\ pc' \in [Cores -> Labels] /\ owner' \in Cores \cup {Nobody}
        /\ pc'[c] = l /\ \A d \in Cores : d # c => pc'[d] = pc[d]
    <2>1. l \in Labels /\ l \notin Away \cup {"boot", "await"} /\ l \in Held
          /\ pc[c] \notin Away \cup {"boot", "await"}
      BY <1>1 DEF Labels, Away, Held
    <2> QED
      BY <1>1, <1>2, <2>1, CoreMove
  <1>5. /\ Open <=> pc[c] = "active"
        /\ Setting <=> pc[c] # "active"
        /\ Open' <=> l \in {"active", "wake"}
        /\ Setting' <=> l \notin {"active", "wake"}
        /\ InJob'
    BY <1>1, <1>2, <1>4 DEF Open, Setting, InJob, Helping
  <1>6. /\ Shares' = Shares /\ ncpu > 1 /\ calls > 0 /\ job.fn = calls /\ ran \in [Shares -> {0, 1}]
        /\ pc[c] # "arg" => job.arg = calls
        /\ pc[c] \notin {"arg", "n"} => job.n = ncpu
        /\ pc[c] = "next" => job.done = 0
        /\ Setting => \A i \in Shares : ran[i] = 0
    BY <1>1, <1>2, <1>5 DEF JInv, Pool, Described, Shares
  <1>7. Described'
    BY <1>1, <1>2, <1>3, <1>4, <1>5, <1>6 DEF Described
  <1>8. Idles'
    <2>1. CASE l \in {"active", "wake"}
      BY <1>5, <2>1 DEF Idles
    <2>2. CASE l \notin {"active", "wake"}
      <3>1. ~Open
        BY <1>1, <1>5, <2>2
      <3>2. \A d \in Cores : /\ pc'[d] \notin {"fetch", "run", "count"}
                             /\ pc'[d] = "cmp" => pc[d] = "cmp"
                             /\ pc'[d] \in Helping => pc[d] \in Helping
        BY <1>1, <1>4, <3>1 DEF JInv, Pool, Idles, Helping
      <3> QED
        BY <1>1, <1>2, <1>3, <2>2, <3>1, <3>2 DEF JInv, Pool, Idles
    <2> QED
      BY <2>1, <2>2
  <1>9. Shared'
    <2>1. CASE l = "active"
      <3>1. ~Open /\ pc[c] = "next"
        BY <1>1, <1>5, <2>1
      <3>2. \A d \in Cores : ~Holding(d)' /\ pc'[d] \notin {"fetch", "run", "count"}
        BY <1>1, <1>2, <1>4, <2>1, <3>1, PoolTypes DEF JInv, Pool, Idles, Holding
      <3>3. Counted' = {}
        BY <1>1, <1>5, <1>6, <3>1 DEF Counted
      <3> QED
        BY <1>1, <1>3, <1>5, <1>6, <2>1, <3>1, <3>2, <3>3, FS_EmptySet DEF Shared
    <2>2. CASE l = "wake"
      <3>1. Open
        BY <1>1, <1>5, <2>2
      <3>2. \A d \in Cores : /\ Holding(d)' <=> Holding(d)
                             /\ \A k \in {"cmp", "fetch", "run", "count"} : pc'[d] = k <=> pc[d] = k
        BY <1>1, <1>2, <1>4, <2>2 DEF Holding
      <3>3. Counted' = Counted
        BY <1>1, <1>6, <3>2 DEF Counted
      <3> QED
        BY <1>1, <1>2, <1>3, <1>6, <2>2, <3>1, <3>2, <3>3 DEF JInv, Pool, Shared
    <2>3. CASE l \notin {"active", "wake"}
      BY <1>5, <2>3 DEF Shared
    <2> QED
      BY <2>1, <2>2, <2>3
  <1>10. Pool'
    BY <1>5, <1>7, <1>8, <1>9 DEF Pool, JobWhole
  <1>11. TypeOK'
    BY <1>1, <1>3, <1>4 DEF JInv, TypeOK, bootVars, idleVars
  <1> QED
    BY <1>4, <1>10, <1>11 DEF JInv

\* The wake-ups.
LEMMA WakeStep ==
    ASSUME JInv, NEW c \in Cores, WakeHalted(c)
    PROVE  JInv'
  <1>1. /\ pc[c] = "wake" /\ pc' = [pc EXCEPT ![c] = "claim"]
        /\ wake' \in [Cores -> BOOLEAN]
        /\ UNCHANGED <<owner, bootVars, scheduling, joined, halted, poolVars>>
    <2>1. wake' = [d \in Cores |-> wake[d] \/ (d # 0 /\ halted[d])]
      BY DEF WakeHalted
    <2>2. \A d \in Cores : (wake[d] \/ (d # 0 /\ halted[d])) \in BOOLEAN
      OBVIOUS
    <2>3. wake' \in [Cores -> BOOLEAN]
      BY <2>1, <2>2
    <2> QED
      BY <2>3 DEF WakeHalted, Goto
  <1>2. c = owner /\ owner # Nobody
    BY <1>1, CoreFacts DEF JInv, Places, Loose, Away, Helping
  <1>3. /\ Places' /\ Boots' /\ pc' \in [Cores -> Labels] /\ owner' \in Cores \cup {Nobody}
        /\ pc'[c] = "claim" /\ \A d \in Cores : d # c => pc'[d] = pc[d]
    <2>1. "claim" \in Labels /\ "claim" \notin Away \cup {"boot", "await"} /\ "claim" \in Held
          /\ pc[c] \notin Away \cup {"boot", "await"} /\ calls' = calls
      BY <1>1 DEF Labels, Away, Held, Helping, poolVars
    <2> QED
      BY <1>1, <1>2, <2>1, CoreMove
  <1>4. Open /\ Open' /\ ~Setting /\ ~Setting' /\ InJob /\ InJob'
    BY <1>1, <1>2, <1>3 DEF Open, Setting, InJob, Helping
  <1>5. Pool'
    BY <1>1, <1>2, <1>3, <1>4, PoolQuiet DEF bootVars
  <1>6. TypeOK'
    BY <1>1, <1>3 DEF JInv, TypeOK, bootVars, poolVars
  <1> QED
    BY <1>3, <1>5, <1>6 DEF JInv

\* A core inside run_shares goes on or leaves it.
LEMMA HelpMove ==
    ASSUME JInv, NEW c \in Cores, NEW l, pc' = [pc EXCEPT ![c] = l], pc[c] \in Helping,
           l \in Helping \/ l = IF c = owner THEN "wait" ELSE "after",
           UNCHANGED <<owner, bootVars, idleVars, calls>>
    PROVE  /\ Places' /\ Boots' /\ pc' \in [Cores -> Labels] /\ owner' \in Cores \cup {Nobody}
           /\ pc'[c] = l /\ \A d \in Cores : d # c => pc'[d] = pc[d]
           /\ Open' <=> Open
           /\ Setting' <=> Setting
           /\ InJob' <=> InJob
           /\ c = owner => Open
           /\ Setting => pc'[owner] = pc[owner]
           /\ ncpu' = ncpu /\ Shares' = Shares
  <1>1. /\ l \in Labels /\ l \notin Away \cup {"boot", "await"}
        /\ pc[c] \notin Away \cup {"boot", "await"}
        /\ c = owner => l \in Held
        /\ c # owner => l \in Loose /\ c # 0
    BY DEF Labels, Away, Held, Helping, Loose, JInv, Places
  <1>2. /\ Places' /\ Boots' /\ pc' \in [Cores -> Labels] /\ owner' \in Cores \cup {Nobody}
        /\ pc'[c] = l /\ \A d \in Cores : d # c => pc'[d] = pc[d]
    BY <1>1, CoreMove
  <1>3. c = owner => Open /\ ~Setting /\ InJob /\ Open' /\ ~Setting' /\ InJob'
    BY <1>2, CoreFacts DEF Open, Setting, InJob, Helping
  <1>4. c # owner /\ owner # Nobody => pc'[owner] = pc[owner]
    BY <1>2 DEF JInv, TypeOK
  <1>5. c # owner => /\ Open' <=> Open
                     /\ Setting' <=> Setting
                     /\ InJob' <=> InJob
    BY <1>4 DEF Open, Setting, InJob
  <1>6. Setting => c # owner /\ owner # Nobody
    BY <1>3 DEF Setting
  <1> QED
    BY <1>2, <1>3, <1>4, <1>5, <1>6 DEF bootVars, Shares

\* What was stored before the shares were opened stays.
LEMMA OpenDescribed ==
    ASSUME JInv, Open, Open', owner' = owner, calls' = calls, ncpu' = ncpu,
           job'.fn = job.fn, job'.arg = job.arg, job'.n = job.n, ran' \in [Shares -> {0, 1}]
    PROVE  Described'
  <1>1. Shares' = Shares
    BY DEF Shares
  <1>2. ~Setting /\ ~Setting'
    BY DEF Open, Setting, Helping
  <1>3. pc'[owner'] \notin {"arg", "n", "next"} /\ pc[owner] \notin {"arg", "n", "next"}
    BY DEF Open, Helping
  <1> QED
    BY <1>1, <1>2, <1>3 DEF JInv, Pool, Described

\* run_shares claims the next share.
LEMMA ClaimStep ==
    ASSUME JInv, NEW c \in Cores, Claim(c)
    PROVE  JInv'
  <1>1. /\ pc[c] = "claim" /\ pc' = [pc EXCEPT ![c] = "cmp"]
        /\ mine' = [mine EXCEPT ![c].share = job.next]
        /\ job' = [job EXCEPT !.next = OneMore(job.next)]
        /\ UNCHANGED <<owner, bootVars, idleVars, calls, ran>>
    BY DEF Claim, Goto
  <1>2. /\ Places' /\ Boots' /\ pc' \in [Cores -> Labels] /\ owner' \in Cores \cup {Nobody}
        /\ pc'[c] = "cmp" /\ \A d \in Cores : d # c => pc'[d] = pc[d]
        /\ Open' <=> Open
        /\ Setting' <=> Setting
        /\ InJob' <=> InJob
        /\ c = owner => Open
        /\ Setting => pc'[owner] = pc[owner]
        /\ ncpu' = ncpu /\ Shares' = Shares
    BY <1>1, HelpMove DEF Helping
  <1>3. PICK k \in 0..Spent : k = OneMore(job.next)
    BY PoolTypes DEF JInv, OneMore
  <1>4. /\ job.next \in 0..Spent /\ ncpu \in 1..Spent /\ Spent \in Nat
        /\ k >= job.next /\ (job.next < Spent => k = job.next + 1)
    BY <1>3, PoolTypes DEF JInv, OneMore
  <1>5. /\ job' \in [fn : 0..MaxJobs, arg : 0..MaxJobs, n : 0..(NAps + 1),
                     next : 0..Spent, done : 0..(NAps + 1), active : BOOLEAN]
        /\ job'.fn = job.fn /\ job'.arg = job.arg /\ job'.n = job.n /\ job'.done = job.done
        /\ job'.active = job.active /\ job'.next = k
    BY <1>1, <1>3, PoolTypes DEF JInv
  <1>6. /\ mine' \in [Cores -> [share : 0..Spent, fn : 0..MaxJobs, arg : 0..MaxJobs]]
        /\ mine'[c].share = job.next
        /\ \A d \in Cores : d # c => mine'[d] = mine[d]
    BY <1>1, PoolTypes DEF JInv
  <1>7. TypeOK'
    BY <1>1, <1>2, <1>5, <1>6 DEF JInv, TypeOK, bootVars, idleVars
  <1>8. JobWhole'
    BY <1>1, <1>2 DEF JInv, Pool, JobWhole
  <1>9. CASE ~Open
    <2>1. job.next >= ncpu /\ job.n = ncpu /\ calls > 0 /\ ~job.active
      BY <1>1, <1>9 DEF JInv, Pool, Idles, Helping
    <2>2. Idles'
      BY <1>1, <1>2, <1>4, <1>5, <1>6, <1>9, <2>1 DEF JInv, Pool, Idles
    <2>3. Described'
      BY <1>1, <1>2, <1>5, <1>9 DEF JInv, Pool, Described
    <2> QED
      BY <1>2, <1>7, <1>8, <1>9, <2>2, <2>3 DEF JInv, Pool, Shared
  <1>10. CASE Open
    <2>1. Described'
      <3>1. ran \in [Shares -> {0, 1}]
        BY <1>10 DEF JInv, Pool, Described
      <3> QED
        BY <1>1, <1>2, <1>5, <1>10, <3>1, OpenDescribed
    <2>2. /\ job.done = Cardinality(Counted)
          /\ \A i \in Shares : i >= job.next => ran[i] = 0
          /\ \A d \in Cores : pc[d] \in {"fetch", "run", "count"} => mine[d].share < ncpu
          /\ \A d \in Cores : Holding(d) => mine[d].share < job.next
      BY <1>10 DEF JInv, Pool, Shared
    <2>3. Counted' = Counted
      <3>1. \A d \in Cores : /\ pc'[d] = "count" <=> pc[d] = "count"
                             /\ pc[d] = "count" => mine'[d] = mine[d]
        BY <1>1, <1>2, <1>6
      <3> QED
        BY <1>1, <1>2, <3>1 DEF Counted
    <2>4. /\ \A d \in Cores : d # c => (Holding(d)' <=> Holding(d))
          /\ Holding(c)' <=> job.next < ncpu
      BY <1>2, <1>6 DEF Holding
    <2>5. ASSUME NEW d \in Cores, d # c, Holding(d)
          PROVE  /\ mine'[d].share < job'.next
                 /\ mine'[d].share # mine'[c].share
                 /\ pc'[d] = "count" => ran'[mine'[d].share] = 1
                 /\ pc'[d] # "count" => ran'[mine'[d].share] = 0
                 /\ pc'[d] = "run" => mine'[d].fn = calls' /\ mine'[d].arg = calls'
                 /\ \A e \in Cores : e # c /\ Holding(e) /\ d # e => mine'[d].share # mine'[e].share
      <3>1. mine'[d] = mine[d] /\ pc'[d] = pc[d] /\ mine[d].share \in Nat /\ ran' = ran /\ calls' = calls
        BY <1>1, <1>2, <1>6, <2>5, PoolTypes DEF JInv
      <3>2. mine[d].share < job.next
        BY <2>2, <2>5
      <3> QED
        <4>1. /\ mine'[d].share < job'.next
              /\ mine'[d].share # mine'[c].share
          BY <1>4, <1>5, <1>6, <3>1, <3>2
        <4>2. /\ pc[d] = "count" => ran[mine[d].share] = 1
              /\ pc[d] # "count" => ran[mine[d].share] = 0
              /\ pc[d] = "run" => mine[d].fn = calls /\ mine[d].arg = calls
              /\ \A e \in Cores : Holding(e) /\ d # e => mine[d].share # mine[e].share
          BY <1>10, <2>5 DEF JInv, Pool, Shared
        <4> QED
          BY <1>6, <3>1, <4>1, <4>2
    <2>6. job.next < ncpu => /\ mine'[c].share < job'.next /\ ran'[mine'[c].share] = 0
      <3> SUFFICES ASSUME job.next < ncpu
                   PROVE  mine'[c].share < job'.next /\ ran'[mine'[c].share] = 0
        OBVIOUS
      <3>1. job.next \in Shares
        BY <1>4 DEF Shares
      <3> QED
        BY <1>1, <1>4, <1>5, <1>6, <2>2, <3>1
    <2>7. \A i \in Shares' : i >= job'.next => ran'[i] = 0
      BY <1>1, <1>2, <1>4, <1>5, <2>2 DEF Shares
    <2>8. \A d \in Cores : pc'[d] \in {"fetch", "run", "count"} => mine'[d].share < ncpu'
      BY <1>2, <1>6, <2>2
    <2>9. \A d \in Cores : Holding(d)' =>
           /\ mine'[d].share < job'.next
           /\ pc'[d] = "count" => ran'[mine'[d].share] = 1
           /\ pc'[d] # "count" => ran'[mine'[d].share] = 0
           /\ pc'[d] = "run" => mine'[d].fn = calls' /\ mine'[d].arg = calls'
           /\ \A e \in Cores : Holding(e)' /\ d # e => mine'[d].share # mine'[e].share
      BY <1>2, <2>4, <2>5, <2>6
    <2>10. Shared'
      BY <1>5, <2>2, <2>3, <2>7, <2>8, <2>9 DEF Shared
    <2>11. Idles'
      BY <1>2, <1>10 DEF Idles
    <2> QED
      BY <1>2, <1>7, <1>8, <2>1, <2>10, <2>11 DEF JInv, Pool
  <1> QED
    BY <1>9, <1>10

\* The claim is compared with the number of shares: a core that looked for an
\* earlier job goes away empty-handed.
LEMMA CompareStep ==
    ASSUME JInv, NEW c \in Cores, Compare(c)
    PROVE  JInv'
  <1>1. /\ pc[c] = "cmp" /\ UNCHANGED <<owner, bootVars, idleVars, job, calls, ran>>
        /\ \/ mine[c].share < job.n /\ pc' = [pc EXCEPT ![c] = "fetch"] /\ mine' = mine
           \/ /\ mine[c].share >= job.n /\ mine' = [mine EXCEPT ![c] = NoShare]
              /\ pc' = [pc EXCEPT ![c] = IF c = owner THEN "wait" ELSE "after"]
    BY DEF Compare, Goto
  <1>2. PICK l : /\ pc' = [pc EXCEPT ![c] = l]
                 /\ \/ mine[c].share < job.n /\ l = "fetch" /\ mine' = mine
                    \/ /\ mine[c].share >= job.n /\ mine' = [mine EXCEPT ![c] = NoShare]
                       /\ l = IF c = owner THEN "wait" ELSE "after"
    BY <1>1
  <1>3. /\ Places' /\ Boots' /\ pc' \in [Cores -> Labels] /\ owner' \in Cores \cup {Nobody}
        /\ pc'[c] = l /\ \A d \in Cores : d # c => pc'[d] = pc[d]
        /\ Open' <=> Open
        /\ Setting' <=> Setting
        /\ InJob' <=> InJob
        /\ c = owner => Open
        /\ Setting => pc'[owner] = pc[owner]
        /\ ncpu' = ncpu /\ Shares' = Shares
    <2>1. l \in Helping \/ l = IF c = owner THEN "wait" ELSE "after"
      BY <1>2 DEF Helping
    <2>2. pc[c] \in Helping
      BY <1>1 DEF Helping
    <2> QED
      BY <1>1, <1>2, <2>1, <2>2, HelpMove
  <1>4. l \in {"fetch", "wait", "after"}
    BY <1>2
  <1>5. /\ mine' \in [Cores -> [share : 0..Spent, fn : 0..MaxJobs, arg : 0..MaxJobs]]
        /\ \A d \in Cores : d # c => mine'[d] = mine[d]
        /\ l = "fetch" => mine' = mine
    <2>1. NoShare \in [share : 0..Spent, fn : 0..MaxJobs, arg : 0..MaxJobs]
      BY PoolTypes DEF NoShare, JInv
    <2> QED
      BY <1>2, <2>1, PoolTypes DEF JInv
  <1>6. TypeOK'
    BY <1>1, <1>3, <1>5 DEF JInv, TypeOK, bootVars, idleVars
  <1>7. JobWhole'
    BY <1>1, <1>3 DEF JInv, Pool, JobWhole
  <1>8. CASE ~Open
    <2>1. /\ job.next >= ncpu /\ job.n = ncpu /\ calls > 0 /\ ~job.active
          /\ mine[c].share >= ncpu
      BY <1>1, <1>8 DEF JInv, Pool, Idles, Helping
    <2>2. l = "after"
      BY <1>2, <1>3, <1>8, <2>1, PoolTypes DEF JInv
    <2>3. Idles'
      BY <1>1, <1>3, <1>5, <1>8, <2>1, <2>2 DEF JInv, Pool, Idles
    <2>4. Described'
      BY <1>1, <1>3, <1>8 DEF JInv, Pool, Described
    <2> QED
      BY <1>3, <1>6, <1>7, <1>8, <2>3, <2>4 DEF JInv, Pool, Shared
  <1>9. CASE Open
    <2>1. job.n = ncpu /\ ran \in [Shares -> {0, 1}]
      BY <1>9 DEF JInv, Pool, Described, Open, Helping
    <2>2. Described'
      BY <1>1, <1>3, <1>9, <2>1, OpenDescribed
    <2>3. \A d \in Cores : /\ Holding(d)' => Holding(d) /\ mine'[d] = mine[d]
                           /\ pc'[d] \in {"count", "run"} => pc'[d] = pc[d]
                           /\ pc[d] = "count" => pc'[d] = "count" /\ mine'[d] = mine[d]
                           /\ Holding(d)' /\ pc'[d] # "count" => pc[d] # "count"
                           /\ pc'[d] \in {"fetch", "run", "count"} => mine'[d].share < ncpu
      <3>1. /\ Holding(c)' => Holding(c) /\ mine' = mine
            /\ l = "fetch" => mine[c].share < ncpu
        BY <1>1, <1>2, <1>3, <1>4, <1>5, <2>1 DEF Holding
      <3>2. \A d \in Cores : pc[d] \in {"fetch", "run", "count"} => mine[d].share < ncpu
        BY <1>9 DEF JInv, Pool, Shared
      <3> QED
        BY <1>1, <1>3, <1>4, <1>5, <3>1, <3>2 DEF Holding
    <2>4. Counted' = Counted
      BY <1>1, <1>3, <2>3 DEF Counted
    <2>5. Shared'
      BY <1>1, <1>3, <1>9, <2>3, <2>4 DEF JInv, Pool, Shared
    <2>6. Idles'
      BY <1>3, <1>9 DEF Idles
    <2> QED
      BY <1>3, <1>6, <1>7, <2>2, <2>5, <2>6 DEF JInv, Pool
  <1> QED
    BY <1>8, <1>9

\* The function and the argument are read: they are those of the open job.
LEMMA FetchStep ==
    ASSUME JInv, NEW c \in Cores, Fetch(c)
    PROVE  JInv'
  <1>1. /\ pc[c] = "fetch" /\ pc' = [pc EXCEPT ![c] = "run"]
        /\ mine' = [mine EXCEPT ![c].fn = job.fn, ![c].arg = job.arg]
        /\ UNCHANGED <<owner, bootVars, idleVars, job, calls, ran>>
    BY DEF Fetch, Goto
  <1>2. /\ Places' /\ Boots' /\ pc' \in [Cores -> Labels] /\ owner' \in Cores \cup {Nobody}
        /\ pc'[c] = "run" /\ \A d \in Cores : d # c => pc'[d] = pc[d]
        /\ Open' <=> Open
        /\ InJob' <=> InJob
        /\ ncpu' = ncpu /\ Shares' = Shares
    BY <1>1, HelpMove DEF Helping
  <1>3. Open /\ Open'
    BY <1>1, <1>2 DEF JInv, Pool, Idles
  <1>4. /\ mine' \in [Cores -> [share : 0..Spent, fn : 0..MaxJobs, arg : 0..MaxJobs]]
        /\ \A d \in Cores : d # c => mine'[d] = mine[d]
        /\ mine'[c].share = mine[c].share /\ mine'[c].fn = job.fn /\ mine'[c].arg = job.arg
    <2> DEFINE r == [mine[c] EXCEPT !.fn = job.fn, !.arg = job.arg]
    <2>1. /\ r \in [share : 0..Spent, fn : 0..MaxJobs, arg : 0..MaxJobs]
          /\ r.share = mine[c].share /\ r.fn = job.fn /\ r.arg = job.arg
      BY PoolTypes DEF JInv
    <2>2. mine' = [mine EXCEPT ![c] = r]
      BY <1>1, PoolTypes DEF JInv
    <2> HIDE DEF r
    <2> QED
      BY <2>1, <2>2, PoolTypes DEF JInv
  <1>5. TypeOK'
    BY <1>1, <1>2, <1>4 DEF JInv, TypeOK, bootVars, idleVars
  <1>6. job.fn = calls /\ job.arg = calls /\ ran \in [Shares -> {0, 1}]
    BY <1>3 DEF JInv, Pool, Described, Open, Helping
  <1>7. Described'
    BY <1>1, <1>2, <1>3, <1>6, OpenDescribed
  <1>a. \A d \in Cores : /\ mine'[d].share = mine[d].share
                         /\ pc'[d] = "count" <=> pc[d] = "count"
                         /\ pc'[d] \in {"fetch", "run", "count"} <=> pc[d] \in {"fetch", "run", "count"}
    BY <1>1, <1>2, <1>4
  <1>b. \A d \in Cores : pc'[d] = "run" =>
                           \/ /\ pc[d] = "run" /\ mine'[d].fn = mine[d].fn
                              /\ mine'[d].arg = mine[d].arg
                           \/ mine'[d].fn = calls /\ mine'[d].arg = calls
    BY <1>1, <1>2, <1>4, <1>6
  <1>8. \A d \in Cores : Holding(d)' <=> Holding(d)
    BY <1>1, <1>2, <1>a DEF Holding
  <1>9. Counted' = Counted
    <2>1. \A d \in Cores, i \in Shares :
            (pc'[d] = "count" => mine'[d].share # i) <=> (pc[d] = "count" => mine[d].share # i)
      BY <1>a
    <2> QED
      BY <1>1, <1>2, <2>1 DEF Counted
  <1>10. Shared'
    <2>1. /\ job.done = Cardinality(Counted)
          /\ \A i \in Shares : i >= job.next => ran[i] = 0
          /\ \A d \in Cores : pc[d] \in {"fetch", "run", "count"} => mine[d].share < ncpu
      BY <1>3 DEF JInv, Pool, Shared
    <2>2. ASSUME NEW d \in Cores, Holding(d)
          PROVE  /\ mine[d].share < job.next
                 /\ pc[d] = "count" => ran[mine[d].share] = 1
                 /\ pc[d] # "count" => ran[mine[d].share] = 0
                 /\ pc[d] = "run" => mine[d].fn = calls /\ mine[d].arg = calls
                 /\ \A e \in Cores : Holding(e) /\ d # e => mine[d].share # mine[e].share
      BY <1>3, <2>2 DEF JInv, Pool, Shared
    <2>3. ASSUME NEW d \in Cores, Holding(d)'
          PROVE  /\ mine'[d].share < job'.next
                 /\ pc'[d] = "count" => ran'[mine'[d].share] = 1
                 /\ pc'[d] # "count" => ran'[mine'[d].share] = 0
                 /\ pc'[d] = "run" => mine'[d].fn = calls' /\ mine'[d].arg = calls'
                 /\ \A e \in Cores : Holding(e)' /\ d # e => mine'[d].share # mine'[e].share
      <3>1. /\ Holding(d) /\ mine'[d].share = mine[d].share /\ job' = job /\ ran' = ran
            /\ calls' = calls
            /\ pc'[d] = "count" <=> pc[d] = "count"
        BY <1>1, <1>8, <1>a, <2>3
      <3>2. /\ mine'[d].share < job'.next
            /\ pc'[d] = "count" => ran'[mine'[d].share] = 1
            /\ pc'[d] # "count" => ran'[mine'[d].share] = 0
        BY <2>2, <3>1
      <3>3. pc'[d] = "run" => mine'[d].fn = calls' /\ mine'[d].arg = calls'
        BY <1>b, <2>2, <3>1
      <3>4. \A e \in Cores : Holding(e)' /\ d # e => mine'[d].share # mine'[e].share
        BY <1>8, <1>a, <2>2, <3>1
      <3> QED
        BY <3>2, <3>3, <3>4
    <2> QED
      BY <1>1, <1>2, <1>8, <1>9, <1>a, <2>1, <2>3, ZenonT(60) DEF Shared
  <1>11. Idles' /\ JobWhole'
    BY <1>1, <1>2, <1>3 DEF JInv, Pool, Idles, JobWhole
  <1> QED
    BY <1>2, <1>5, <1>7, <1>10, <1>11 DEF JInv, Pool

\* A share is done: by the one core that holds it, for the first time.
LEMMA RunShareStep ==
    ASSUME JInv, NEW c \in Cores, RunShare(c)
    PROVE  JInv'
  <1>1. /\ pc[c] = "run" /\ pc' = [pc EXCEPT ![c] = "count"]
        /\ ran' = [ran EXCEPT ![mine[c].share] = @ + 1]
        /\ UNCHANGED <<owner, bootVars, idleVars, job, mine, calls>>
    BY DEF RunShare, Goto
  <1>2. /\ Places' /\ Boots' /\ pc' \in [Cores -> Labels] /\ owner' \in Cores \cup {Nobody}
        /\ pc'[c] = "count" /\ \A d \in Cores : d # c => pc'[d] = pc[d]
        /\ Open' <=> Open
        /\ ncpu' = ncpu /\ Shares' = Shares
    BY <1>1, HelpMove DEF Helping
  <1>3. Open /\ Open' /\ InJob'
    BY <1>1, <1>2 DEF JInv, Pool, Idles, Open, InJob, Helping
  <1>4. /\ ran \in [Shares -> {0, 1}] /\ mine[c].share \in Shares /\ Holding(c)
        /\ ran[mine[c].share] = 0 /\ mine[c].share < job.next
    BY <1>1, <1>3, PoolTypes, ShareFacts DEF JInv, Pool, Described, Shared, Holding, Shares
  <1>5. /\ ran' \in [Shares -> {0, 1}] /\ ran'[mine[c].share] = 1
        /\ \A i \in Shares : i # mine[c].share => ran'[i] = ran[i]
    BY <1>1, <1>4
  <1>6. Described'
    BY <1>1, <1>2, <1>3, <1>5, OpenDescribed
  <1>7. \A d \in Cores : /\ Holding(d)' <=> Holding(d)
                         /\ Holding(d) => mine[d].share \in Shares
    BY <1>1, <1>2, PoolTypes DEF Holding, JInv, Shares
  <1>8. Counted' = Counted
    <2>1. \A d \in Cores : pc'[d] = "count" <=> pc[d] = "count" \/ d = c
      BY <1>1, <1>2
    <2>2. mine[c].share \notin Counted /\ mine[c].share \notin Counted'
      BY <1>1, <1>2, <1>4 DEF Counted
    <2>3. ASSUME NEW i \in Shares, i # mine[c].share
          PROVE  i \in Counted' <=> i \in Counted
      BY <1>1, <1>2, <1>5, <2>1, <2>3 DEF Counted
    <2>4. Counted \subseteq Shares /\ Counted' \subseteq Shares
      BY <1>2 DEF Counted
    <2> QED
      BY <2>2, <2>3, <2>4
  <1>9. Shared'
    <2>1. /\ job.done = Cardinality(Counted)
          /\ \A i \in Shares : i >= job.next => ran[i] = 0
          /\ \A d \in Cores : pc[d] \in {"fetch", "run", "count"} => mine[d].share < ncpu
      BY <1>3 DEF JInv, Pool, Shared
    <2>2. ASSUME NEW d \in Cores, Holding(d)
          PROVE  /\ mine[d].share < job.next
                 /\ pc[d] = "count" => ran[mine[d].share] = 1
                 /\ pc[d] # "count" => ran[mine[d].share] = 0
                 /\ pc[d] = "run" => mine[d].fn = calls /\ mine[d].arg = calls
                 /\ \A e \in Cores : Holding(e) /\ d # e => mine[d].share # mine[e].share
      BY <1>3, <2>2 DEF JInv, Pool, Shared
    <2>3. ASSUME NEW d \in Cores, Holding(d)'
          PROVE  /\ mine'[d].share < job'.next
                 /\ pc'[d] = "count" => ran'[mine'[d].share] = 1
                 /\ pc'[d] # "count" => ran'[mine'[d].share] = 0
                 /\ pc'[d] = "run" => mine'[d].fn = calls' /\ mine'[d].arg = calls'
                 /\ \A e \in Cores : Holding(e)' /\ d # e => mine'[d].share # mine'[e].share
      <3>1. Holding(d) /\ mine' = mine /\ job' = job /\ calls' = calls /\ mine[d].share \in Shares
        BY <1>1, <1>7, <2>3
      <3>2. CASE d = c
        BY <1>2, <1>5, <1>7, <2>2, <3>1, <3>2
      <3>3. CASE d # c
        <4>1. mine[d].share # mine[c].share
          BY <1>4, <2>2, <3>1, <3>3
        <4> QED
          BY <1>2, <1>5, <1>7, <2>2, <3>1, <3>3, <4>1
      <3> QED
        BY <3>2, <3>3
    <2>4. \A i \in Shares : i >= job.next => ran'[i] = 0
      <3>1. \A i \in Shares : i >= job.next => i # mine[c].share
        BY <1>4, PoolTypes, ShareFacts DEF JInv
      <3> QED
        BY <1>5, <2>1, <3>1
    <2>5. \A d \in Cores : pc'[d] \in {"fetch", "run", "count"} => mine'[d].share < ncpu'
      BY <1>1, <1>2, <2>1
    <2> QED
      BY <1>1, <1>2, <1>8, <2>1, <2>3, <2>4, <2>5 DEF Shared
  <1>10. Idles' /\ JobWhole'
    BY <1>3 DEF Idles, JobWhole
  <1>11. TypeOK'
    BY <1>1, <1>2 DEF JInv, TypeOK, bootVars, idleVars
  <1> QED
    BY <1>2, <1>6, <1>9, <1>10, <1>11 DEF JInv, Pool

\* ... and counted.
LEMMA CountStep ==
    ASSUME JInv, NEW c \in Cores, Count(c)
    PROVE  JInv'
  <1>1. /\ pc[c] = "count" /\ pc' = [pc EXCEPT ![c] = "claim"]
        /\ job' = [job EXCEPT !.done = @ + 1]
        /\ UNCHANGED <<owner, bootVars, idleVars, mine, calls, ran>>
    BY DEF Count, Goto
  <1>2. /\ Places' /\ Boots' /\ pc' \in [Cores -> Labels] /\ owner' \in Cores \cup {Nobody}
        /\ pc'[c] = "claim" /\ \A d \in Cores : d # c => pc'[d] = pc[d]
        /\ Open' <=> Open
        /\ InJob' <=> InJob
        /\ ncpu' = ncpu /\ Shares' = Shares
    BY <1>1, HelpMove DEF Helping
  <1>3. Open /\ Open'
    BY <1>1, <1>2 DEF JInv, Pool, Idles
  <1> DEFINE m == mine[c].share
  <1>4. ran \in [Shares -> {0, 1}] /\ m \in Shares /\ Holding(c) /\ ran[m] = 1
    BY <1>1, <1>3, PoolTypes, ShareFacts DEF JInv, Pool, Described, Shared, Holding, Shares
  <1>5. \A d \in Cores : d # c /\ pc[d] = "count" => mine[d].share # m
    <2>1. \A d \in Cores : pc[d] = "count" => Holding(d)
      BY <1>3 DEF JInv, Pool, Shared, Holding
    <2> QED
      BY <1>3, <1>4, <2>1 DEF JInv, Pool, Shared
  <1>6. \A d \in Cores : pc'[d] = "count" <=> pc[d] = "count" /\ d # c
    BY <1>1, <1>2
  <1>7. Counted' = Counted \cup {m} /\ m \notin Counted
    BY <1>1, <1>2, <1>4, <1>5, <1>6 DEF Counted
  <1>8. /\ IsFiniteSet(Counted) /\ Cardinality(Counted) \in Nat /\ job.done = Cardinality(Counted)
    BY <1>3, ShareFacts DEF JInv, Pool, Shared
  <1>9. Cardinality(Counted') = job.done + 1 /\ job.done + 1 <= ncpu
    <2>1. Cardinality(Counted \cup {m}) = Cardinality(Counted) + 1
      BY <1>7, <1>8, FS_AddElement
    <2>2. Counted \cup {m} \subseteq Shares
      BY <1>4 DEF Counted
    <2>3. Cardinality(Counted \cup {m}) <= Cardinality(Shares)
      BY <2>2, ShareFacts, FS_Subset DEF JInv
    <2>4. Cardinality(Shares) = ncpu
      BY ShareFacts DEF JInv
    <2> QED
      BY <1>7, <1>8, <2>1, <2>3, <2>4
  <1>10. /\ job' \in [fn : 0..MaxJobs, arg : 0..MaxJobs, n : 0..(NAps + 1),
                      next : 0..Spent, done : 0..(NAps + 1), active : BOOLEAN]
         /\ job'.fn = job.fn /\ job'.arg = job.arg /\ job'.n = job.n /\ job'.done = job.done + 1
         /\ job'.active = job.active /\ job'.next = job.next
    <2>1. PICK k \in 0..(NAps + 1) : k = job.done + 1
      BY <1>8, <1>9, PoolTypes DEF JInv
    <2>2. job' = [job EXCEPT !.done = k]
      BY <1>1, <2>1
    <2> QED
      BY <2>1, <2>2, PoolTypes DEF JInv
  <1>11. Described'
    BY <1>1, <1>2, <1>3, <1>4, <1>10, OpenDescribed
  <1>12. Shared'
    <2>1. \A d \in Cores : /\ Holding(d)' => Holding(d) /\ pc'[d] = pc[d]
                           /\ pc'[d] \in {"fetch", "run", "count"} => pc[d] = pc'[d]
      BY <1>1, <1>2 DEF Holding
    <2> QED
      BY <1>1, <1>2, <1>3, <1>9, <1>10, <2>1 DEF JInv, Pool, Shared
  <1>13. Idles' /\ JobWhole'
    BY <1>1, <1>2, <1>3 DEF JInv, Pool, Idles, JobWhole
  <1>14. TypeOK'
    BY <1>1, <1>2, <1>10 DEF JInv, TypeOK, bootVars, idleVars
  <1> QED
    BY <1>2, <1>11, <1>12, <1>13, <1>14 DEF JInv, Pool

\* The owner has seen as many counted as there are shares: all of them are
\* done, and nobody is left inside one.
LEMMA RunEndStep ==
    ASSUME JInv, NEW c \in Cores, RunEnd(c)
    PROVE  JInv'
  <1>1. /\ pc[c] = "wait" /\ pc' = [pc EXCEPT ![c] = "kernel"] /\ job.done >= job.n
        /\ job' = [job EXCEPT !.active = FALSE]
        /\ UNCHANGED <<owner, bootVars, idleVars, mine, calls, ran>>
    BY DEF RunEnd, Goto
  <1>2. c = owner /\ owner # Nobody /\ ncpu' = ncpu /\ Open
    BY <1>1, CoreFacts DEF JInv, Places, Loose, Away, Helping, bootVars, Open
  <1>3. /\ Places' /\ Boots' /\ pc' \in [Cores -> Labels] /\ owner' \in Cores \cup {Nobody}
        /\ pc'[c] = "kernel" /\ \A d \in Cores : d # c => pc'[d] = pc[d]
    <2>1. "kernel" \in Labels /\ "kernel" \notin Away \cup {"boot", "await"} /\ "kernel" \in Held
          /\ pc[c] \notin Away \cup {"boot", "await"}
      BY <1>1 DEF Labels, Away, Held
    <2> QED
      BY <1>1, <1>2, <2>1, CoreMove
  <1>4. ~Open' /\ ~Setting' /\ ~InJob'
    BY <1>1, <1>2, <1>3 DEF Open, Setting, InJob, Helping
  <1>5. job.n = ncpu /\ ran \in [Shares -> {0, 1}] /\ calls > 0 /\ job.done = Cardinality(Counted)
    BY <1>1, <1>2 DEF JInv, Pool, Described, Shared
  <1>6. Counted = Shares
    <2>1. Counted \subseteq Shares
      BY DEF Counted
    <2>2. Cardinality(Counted) = Cardinality(Shares)
      BY <1>1, <1>5, ShareFacts DEF JInv
    <2> QED
      BY <2>1, <2>2, ShareFacts, FS_Subset DEF JInv
  <1>7. \A i \in Shares : ran[i] = 1 /\ \A d \in Cores : pc[d] = "count" => mine[d].share # i
    BY <1>6 DEF Counted
  <1>8. \A d \in Cores : ~Holding(d)
    <2> SUFFICES ASSUME NEW d \in Cores, Holding(d) PROVE FALSE
      OBVIOUS
    <2>1. mine[d].share \in Shares
      BY PoolTypes DEF Holding, Shares, JInv
    <2> QED
      BY <1>2, <1>7, <2>1 DEF JInv, Pool, Shared
  <1>9. job.next >= ncpu
    <2> SUFFICES ASSUME ~(job.next >= ncpu) PROVE FALSE
      OBVIOUS
    <2>1. job.next \in Shares
      BY PoolTypes DEF Shares, JInv
    <2> QED
      BY <1>2, <1>7, <2>1, PoolTypes DEF JInv, Pool, Shared
  <1>10. /\ job' \in [fn : 0..MaxJobs, arg : 0..MaxJobs, n : 0..(NAps + 1),
                      next : 0..Spent, done : 0..(NAps + 1), active : BOOLEAN]
         /\ job'.n = job.n /\ job'.active = FALSE /\ job'.next = job.next
    BY <1>1, PoolTypes DEF JInv
  <1>11. \A d \in Cores : /\ pc[d] \notin {"fetch", "run", "count"}
                          /\ pc[d] = "cmp" => mine[d].share >= ncpu
    <2>1. \A d \in Cores : pc[d] \in {"fetch", "run", "count"} => Holding(d)
      BY <1>2 DEF JInv, Pool, Shared, Holding
    <2>2. \A d \in Cores : pc[d] = "cmp" /\ ~(mine[d].share >= ncpu) => Holding(d)
      BY PoolTypes DEF Holding, JInv
    <2> QED
      BY <1>8, <2>1, <2>2
  <1>12. Idles'
    BY <1>1, <1>2, <1>3, <1>5, <1>9, <1>10, <1>11 DEF Idles
  <1>13. JobWhole'
    BY <1>1, <1>5, <1>7 DEF JobWhole
  <1>14. Described' /\ Shared'
    BY <1>4 DEF Described, Shared
  <1>15. TypeOK'
    BY <1>1, <1>3, <1>10 DEF JInv, TypeOK, bootVars, idleVars
  <1> QED
    BY <1>3, <1>12, <1>13, <1>14, <1>15 DEF JInv, Pool

----------------------------------------------------------------------------
(* The pool invariant of every reachable state.                            *)

\* smp_start_scheduling.
LEMMA StartStep ==
    ASSUME JInv, StartScheduling
    PROVE  JInv'
  <1>1. /\ UNCHANGED <<pc, owner, bootVars, joined, halted, poolVars>> /\ scheduling' = TRUE
        /\ wake' = [c \in Cores |-> wake[c] \/ (ncpu > 1 /\ c # 0)]
    BY DEF StartScheduling
  <1>2. \A c \in Cores : (wake[c] \/ (ncpu > 1 /\ c # 0)) \in BOOLEAN
    OBVIOUS
  <1>3. wake' \in [Cores -> BOOLEAN]
    BY <1>1, <1>2
  <1>4. TypeOK'
    BY <1>1, <1>3 DEF JInv, TypeOK, bootVars, poolVars
  <1>5. /\ Open' <=> Open
        /\ Setting' <=> Setting
        /\ InJob' <=> InJob
        /\ Up' = Up
        /\ Booting' <=> Booting
    BY <1>1 DEF Open, Setting, InJob, Up, Booting
  <1>6. Pool'
    BY <1>1, <1>5, PoolQuiet DEF bootVars
  <1>7. Places' /\ Boots'
    BY <1>1, <1>5 DEF JInv, Places, Boots, bootVars, poolVars
  <1> QED
    BY <1>4, <1>6, <1>7 DEF JInv

\* At boot nobody but core 0 runs.
LEMMA InitJInv == Init => JInv
  <1> SUFFICES ASSUME Init PROVE JInv
    OBVIOUS
  <1>1. TypeOK
    <2>1. NAps \in Nat /\ MaxJobs \in Nat /\ 0 \in 0..NAps /\ 1 \in 1..(NAps + 1) /\ 0 \in 0..(NAps + 1)
          /\ 0 \in 0..MaxJobs /\ 0 \in Cores
      BY CoreFacts, SmpAssumption
    <2>2. pc \in [Cores -> Labels]
      BY DEF Init, Labels
    <2>3. /\ boot \in [ap : 0..NAps, idx : 1..(NAps + 1), before : 1..(NAps + 1)]
          /\ tramp \in [stack : 0..NAps, block : 0..NAps]
          /\ stack \in [Cores -> 0..NAps] /\ block \in [Cores -> 0..NAps]
      BY <2>1 DEF Init
    <2>4. /\ job \in [fn : 0..MaxJobs, arg : 0..MaxJobs, n : 0..(NAps + 1),
                       next : 0..Spent, done : 0..(NAps + 1), active : BOOLEAN]
          /\ mine \in [Cores -> [share : 0..Spent, fn : 0..MaxJobs, arg : 0..MaxJobs]]
      BY <2>1 DEF Init, Spent, NoShare
    <2> QED
      BY <2>1, <2>2, <2>3, <2>4 DEF Init, TypeOK
  <1>2. pc[0] = "boot" /\ \A c \in Aps : pc[c] = "off"
    BY CoreFacts DEF Init
  <1>3. Places
    BY <1>2, CoreFacts DEF Init, Places, Held, Loose, Away
  <1>4. Up = {}
    BY <1>2 DEF Up, Away
  <1>5. Boots
    BY <1>2, <1>4, FS_EmptySet DEF Init, Boots
  <1>6. ~Open /\ ~Setting /\ \A c \in Cores : pc[c] \notin Helping
    BY <1>2, CoreFacts DEF Init, Open, Setting, Helping
  <1>7. Pool
    BY <1>6 DEF Init, Pool, Idles, Described, Shared, JobWhole, Helping
  <1> QED
    BY <1>1, <1>3, <1>5, <1>7 DEF JInv

\* One step per action.
LEMMA NextJInv == JInv /\ [Next]_vars => JInv'
  <1> SUFFICES ASSUME JInv, [Next]_vars PROVE JInv'
    OBVIOUS
  <1>1. CASE UNCHANGED vars
    <2>1. UNCHANGED <<pc, owner, bootVars, idleVars, poolVars, ncpu>>
      BY <1>1 DEF vars, bootVars
    <2>2. /\ Open' <=> Open
          /\ Setting' <=> Setting
          /\ InJob' <=> InJob
          /\ Up' = Up
          /\ Booting' <=> Booting
      BY <2>1 DEF Open, Setting, InJob, Up, Booting
    <2>3. Pool'
      BY <2>1, <2>2, PoolQuiet
    <2>4. TypeOK'
      BY <2>1 DEF JInv, TypeOK, bootVars, idleVars, poolVars
    <2> QED
      BY <2>1, <2>2, <2>3, <2>4 DEF JInv, Places, Boots, bootVars, poolVars
  <1>2. CASE BringUp
    BY <1>2, BootStep, BootEndStep, ApStep DEF BringUp
  <1>3. CASE StartScheduling
    BY <1>3, StartStep
  <1>4. ASSUME NEW c \in Cores, Step(c)
        PROVE  JInv'
    BY <1>4, IdleStep, SetUpStep, WakeStep, ClaimStep, CompareStep, FetchStep, RunShareStep,
       CountStep, RunEndStep DEF Step
  <1>5. ASSUME NEW c \in Cores, Ticked(c) \/ Enter(c) \/ LetGo(c) \/ GoIdle(c) \/ RunAlone(c) \/ SmpRun(c)
        PROVE  JInv'
    BY <1>5, IdleStep, RunAloneStep, SmpRunStep
  <1> QED
    BY <1>1, <1>2, <1>3, <1>4, <1>5 DEF Next

\* The pool's invariant holds in every reachable state, for any number of
\* cores and jobs, and also where a core may start late.
THEOREM SmpPool == Spec => []JInv
  <1>1. Init => JInv
    BY InitJInv
  <1>2. JInv /\ [Next]_vars => JInv'
    BY NextJInv
  <1> QED
    BY <1>1, <1>2, PTL DEF Spec

\* A share is run for the job it was claimed from, and for the first time.
LEMMA JInvRightJob ==
    ASSUME JInv
    PROVE  RightJob
  <1> SUFFICES ASSUME NEW c \in Cores, pc[c] = "run"
               PROVE  /\ mine[c].fn = calls /\ mine[c].arg = calls
                      /\ mine[c].share \in Shares /\ ran[mine[c].share] = 0
    BY DEF RightJob
  <1>1. Open
    BY DEF JInv, Pool, Idles
  <1>2. mine[c].share < ncpu /\ mine[c].share \in Nat /\ Holding(c)
    BY <1>1, PoolTypes DEF JInv, Pool, Shared, Holding
  <1>3. mine[c].share \in Shares
    BY <1>2, PoolTypes DEF Shares, JInv
  <1> QED
    BY <1>1, <1>2, <1>3 DEF JInv, Pool, Shared

----------------------------------------------------------------------------
(* The blocks and the stacks.                                              *)

\* The core being started, if one is.
Given == IF pc[0] = "await" THEN boot.ap + 1 ELSE 0

\* If a core that was given up stays off, only the one being started is on its
\* way up; it alone has the block smp_init is at, and the others have earlier
\* ones.
OwnInv ==
    /\ \A c \in Aps : pc[c] \in {"tramp", "entry", "online"} => c = Given
    /\ \A c \in Aps : pc[c] \in {"entry", "online"} => stack[c] = c
    /\ \A c \in Aps : pc[c] = "online" => block[c] = boot.idx
    /\ \A c \in Aps : pc[c] \notin Away =>
         /\ stack[c] = c /\ block[c] >= 1
         /\ block[c] < boot.idx \/ (c = Given /\ block[c] = boot.idx)
    /\ \A c, d \in Aps : pc[c] \notin Away /\ pc[d] \notin Away /\ c # d => block[c] # block[d]
    /\ pc[0] = "await" =>
         /\ tramp.stack = Given /\ tramp.block = boot.idx /\ boot.before = boot.idx
         /\ pc[Given] \in Away => online = boot.idx
         /\ pc[Given] \notin Away => online = boot.idx + 1
    /\ pc[0] = "boot" => online = boot.idx
    /\ ~Booting => ncpu = online /\ online = boot.idx

\* The types OwnInv is read with.
LEMMA OwnTypes ==
    ASSUME JInv
    PROVE  /\ boot \in [ap : 0..NAps, idx : 1..(NAps + 1), before : 1..(NAps + 1)]
           /\ boot.idx \in Nat /\ boot.idx >= 1 /\ boot.ap \in Nat /\ boot.before \in Nat
           /\ \A c \in Cores : block[c] \in Nat /\ stack[c] \in Nat
           /\ stack \in [Cores -> 0..NAps] /\ block \in [Cores -> 0..NAps]
           /\ pc \in [Cores -> Labels] /\ online \in Nat
           /\ pc[0] = "await" => Given \in Aps /\ Given = boot.ap + 1
           /\ pc[0] # "await" => Given = 0
  <1>1. boot.ap \in 0..NAps /\ NAps \in Nat
    BY CoreFacts DEF JInv, TypeOK
  <1>2. pc[0] = "await" => boot.ap + 1 \in Aps
    BY <1>1 DEF JInv, Boots, Aps
  <1> QED
    BY <1>1, <1>2, CoreFacts DEF JInv, TypeOK, Given

\* A step that is not part of the bring-up.
LEMMA OwnQuiet ==
    ASSUME JInv, OwnInv, UNCHANGED bootVars,
           \A c \in Cores : \/ pc'[c] = pc[c]
                            \/ /\ pc[c] \notin Away \cup {"boot", "await"}
                               /\ pc'[c] \notin Away \cup {"boot", "await"}
    PROVE  OwnInv'
  <1>1. /\ pc'[0] = "await" <=> pc[0] = "await"
        /\ pc'[0] = "boot" <=> pc[0] = "boot"
        /\ Booting' <=> Booting
    BY CoreFacts DEF Booting
  <1>2. \A c \in Aps : /\ pc'[c] \in Away <=> pc[c] \in Away
                       /\ \A l \in {"tramp", "entry", "online"} : pc'[c] = l <=> pc[c] = l
    BY CoreFacts DEF Away
  <1>3. Given' = Given /\ (pc[0] = "await" => Given \in Aps)
    BY <1>1, OwnTypes DEF Given, bootVars
  <1> QED
    BY <1>1, <1>2, <1>3 DEF OwnInv, bootVars

\* smp_init.
LEMMA OwnBoot ==
    ASSUME JInv, OwnInv, ~Late, BootNext \/ BootSkip \/ BootDone \/ BootTimeout \/ BootEnd
    PROVE  OwnInv'
  <1>1. UNCHANGED <<stack, block, online>>
    BY DEF BootNext, BootSkip, BootDone, BootTimeout, BootEnd
  <1>2. CASE BootNext
    <2>1. PICK l \in {"tramp", "dead"} : pc' = [pc EXCEPT ![0] = "await", ![boot.ap + 1] = l]
      BY <1>2 DEF BootNext
    <2>2. /\ pc[0] = "boot" /\ boot.ap < NAps /\ boot' = [boot EXCEPT !.before = online]
          /\ tramp' = [stack |-> boot.ap + 1, block |-> boot.idx]
      BY <1>2 DEF BootNext
    <2>3. boot.ap + 1 \in Aps /\ boot.ap + 1 \in Cores
      <3>1. boot.ap \in Nat /\ NAps \in Nat
        BY OwnTypes, CoreFacts
      <3> QED
        BY <2>2, <3>1 DEF Aps, Cores
    <2>4. /\ pc'[0] = "await" /\ pc'[boot.ap + 1] = l /\ pc[boot.ap + 1] = "off"
          /\ \A d \in Aps : d # boot.ap + 1 => pc'[d] = pc[d]
      BY <2>1, <2>2, <2>3, OwnTypes, CoreFacts DEF JInv, Boots
    <2>5. /\ boot'.ap = boot.ap /\ boot'.idx = boot.idx /\ boot'.before = online /\ online = boot.idx
          /\ tramp'.stack = boot.ap + 1 /\ tramp'.block = boot.idx
          /\ Given' = boot.ap + 1 /\ Given = 0 /\ Booting'
      BY <2>2, <2>4, OwnTypes DEF OwnInv, Given, Booting
    <2>6. \A c \in Aps : /\ pc'[c] \notin Away => pc[c] \notin Away /\ c # boot.ap + 1
                         /\ pc'[c] \in {"tramp", "entry", "online"} => c = boot.ap + 1 /\ pc'[c] = "tramp"
                         /\ pc[c] \notin Away => block[c] < boot.idx
      BY <2>4, <2>5, CoreFacts DEF OwnInv, Away
    <2> QED
      BY <1>1, <2>4, <2>5, <2>6 DEF OwnInv, Away
  <1>3. CASE BootSkip \/ BootDone \/ BootTimeout
    <2>1. /\ pc'[0] = "boot" /\ \A d \in Aps : pc'[d] = pc[d]
      BY <1>3, OwnTypes, CoreFacts DEF BootSkip, BootDone, BootTimeout, Goto
    <2>2. Given' = 0 /\ Booting' /\ pc[0] \in {"boot", "await"}
      BY <1>3, <2>1 DEF Given, Booting, BootSkip, BootDone, BootTimeout
    <2>3. /\ \A c \in Aps : pc[c] \notin {"tramp", "entry", "online"}
          /\ boot'.idx = online /\ boot'.idx >= boot.idx
          /\ \A c \in Aps : pc[c] \notin Away => block[c] < boot'.idx
      <3>1. CASE BootSkip
        <4>1. pc[0] = "boot" /\ boot'.idx = boot.idx
          BY <3>1, OwnTypes DEF BootSkip
        <4> QED
          BY <4>1, OwnTypes, CoreFacts DEF OwnInv
      <3>2. CASE BootDone
        <4>1. pc[0] = "await" /\ boot'.idx = boot.idx + 1 /\ online # boot.before
          BY <3>2, OwnTypes DEF BootDone
        <4>2. pc[Given] \notin Away /\ online = boot.idx + 1
          BY <4>1, OwnTypes DEF OwnInv
        <4> QED
          BY <4>1, <4>2, OwnTypes, CoreFacts DEF OwnInv, Away
      <3>3. CASE BootTimeout
        <4>1. pc[0] = "await" /\ boot'.idx = boot.idx /\ online = boot.before /\ pc[boot.ap + 1] = "dead"
          BY <3>3, OwnTypes DEF BootTimeout
        <4>2. Given = boot.ap + 1 /\ pc[Given] = "dead"
          BY <4>1, OwnTypes
        <4> QED
          BY <4>1, <4>2, OwnTypes, CoreFacts DEF OwnInv, Away
      <3> QED
        BY <1>3, <3>1, <3>2, <3>3
    <2> QED
      BY <1>1, <2>1, <2>2, <2>3 DEF OwnInv
  <1>4. CASE BootEnd
    <2>1. /\ pc[0] = "boot" /\ pc'[0] = "kernel" /\ \A d \in Aps : pc'[d] = pc[d]
          /\ ncpu' = online /\ UNCHANGED <<boot, tramp>>
      BY <1>4, OwnTypes, CoreFacts DEF BootEnd, Goto
    <2>2. Given = 0 /\ Given' = 0 /\ ~Booting'
      BY <2>1 DEF Given, Booting
    <2> QED
      BY <1>1, <2>1, <2>2, CoreFacts DEF OwnInv
  <1> QED
    BY <1>2, <1>3, <1>4

\* The core on its way up.
LEMMA OwnAp ==
    ASSUME JInv, OwnInv, NEW c \in Aps, ApStack(c) \/ ApEntry(c) \/ ApOnline(c)
    PROVE  OwnInv'
  <1>1. c = Given /\ pc[0] = "await" /\ c \in Cores /\ c # 0 /\ 0 \in Cores
    BY OwnTypes, CoreFacts DEF OwnInv, ApStack, ApEntry, ApOnline
  <1>2. /\ tramp.stack = c /\ tramp.block = boot.idx /\ boot.before = boot.idx
        /\ pc[c] \in Away /\ online = boot.idx
        /\ \A d \in Aps : pc[d] \notin Away => d # c /\ block[d] < boot.idx
    BY <1>1 DEF OwnInv, ApStack, ApEntry, ApOnline, Away
  <1>3. /\ \A d \in Aps : d # c => pc'[d] = pc[d] /\ stack'[d] = stack[d] /\ block'[d] = block[d]
        /\ pc'[0] = pc[0]
        /\ UNCHANGED <<boot, tramp, ncpu>>
    BY <1>1, OwnTypes, CoreFacts DEF ApStack, ApEntry, ApOnline, Goto
  <1>4. Given' = Given /\ Booting /\ Booting'
    BY <1>1, <1>3 DEF Given, Booting
  <1>5. CASE ApStack(c)
    <2>1. pc'[c] = "entry" /\ stack'[c] = c /\ block' = block /\ online' = online
      BY <1>1, <1>2, <1>5, OwnTypes DEF ApStack, Goto
    <2> QED
      BY <1>1, <1>2, <1>3, <1>4, <2>1 DEF OwnInv, Away
  <1>6. CASE ApEntry(c)
    <2>1. pc[c] = "entry" /\ pc'[c] = "online" /\ stack' = stack /\ block'[c] = boot.idx /\ online' = online
      BY <1>1, <1>2, <1>6, OwnTypes DEF ApEntry, Goto
    <2> QED
      BY <1>1, <1>2, <1>3, <1>4, <2>1 DEF OwnInv, Away
  <1>7. CASE ApOnline(c)
    <2>1. /\ pc[c] = "online" /\ pc'[c] = "look" /\ stack' = stack /\ block' = block
          /\ online' = online + 1
      BY <1>1, <1>7, OwnTypes DEF ApOnline, Goto
    <2>2. stack[c] = c /\ block[c] = boot.idx /\ boot.idx >= 1
      BY <2>1, OwnTypes DEF OwnInv
    <2>3. \A d \in Aps : pc[d] \notin Away => block[d] # block[c]
      BY <1>2, <2>2, OwnTypes, CoreFacts
    <2> QED
      BY <1>1, <1>2, <1>3, <1>4, <2>1, <2>2, <2>3 DEF OwnInv, Away
  <1> QED
    BY <1>5, <1>6, <1>7

\* Nobody has been started.
LEMMA InitOwn == Init => OwnInv
  <1> SUFFICES ASSUME Init PROVE OwnInv
    OBVIOUS
  <1>1. pc[0] = "boot" /\ \A c \in Aps : pc[c] = "off"
    BY CoreFacts DEF Init
  <1> QED
    BY <1>1 DEF Init, OwnInv, Away, Booting

\* What the steps outside the bring-up do to the place of a core.
LEMMA AwayStep ==
    ASSUME JInv, NEW c \in Cores,
           Step(c) \/ Ticked(c) \/ Enter(c) \/ LetGo(c) \/ GoIdle(c) \/ RunAlone(c) \/ SmpRun(c)
    PROVE  /\ UNCHANGED bootVars
           /\ \A d \in Cores : \/ pc'[d] = pc[d]
                               \/ /\ pc[d] \notin Away \cup {"boot", "await"}
                                  /\ pc'[d] \notin Away \cup {"boot", "await"}
  <1>0. pc \in [Cores -> Labels]
    BY DEF JInv, TypeOK
  <1>1. CASE Roused(c) \/ Ticked(c) \/ Unhalt(c) \/ Look(c) \/ TryEnter(c) \/ Join(c) \/ Doze(c)
    BY <1>0, <1>1 DEF Roused, Ticked, LeaveHlt, Unhalt, Look, TryEnter, Join, Doze, Goto, Away
  <1>2. CASE SetUp(c) \/ WakeHalted(c)
    BY <1>0, <1>2 DEF SetUp, Store, WakeHalted, Goto, Away
  <1>3. CASE Claim(c) \/ Compare(c) \/ Fetch(c) \/ RunShare(c) \/ Count(c) \/ RunEnd(c)
    BY <1>0, <1>3 DEF Claim, Compare, Fetch, RunShare, Count, RunEnd, Goto, Away
  <1>4. CASE Enter(c) \/ LetGo(c) \/ GoIdle(c) \/ RunAlone(c) \/ SmpRun(c)
    BY <1>0, <1>4 DEF Enter, LetGo, GoIdle, RunAlone, SmpRun, Goto, Away
  <1> QED
    BY <1>1, <1>2, <1>3, <1>4 DEF Step

\* One step per part of the system.
LEMMA NextOwn == ~Late /\ JInv /\ OwnInv /\ [Next]_vars => OwnInv'
  <1> SUFFICES ASSUME ~Late, JInv, OwnInv, [Next]_vars PROVE OwnInv'
    OBVIOUS
  <1>1. CASE UNCHANGED vars \/ StartScheduling
    <2>1. UNCHANGED <<pc, bootVars>>
      BY <1>1 DEF vars, StartScheduling
    <2> QED
      BY <2>1, OwnQuiet
  <1>2. CASE BringUp
    BY <1>2, OwnBoot, OwnAp DEF BringUp
  <1>3. ASSUME NEW c \in Cores,
               Step(c) \/ Ticked(c) \/ Enter(c) \/ LetGo(c) \/ GoIdle(c) \/ RunAlone(c) \/ SmpRun(c)
        PROVE  OwnInv'
    BY <1>3, AwayStep, OwnQuiet
  <1> QED
    BY <1>1, <1>2, <1>3 DEF Next

\* Different blocks, different stacks, and every block below ncpu.
LEMMA OwnInvBlock ==
    ASSUME JInv, OwnInv
    PROVE  OwnBlock
  <1> SUFFICES ASSUME NEW c \in Aps, pc[c] \notin {"off", "dead", "tramp", "entry"}
               PROVE  /\ block[c] # 0
                      /\ \A d \in Aps : d # c /\ pc[d] \notin {"off", "dead", "tramp", "entry"} =>
                             block[c] # block[d] /\ stack[c] # stack[d]
                      /\ ncpu > 1 => block[c] < ncpu
    BY DEF OwnBlock
  <1>1. c \in Cores /\ block[c] \in Nat /\ boot.idx \in Nat /\ boot.idx >= 1
    BY OwnTypes, CoreFacts
  <1>2. \A d \in Aps : pc[d] \notin {"off", "dead", "tramp", "entry"} =>
            /\ stack[d] = d
            /\ \/ pc[d] = "online" /\ d = Given /\ block[d] = boot.idx
               \/ pc[d] \notin Away /\ block[d] >= 1
                  /\ (block[d] < boot.idx \/ (d = Given /\ block[d] = boot.idx))
    BY DEF OwnInv, Away
  <1>3. block[c] # 0
    BY <1>1, <1>2
  <1>4. ASSUME NEW d \in Aps, d # c, pc[d] \notin {"off", "dead", "tramp", "entry"}
        PROVE  block[c] # block[d] /\ stack[c] # stack[d]
    <2>1. block[d] \in Nat
      BY OwnTypes, CoreFacts
    <2>2. pc[c] \notin Away /\ pc[d] \notin Away => block[c] # block[d]
      BY <1>4 DEF OwnInv
    <2> QED
      BY <1>1, <1>2, <1>4, <2>1, <2>2
  <1>5. ncpu > 1 => block[c] < ncpu
    <2> SUFFICES ASSUME ncpu > 1 PROVE block[c] < ncpu
      OBVIOUS
    <2>1. ~Booting
      BY DEF JInv, Boots
    <2>2. ncpu = boot.idx /\ Given = 0 /\ c # 0
      BY <2>1, CoreFacts DEF OwnInv, Given, Booting
    <2> QED
      BY <1>1, <1>2, <2>2
  <1> QED
    BY <1>3, <1>4, <1>5

\* In the pool of smp.c every claimed share is run for its own job and run
\* once, and smp_run returns only when all are done, whatever core looks when,
\* for any number of cores, also if one starts late.
THEOREM SmpShares == Spec => [](TypeOK /\ RightJob /\ JobWhole)
  <1>1. JInv => TypeOK /\ RightJob /\ JobWhole
    BY JInvRightJob DEF JInv, Pool
  <1> QED
    BY <1>1, SmpPool, PTL

\* If a core that smp_init gave up stays off, no two cores share a percpu
\* block or a stack either.
THEOREM SmpEachItsOwn == ASSUME ~Late PROVE Spec => []EachItsOwn
  <1>1. Init => JInv /\ OwnInv
    BY InitJInv, InitOwn
  <1>2. JInv /\ OwnInv /\ [Next]_vars => (JInv /\ OwnInv)'
    BY NextJInv, NextOwn
  <1>3. JInv /\ OwnInv => EachItsOwn
    BY JInvRightJob, OwnInvBlock DEF EachItsOwn, JInv, Pool
  <1> QED
    BY <1>1, <1>2, <1>3, PTL DEF Spec

=============================================================================
