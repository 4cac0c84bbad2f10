------------------------------ MODULE BklProofs ------------------------------
(***************************************************************************)
(* Proofs about Bkl for any number of cores and any nesting bound.         *)
(*                                                                         *)
(* The argument is about one core's stack of contexts and its depth        *)
(* (GoodStack): the contexts inside the kernel are the innermost ones and  *)
(* bkl_depth counts them.  The lemmas say what each way of changing a      *)
(* stack does to it; the lock's owner then follows core by core.           *)
(*                                                                         *)
(* On top of it, where on a stack a tick can be and what in_timer stands   *)
(* for (TickInv), and who still owes an answer to a shootdown (ShootInv).  *)
(***************************************************************************)
EXTENDS Bkl, TLAPS, SequenceTheorems, FiniteSetTheorems

\* Programs and scheduler loops are at the bottom of a stack, a system call
\* stands directly on its program.
Shape(s) ==
    /\ s \in Seq(Context)
    /\ Len(s) >= 1
    /\ s[1].kind \in {"user", "loop"}
    /\ \A i \in 1..Len(s) :
         /\ s[i].kind = "user" => i = 1
         /\ s[i].kind = "user" <=> s[i].pc = "run"
         /\ s[i].kind = "loop" => i = 1
         /\ s[i].kind = "sys" => i = 2 /\ s[1].kind = "user"

\* The d innermost contexts, and no others, are inside the kernel.
Counted(s, d) ==
    /\ d \in Nat
    /\ d <= Len(s)
    /\ \A i \in 1..Len(s) : s[i].pc \in Holding <=> i > Len(s) - d

GoodStack(s, d) == Shape(s) /\ Counted(s, d)

\* Core c alone: its stack, its remembered depth, and the lock.
CoreOk(c) ==
    /\ GoodStack(stk[c], depth[c])
    /\ saved[c] \in {0, 1}
    /\ owner = c <=> depth[c] > 0

\* The part of TypeOK about the lock and the stacks.
LockTypeOK ==
    /\ owner \in Cores \cup {None}
    /\ depth \in [Cores -> Nat]
    /\ saved \in [Cores -> Nat]
    /\ stk \in [Cores -> Seq(Context)]
    /\ \A c \in Cores : Len(stk[c]) >= 1

IInv ==
    /\ TypeOK
    /\ \A c \in Cores : CoreOk(c)
    /\ ~panicked

----------------------------------------------------------------------------
(* Stacks.                                                                 *)

\* AtPc moves the innermost context of a stack and nothing else.
LEMMA AtPcFacts ==
    ASSUME NEW s \in Seq(Context), Len(s) >= 1, NEW p \in Pcs
    PROVE  /\ AtPc(s, p) \in Seq(Context)
           /\ Len(AtPc(s, p)) = Len(s)
           /\ \A i \in 1..Len(s) :
                AtPc(s, p)[i] = IF i = Len(s) THEN At(s[Len(s)].kind, p) ELSE s[i]
  <1>1. Len(s) \in 1..Len(s) /\ Len(s) \in Nat
    BY LenProperties
  <1>2. s[Len(s)] \in Context
    BY <1>1, ElementOfSeq
  <1>3. At(s[Len(s)].kind, p) \in Context
    BY <1>2 DEF At, Context
  <1> QED
    BY <1>1, <1>3, ExceptSeq DEF AtPc

\* Pop drops the innermost context.
LEMMA PopFacts ==
    ASSUME NEW s \in Seq(Context), Len(s) >= 1
    PROVE  /\ Pop(s) \in Seq(Context)
           /\ Len(Pop(s)) = Len(s) - 1
           /\ \A i \in 1..(Len(s) - 1) : Pop(s)[i] = s[i]
  <1>1. Len(s) \in Nat /\ Len(s) - 1 \in Nat
    BY LenProperties
  <1>2. \A i \in 1..(Len(s) - 1) : s[i] \in Context
    BY <1>1, ElementOfSeq
  <1> QED
    BY <1>1, <1>2, IsASeq DEF Pop

\* Being inside the kernel is holding the lock at least one deep.
LEMMA TopHolds ==
    ASSUME NEW s, NEW d, GoodStack(s, d)
    PROVE  /\ d \in Nat
           /\ Len(s) \in Nat /\ Len(s) >= 1
           /\ Top(s) \in Context
           /\ Top(s).pc \in Holding <=> d > 0
  <1>1. /\ s \in Seq(Context) /\ Len(s) >= 1 /\ d \in Nat /\ d <= Len(s)
        /\ \A i \in 1..Len(s) : s[i].pc \in Holding <=> i > Len(s) - d
    BY DEF GoodStack, Shape, Counted
  <1>2. Len(s) \in Nat
    BY <1>1, LenProperties
  <1>3. Len(s) \in 1..Len(s)
    BY <1>1, <1>2
  <1>4. s[Len(s)] \in Context
    BY <1>1, <1>3, ElementOfSeq
  <1>5. s[Len(s)].pc \in Holding <=> Len(s) > Len(s) - d
    BY <1>1, <1>3
  <1> QED
    BY <1>1, <1>2, <1>4, <1>5 DEF Top

\* A step inside one context keeps the count when the context stays inside or
\* stays outside the kernel.
LEMMA MoveOk ==
    ASSUME NEW s, NEW d, GoodStack(s, d), NEW p \in Pcs, p # "run",
           Top(s).kind # "user", Top(s).pc \in Holding <=> p \in Holding
    PROVE  GoodStack(AtPc(s, p), d)
  <1> DEFINE t == AtPc(s, p)
  <1>1. /\ s \in Seq(Context) /\ Len(s) \in Nat /\ Len(s) >= 1 /\ d \in Nat
        /\ Top(s) = s[Len(s)]
    BY TopHolds DEF GoodStack, Shape, Top
  <1>2. p \in Pcs /\ p # "run"
    BY DEF Pcs, Holding
  <1>3. /\ t \in Seq(Context) /\ Len(t) = Len(s)
        /\ \A i \in 1..Len(s) : i # Len(s) => t[i] = s[i]
        /\ t[Len(s)] = At(s[Len(s)].kind, p)
    BY <1>1, <1>2, AtPcFacts
  <1>4. t[Len(s)].kind = Top(s).kind /\ t[Len(s)].pc = p
    BY <1>1, <1>3 DEF At
  <1> HIDE DEF t
  <1>5. Shape(t)
    BY <1>1, <1>2, <1>3, <1>4 DEF GoodStack, Shape
  <1>6. Counted(t, d)
    BY <1>1, <1>3, <1>4 DEF GoodStack, Counted
  <1> QED
    BY <1>5, <1>6 DEF GoodStack, t

\* Letting go of a lock held once, from the innermost context.
LEMMA LetGoOk ==
    ASSUME NEW s, GoodStack(s, 1), NEW p \in Pcs \ Holding, p # "run",
           Top(s).kind # "user"
    PROVE  GoodStack(AtPc(s, p), 0)
  <1> DEFINE t == AtPc(s, p)
  <1>1. /\ s \in Seq(Context) /\ Len(s) \in Nat /\ Len(s) >= 1 /\ 1 \in Nat
        /\ Top(s) = s[Len(s)]
    BY TopHolds DEF GoodStack, Shape, Top
  <1>2. p \in Pcs /\ p # "run"
    BY DEF Pcs, Holding
  <1>3. /\ t \in Seq(Context) /\ Len(t) = Len(s)
        /\ \A i \in 1..Len(s) : i # Len(s) => t[i] = s[i]
        /\ t[Len(s)] = At(s[Len(s)].kind, p)
    BY <1>1, <1>2, AtPcFacts
  <1>4. t[Len(s)].kind = Top(s).kind /\ t[Len(s)].pc = p
    BY <1>1, <1>3 DEF At
  <1> HIDE DEF t
  <1>5. Shape(t)
    BY <1>1, <1>2, <1>3, <1>4 DEF GoodStack, Shape
  <1>6. Counted(t, 0)
    BY <1>1, <1>3, <1>4 DEF GoodStack, Counted
  <1> QED
    BY <1>5, <1>6 DEF GoodStack, t

\* Winning the lock in the innermost context.
LEMMA WinOk ==
    ASSUME NEW s, GoodStack(s, 0), NEW p \in Holding, Top(s).kind # "user"
    PROVE  GoodStack(AtPc(s, p), 1)
  <1> DEFINE t == AtPc(s, p)
  <1>1. /\ s \in Seq(Context) /\ Len(s) \in Nat /\ Len(s) >= 1 /\ 0 \in Nat
        /\ Top(s) = s[Len(s)]
    BY TopHolds DEF GoodStack, Shape, Top
  <1>2. p \in Pcs /\ p # "run"
    BY DEF Pcs, Holding
  <1>3. /\ t \in Seq(Context) /\ Len(t) = Len(s)
        /\ \A i \in 1..Len(s) : i # Len(s) => t[i] = s[i]
        /\ t[Len(s)] = At(s[Len(s)].kind, p)
    BY <1>1, <1>2, AtPcFacts
  <1>4. t[Len(s)].kind = Top(s).kind /\ t[Len(s)].pc = p
    BY <1>1, <1>3 DEF At
  <1> HIDE DEF t
  <1>5. Shape(t)
    BY <1>1, <1>2, <1>3, <1>4 DEF GoodStack, Shape
  <1>6. Counted(t, 1)
    BY <1>1, <1>3, <1>4 DEF GoodStack, Counted
  <1> QED
    BY <1>5, <1>6 DEF GoodStack, t

\* A new context: inside when the lock is held, outside when it is not.
LEMMA PushOk ==
    ASSUME NEW s, NEW d, GoodStack(s, d),
           NEW k \in {"sys", "trap", "tick", "timer", "dev"},
           k = "sys" => Top(s).kind = "user"
    PROVE  /\ d > 0 => GoodStack(Append(s, At(k, "in")), d + 1)
           /\ d = 0 => GoodStack(Append(s, At(k, "in")), 1)
           /\ d = 0 => GoodStack(Append(s, At(k, "cas")), 0)
  <1>1. s \in Seq(Context) /\ Len(s) >= 1 /\ Len(s) \in Nat /\ d \in Nat
    BY TopHolds DEF GoodStack, Shape
  <1>2. \A i \in 1..Len(s) : s[i] \in Context
    BY <1>1, ElementOfSeq
  <1>3. k = "sys" => Len(s) = 1 /\ s[1].kind = "user"
    <2>1. Top(s) = s[Len(s)] /\ Len(s) \in 1..Len(s)
      BY <1>1 DEF Top
    <2> QED
      BY <1>1, <2>1 DEF GoodStack, Shape
  <1>4. ASSUME NEW p \in {"in", "cas"}
        PROVE  Shape(Append(s, At(k, p)))
    <2>1. At(k, p) \in Context /\ At(k, p).kind = k /\ At(k, p).pc = p
      BY DEF At, Context, Kinds, Pcs, Holding, Waiting
    <2> QED
      BY <1>1, <1>2, <1>3, <2>1, AppendProperties DEF GoodStack, Shape
  <1>5. /\ Len(Append(s, At(k, "in"))) = Len(s) + 1
        /\ Len(Append(s, At(k, "cas"))) = Len(s) + 1
        /\ At(k, "in") \in Context /\ At(k, "cas") \in Context
    BY <1>1, AppendProperties DEF At, Context, Kinds, Pcs, Holding, Waiting
  <1>6. /\ d > 0 => Counted(Append(s, At(k, "in")), d + 1)
        /\ d = 0 => Counted(Append(s, At(k, "in")), 1)
        /\ d = 0 => Counted(Append(s, At(k, "cas")), 0)
    BY <1>1, <1>2, <1>5, AppendProperties DEF GoodStack, Counted, At, Holding
  <1> QED
    BY <1>4, <1>6 DEF GoodStack

\* Returning from the innermost context gives back one level.
LEMMA PopOk ==
    ASSUME NEW s, NEW d, GoodStack(s, d), d > 0, Top(s).kind \notin {"user", "loop"},
           Len(s) > 1
    PROVE  GoodStack(Pop(s), d - 1)
  <1>1. s \in Seq(Context) /\ Len(s) > 1 /\ Len(s) \in Nat /\ d \in Nat
    BY TopHolds DEF GoodStack, Shape
  <1>2. Shape(Pop(s))
    <2>1. 1 \in 1..(Len(s) - 1) /\ Len(s) - 1 >= 1
      BY <1>1
    <2>2. Pop(s)[1] = s[1]
      BY <1>1, <2>1, PopFacts
    <2> QED
      BY <1>1, <2>1, <2>2, PopFacts DEF GoodStack, Shape
  <1>3. Counted(Pop(s), d - 1)
    <2>1. /\ Len(Pop(s)) = Len(s) - 1
          /\ \A i \in 1..(Len(s) - 1) : Pop(s)[i] = s[i]
      BY <1>1, PopFacts
    <2>2. d <= Len(s) /\ \A i \in 1..Len(s) : s[i].pc \in Holding <=> i > Len(s) - d
      BY DEF GoodStack, Counted
    <2>3. ASSUME NEW i \in 1..(Len(s) - 1)
          PROVE  Pop(s)[i].pc \in Holding <=> i > (Len(s) - 1) - (d - 1)
      <3>1. i \in 1..Len(s) /\ (i > (Len(s) - 1) - (d - 1) <=> i > Len(s) - d)
        BY <1>1
      <3> QED
        BY <2>1, <2>2, <3>1
    <2>4. d - 1 \in Nat /\ d - 1 <= Len(s) - 1
      BY <1>1, <2>2
    <2> QED
      BY <2>1, <2>3, <2>4 DEF Counted
  <1> QED
    BY <1>2, <1>3 DEF GoodStack

\* Being woken from hlt changes nothing that counts.
LEMMA RousedOk ==
    ASSUME NEW s, NEW d, GoodStack(s, d)
    PROVE  /\ GoodStack(Roused(s), d)
           /\ Top(Roused(s)).kind = Top(s).kind
  <1>1. CASE Top(s).pc # "halt"
    BY <1>1 DEF Roused
  <1>2. CASE Top(s).pc = "halt"
    <2>1. Top(s).kind # "user" /\ s \in Seq(Context) /\ Len(s) >= 1 /\ Len(s) \in Nat
      BY <1>2, TopHolds DEF GoodStack, Shape, Top
    <2>2. "cas" \in Pcs /\ "cas" # "run" /\ "cas" \notin Holding /\ "halt" \notin Holding
      BY DEF Pcs, Holding, Waiting
    <2>3. GoodStack(AtPc(s, "cas"), d)
      BY <1>2, <2>1, <2>2, MoveOk
    <2>4. Top(AtPc(s, "cas")).kind = Top(s).kind
      <3>1. Len(AtPc(s, "cas")) = Len(s) /\ AtPc(s, "cas")[Len(s)] = At(s[Len(s)].kind, "cas")
        BY <2>1, <2>2, AtPcFacts
      <3> QED
        BY <3>1 DEF Top, At
    <2> QED
      BY <1>2, <2>3, <2>4 DEF Roused
  <1> QED
    BY <1>1, <1>2

----------------------------------------------------------------------------
(* The lock.                                                               *)

\* A step that changes only core c's stack and depth, keeps them good, and
\* hands the lock between c and nobody, leaves every core in order.
LEMMA OneCore ==
    ASSUME IInv, NEW c \in Cores, NEW s, NEW d, NEW v \in {0, 1},
           GoodStack(s, d),
           stk' = [stk EXCEPT ![c] = s],
           depth' = [depth EXCEPT ![c] = d],
           saved' = [saved EXCEPT ![c] = v],
           owner \in {c, None} \/ (owner' = owner /\ d = depth[c]),
           owner' = IF d > 0 THEN c ELSE IF owner = c THEN None ELSE owner
    PROVE  /\ \A e \in Cores : CoreOk(e)'
           /\ LockTypeOK'
  <1>1. c \in DOMAIN stk /\ c \in DOMAIN depth /\ c \in DOMAIN saved /\ None \notin Cores
    BY CoresAssumption DEF IInv, TypeOK
  <1>2. stk'[c] = s /\ depth'[c] = d /\ saved'[c] = v
    BY <1>1
  <1>3. d \in Nat
    BY DEF GoodStack, Counted
  <1>4. ASSUME NEW e \in Cores, e # c
        PROVE  CoreOk(e)'
    <2>1. stk'[e] = stk[e] /\ depth'[e] = depth[e] /\ saved'[e] = saved[e]
      BY <1>4 DEF IInv, TypeOK
    <2>2. owner' = e <=> owner = e
      BY <1>1, <1>3, <1>4 DEF IInv, CoreOk
    <2>3. CoreOk(e)
      BY DEF IInv
    <2> QED
      BY <2>1, <2>2, <2>3 DEF CoreOk
  <1>5. CoreOk(c)'
    BY <1>1, <1>2, <1>3 DEF CoreOk
  <1>6. LockTypeOK'
    BY <1>3 DEF IInv, TypeOK, LockTypeOK, GoodStack, Shape
  <1> QED
    BY <1>4, <1>5, <1>6

\* What IInv says of one core, in the form the steps below use it.
LEMMA CoreFacts ==
    ASSUME IInv, NEW c \in Cores
    PROVE  /\ GoodStack(stk[c], depth[c])
           /\ saved[c] \in {0, 1}
           /\ depth[c] \in Nat
           /\ owner = c <=> depth[c] > 0
           /\ Top(stk[c]).pc \in Holding <=> depth[c] > 0
           /\ Top(stk[c]).kind = "user" => Top(stk[c]).pc = "run" /\ Len(stk[c]) = 1
           /\ Top(stk[c]).kind = "loop" => Len(stk[c]) = 1
           /\ Top(stk[c]).pc = "run" => Top(stk[c]).kind = "user"
           /\ depth = [depth EXCEPT ![c] = depth[c]]
           /\ saved = [saved EXCEPT ![c] = saved[c]]
  <1>1. GoodStack(stk[c], depth[c])
    BY DEF IInv, CoreOk
  <1>2. Len(stk[c]) \in 1..Len(stk[c])
    BY <1>1, TopHolds
  <1>3. /\ Top(stk[c]).kind = "user" => Top(stk[c]).pc = "run" /\ Len(stk[c]) = 1
        /\ Top(stk[c]).kind = "loop" => Len(stk[c]) = 1
        /\ Top(stk[c]).pc = "run" => Top(stk[c]).kind = "user"
    BY <1>1, <1>2 DEF GoodStack, Shape, Top
  <1>4. depth[c] \in Nat /\ (Top(stk[c]).pc \in Holding <=> depth[c] > 0)
    BY <1>1, TopHolds
  <1>5. depth = [depth EXCEPT ![c] = depth[c]] /\ saved = [saved EXCEPT ![c] = saved[c]]
    BY DEF IInv, TypeOK
  <1> QED
    BY <1>1, <1>3, <1>4, <1>5 DEF IInv, CoreOk

\* A context inside the kernel directly above ring 3, or alone on its stack,
\* holds the lock exactly once.
LEMMA HeldOnce ==
    ASSUME NEW s, NEW d, GoodStack(s, d), Top(s).pc \in Holding,
           \/ Len(s) = 1
           \/ Len(s) = 2 /\ s[1].kind = "user"
    PROVE  d = 1
  <1>1. d \in Nat /\ d > 0 /\ Len(s) \in Nat
    BY TopHolds
  <1>2. CASE Len(s) = 1
    BY <1>1, <1>2 DEF GoodStack, Counted
  <1>3. CASE Len(s) = 2 /\ s[1].kind = "user"
    <2>1. s[1].pc = "run" /\ s[1].pc \notin Holding
      BY <1>3 DEF GoodStack, Shape, Holding
    <2>2. ~(1 > 2 - d) /\ d <= 2
      BY <1>3, <2>1 DEF GoodStack, Counted
    <2> QED
      BY <1>1, <2>2
  <1> QED
    BY <1>2, <1>3

\* The three stacks the scheduler starts a core on.
LEMMA FreshStacks ==
    /\ GoodStack(<<At("loop", "in")>>, 1)
    /\ GoodStack(<<At("loop", "cas")>>, 0)
    /\ GoodStack(<<At("user", "run")>>, 0)
    /\ GoodStack(<<At("user", "run"), At("sys", "in")>>, 1)
  <1>1. /\ At("loop", "in") \in Context /\ At("loop", "cas") \in Context
        /\ At("user", "run") \in Context /\ At("sys", "in") \in Context
    BY DEF At, Context, Kinds, Pcs, Holding, Waiting
  <1>2. ASSUME NEW a \in Context, NEW b \in Context
        PROVE  /\ <<a>> \in Seq(Context) /\ Len(<<a>>) = 1 /\ <<a>>[1] = a
               /\ <<a, b>> \in Seq(Context) /\ Len(<<a, b>>) = 2
               /\ <<a, b>>[1] = a /\ <<a, b>>[2] = b
    OBVIOUS
  <1>3. GoodStack(<<At("loop", "in")>>, 1) /\ GoodStack(<<At("loop", "cas")>>, 0)
    BY <1>1, <1>2 DEF GoodStack, Shape, Counted, At, Holding
  <1>4. GoodStack(<<At("user", "run")>>, 0)
    BY <1>1, <1>2 DEF GoodStack, Shape, Counted, At, Holding
  <1>5. GoodStack(<<At("user", "run"), At("sys", "in")>>, 1)
    <2>1. \A i \in 1..2 : i = 1 \/ i = 2
      OBVIOUS
    <2> QED
      BY <1>1, <1>2, <2>1 DEF GoodStack, Shape, Counted, At, Holding
  <1> QED
    BY <1>3, <1>4, <1>5

\* A step that changes only core c's stack.
LEMMA SameLock ==
    ASSUME IInv, NEW c \in Cores, NEW s, GoodStack(s, depth[c]),
           stk' = [stk EXCEPT ![c] = s], UNCHANGED <<owner, depth, saved>>
    PROVE  (\A e \in Cores : CoreOk(e)') /\ LockTypeOK'
  <1>1. /\ saved[c] \in {0, 1} /\ depth[c] \in Nat /\ (owner = c <=> depth[c] > 0)
        /\ depth' = [depth EXCEPT ![c] = depth[c]]
        /\ saved' = [saved EXCEPT ![c] = saved[c]]
    BY CoreFacts
  <1>2. owner' = IF depth[c] > 0 THEN c ELSE IF owner = c THEN None ELSE owner
    BY <1>1
  <1> QED
    BY <1>1, <1>2, OneCore

\* A step that gives core c's lock the depth d, to be called by c when it
\* holds the lock or nobody does.
LEMMA NewDepth ==
    ASSUME IInv, NEW c \in Cores, NEW s, NEW d, NEW v \in {0, 1}, GoodStack(s, d),
           owner \in {c, None},
           stk' = [stk EXCEPT ![c] = s], depth' = [depth EXCEPT ![c] = d],
           saved' = [saved EXCEPT ![c] = v], owner' = IF d > 0 THEN c ELSE None
    PROVE  (\A e \in Cores : CoreOk(e)') /\ LockTypeOK'
  <1>1. owner' = IF d > 0 THEN c ELSE IF owner = c THEN None ELSE owner
    OBVIOUS
  <1> QED
    BY <1>1, OneCore

\* A context that moves to another pc without touching the lock.
LEMMA MoveStep ==
    ASSUME IInv, NEW c \in Cores, NEW p \in Pcs, p # "run",
           Top(stk[c]).kind # "user", Top(stk[c]).pc \in Holding <=> p \in Holding,
           stk' = [stk EXCEPT ![c] = AtPc(@, p)],
           UNCHANGED <<owner, depth, saved>>
    PROVE  (\A e \in Cores : CoreOk(e)') /\ LockTypeOK'
  <1>1. stk' = [stk EXCEPT ![c] = AtPc(stk[c], p)]
    OBVIOUS
  <1>2. GoodStack(AtPc(stk[c], p), depth[c])
    BY CoreFacts, MoveOk
  <1> QED
    BY <1>1, <1>2, SameLock

\* An interrupt that takes nothing: at most the end of a hlt.
LEMMA RouseStep ==
    ASSUME IInv, NEW c \in Cores, stk' = [stk EXCEPT ![c] = Roused(@)],
           UNCHANGED <<owner, depth, saved>>
    PROVE  (\A e \in Cores : CoreOk(e)') /\ LockTypeOK'
  <1>1. stk' = [stk EXCEPT ![c] = Roused(stk[c])]
    OBVIOUS
  <1>2. GoodStack(Roused(stk[c]), depth[c])
    BY CoreFacts, RousedOk
  <1> QED
    BY <1>1, <1>2, SameLock

\* bkl_enter on a new context.
LEMMA EnterStep ==
    ASSUME IInv, NEW c \in Cores, NEW s, GoodStack(s, depth[c]),
           NEW k \in {"sys", "trap", "tick", "timer", "dev"},
           k = "sys" => Top(s).kind = "user",
           BklEnter(c, s, k), UNCHANGED <<owner, saved>>
    PROVE  (\A e \in Cores : CoreOk(e)') /\ LockTypeOK'
  <1>1. CASE owner = c
    <2>1. GoodStack(Append(s, At(k, "in")), depth[c] + 1)
      BY <1>1, CoreFacts, PushOk
    <2>2. /\ stk' = [stk EXCEPT ![c] = Append(s, At(k, "in"))]
          /\ depth' = [depth EXCEPT ![c] = depth[c] + 1]
      BY <1>1 DEF BklEnter
    <2>3. /\ saved[c] \in {0, 1} /\ saved' = [saved EXCEPT ![c] = saved[c]]
          /\ owner' = IF depth[c] + 1 > 0 THEN c ELSE None
      BY <1>1, CoreFacts
    <2> QED
      BY <1>1, <2>1, <2>2, <2>3, NewDepth
  <1>2. CASE owner # c
    <2>1. GoodStack(Append(s, At(k, "cas")), depth[c])
      BY <1>2, CoreFacts, PushOk
    <2>2. stk' = [stk EXCEPT ![c] = Append(s, At(k, "cas"))] /\ depth' = depth
      BY <1>2 DEF BklEnter
    <2> QED
      BY <2>1, <2>2, SameLock
  <1> QED
    BY <1>1, <1>2

\* bkl_exit from the innermost context.
LEMMA ExitStep ==
    ASSUME IInv, NEW c \in Cores, Top(stk[c]).pc \in Holding,
           Top(stk[c]).kind \notin {"user", "loop"}, Len(stk[c]) > 1,
           BklExit(c), stk' = [stk EXCEPT ![c] = Pop(@)], UNCHANGED saved
    PROVE  /\ \A e \in Cores : CoreOk(e)'
           /\ LockTypeOK' /\ ~panicked' /\ panicked' \in BOOLEAN
  <1>1. depth[c] > 0 /\ depth[c] \in Nat /\ owner = c
    BY CoreFacts
  <1>2. GoodStack(Pop(stk[c]), depth[c] - 1)
    BY <1>1, CoreFacts, PopOk
  <1>3. /\ stk' = [stk EXCEPT ![c] = Pop(stk[c])]
        /\ depth' = [depth EXCEPT ![c] = depth[c] - 1]
        /\ owner' = (IF depth[c] = 1 THEN None ELSE owner)
        /\ panicked' = panicked
    BY <1>1 DEF BklExit
  <1>4. /\ saved[c] \in {0, 1} /\ saved' = [saved EXCEPT ![c] = saved[c]]
        /\ owner' = IF depth[c] - 1 > 0 THEN c ELSE None
    BY <1>1, <1>3, CoreFacts
  <1>5. ~panicked /\ panicked \in BOOLEAN
    BY DEF IInv, TypeOK
  <1>6. (\A e \in Cores : CoreOk(e)') /\ LockTypeOK'
    BY <1>1, <1>2, <1>3, <1>4, NewDepth
  <1> QED
    BY <1>3, <1>5, <1>6

\* kctx_restore: the core, holding the lock once, goes on with another stack.
LEMMA SwitchStep ==
    ASSUME IInv, NEW c \in Cores, depth[c] = 1, NEW s, GoodStack(s, 1),
           stk' = [stk EXCEPT ![c] = s], UNCHANGED <<owner, depth, saved>>
    PROVE  (\A e \in Cores : CoreOk(e)') /\ LockTypeOK'
  BY SameLock

\* Letting go completely, in place.
LEMMA ReleaseStep ==
    ASSUME IInv, NEW c \in Cores, depth[c] = 1, NEW s, GoodStack(s, 0),
           stk' = [stk EXCEPT ![c] = s], depth' = [depth EXCEPT ![c] = 0],
           owner' = None, NEW v \in {0, 1}, saved' = [saved EXCEPT ![c] = v]
    PROVE  (\A e \in Cores : CoreOk(e)') /\ LockTypeOK'
  <1>1. owner = c
    BY CoreFacts
  <1>2. owner' = IF 0 > 0 THEN c ELSE None
    OBVIOUS
  <1> QED
    BY <1>1, <1>2, NewDepth

\* Every initial state is in order.
LEMMA InitIInv == Init => IInv
  <1> SUFFICES ASSUME Init PROVE IInv
    OBVIOUS
  <1>1. \A c \in Cores : GoodStack(stk[c], depth[c])
    BY FreshStacks DEF Init
  <1>2. \A c \in Cores : CoreOk(c)
    BY <1>1, CoresAssumption DEF Init, CoreOk
  <1>3. \A c \in Cores : stk[c] \in Seq(Context) /\ Len(stk[c]) >= 1
    BY <1>1 DEF GoodStack, Shape
  <1>4. stk \in [Cores -> Seq(Context)]
    BY <1>3 DEF Init
  <1> QED
    BY <1>2, <1>3, <1>4, CoresAssumption DEF Init, IInv, TypeOK

\* Every step keeps every core in order: one step per action.
LEMMA NextIInv == IInv /\ [Next]_vars => IInv'
  <1> SUFFICES ASSUME IInv, [Next]_vars PROVE IInv'
    OBVIOUS
  <1> DEFINE Rest == /\ inTimer \in [Cores -> BOOLEAN]
                     /\ tlbPend \in [Cores -> BOOLEAN]
                     /\ acks \in Nat
                     /\ stale \subseteq Cores
                     /\ panicked \in BOOLEAN
  <1>1. ASSUME LockTypeOK', \A e \in Cores : CoreOk(e)', Rest', ~panicked'
        PROVE  IInv'
    BY <1>1 DEF IInv, TypeOK, LockTypeOK
  <1>2. Rest
    BY DEF IInv, TypeOK
  <1>3. CASE UNCHANGED vars
    BY <1>3 DEF vars, IInv, TypeOK, CoreOk
  <1>4. ASSUME Next PROVE IInv'
    <2> PICK c \in Cores :
          Cas(c) \/ Spin(c) \/ WakeIsr(c) \/ TlbIsr(c) \/ Enter(c) \/ Inside(c) \/ Leave(c)
      BY <1>4 DEF Next
    <2>p. ~panicked
      BY <1>4 DEF Next
    <2> DEFINE P == (\A e \in Cores : CoreOk(e)') /\ LockTypeOK'
    <2>f. /\ "cas" \in Pcs /\ "spin" \in Pcs /\ "halt" \in Pcs /\ "in" \in Pcs
          /\ "ion" \in Pcs /\ "sched" \in Pcs /\ "shoot" \in Pcs
          /\ "in" \in Holding /\ "ion" \in Holding /\ "sched" \in Holding
          /\ "shoot" \in Holding /\ "cas" \notin Holding /\ "spin" \notin Holding
          /\ "halt" \notin Holding /\ "run" \notin Holding
      BY DEF Pcs, Holding, Waiting
    <2>1. CASE Cas(c)
      <3>1. Rest' /\ ~panicked' /\ Top(stk[c]).pc = "cas" /\ Top(stk[c]).kind # "user"
        BY <1>2, <2>p, <2>1, CoreFacts DEF Cas
      <3>2. CASE owner # None
        BY <1>1, <2>1, <2>f, <3>1, <3>2, MoveStep DEF Cas
      <3>3. CASE owner = None
        <4>1. depth[c] = 0
          BY <3>3, CoreFacts, CoresAssumption
        <4>2. GoodStack(AtPc(stk[c], "in"), 1)
          BY <2>f, <3>1, <4>1, CoreFacts, WinOk
        <4>3. PICK v \in {0, 1} : /\ depth' = [depth EXCEPT ![c] = 1]
                                  /\ saved' = [saved EXCEPT ![c] = v]
          BY <2>1, <3>3, CoreFacts DEF Cas
        <4>4. owner' = c /\ stk' = [stk EXCEPT ![c] = AtPc(stk[c], "in")]
          BY <2>1, <3>3 DEF Cas
        <4>5. owner' = IF 1 > 0 THEN c ELSE None
          BY <4>4
        <4>6. P
          BY <3>3, <4>2, <4>3, <4>4, <4>5, NewDepth
        <4> QED
          BY <1>1, <3>1, <4>6
      <3> QED
        BY <3>2, <3>3
    <2>2. CASE Spin(c)
      <3>1. Rest' /\ ~panicked' /\ Top(stk[c]).kind # "user"
        BY <1>2, <2>p, <2>2, CoreFacts DEF Spin
      <3>2. P
        BY <2>2, <2>f, <3>1, MoveStep DEF Spin
      <3> QED
        BY <1>1, <3>1, <3>2
    <2>3. CASE WakeIsr(c)
      <3>1. Rest' /\ ~panicked' /\ P
        BY <1>2, <2>p, <2>3, RouseStep DEF WakeIsr
      <3> QED
        BY <1>1, <3>1
    <2>4. CASE TlbIsr(c)
      <3>1. P
        BY <2>4, RouseStep DEF TlbIsr
      <3>2. ~panicked' /\ Rest'
        BY <1>2, <2>p, <2>4 DEF TlbIsr
      <3> QED
        BY <1>1, <3>1, <3>2
    <2>5. CASE Enter(c)
      <3>1. CASE Syscall(c)
        <4>1. Rest' /\ ~panicked' /\ P
          BY <1>2, <2>p, <3>1, CoreFacts, EnterStep DEF Syscall
        <4> QED
          BY <1>1, <4>1
      <3>2. CASE Trap(c)
        <4>1. Rest' /\ ~panicked' /\ P
          BY <1>2, <2>p, <3>2, CoreFacts, EnterStep DEF Trap
        <4> QED
          BY <1>1, <4>1
      <3>3. CASE Timer(c)
        <4>1. Rest' /\ ~panicked'
          BY <1>2, <2>p, <3>3 DEF Timer
        <4>2. CASE inTimer[c]
          BY <1>1, <3>3, <4>1, <4>2, RouseStep DEF Timer
        <4>3. CASE ~inTimer[c]
          <5>1. GoodStack(Roused(stk[c]), depth[c])
            BY CoreFacts, RousedOk
          <5>2. P
            BY <3>3, <4>3, <5>1, EnterStep DEF Timer
          <5> QED
            BY <1>1, <4>1, <5>2
        <4> QED
          BY <4>2, <4>3
      <3>4. CASE Device(c)
        <4>1. GoodStack(Roused(stk[c]), depth[c])
          BY CoreFacts, RousedOk
        <4>2. Rest' /\ ~panicked' /\ P
          BY <1>2, <2>p, <3>4, <4>1, EnterStep DEF Device
        <4> QED
          BY <1>1, <4>2
      <3>5. CASE Tick(c)
        <4>1. Rest' /\ ~panicked' /\ saved' = saved
          BY <1>2, <2>p, <3>5 DEF Tick
        <4>2. CASE owner \notin {None, c}
          BY <1>1, <3>5, <4>1, <4>2, RouseStep DEF Tick
        <4>3. CASE owner = c
          <5>1. GoodStack(Append(Roused(stk[c]), At("tick", "in")), depth[c] + 1)
            BY <4>3, CoreFacts, RousedOk, PushOk
          <5>2. /\ stk' = [stk EXCEPT ![c] = Append(Roused(stk[c]), At("tick", "in"))]
                /\ depth' = [depth EXCEPT ![c] = depth[c] + 1]
                /\ owner' = c
            BY <3>5, <4>3 DEF Tick
          <5>3. P
            <6>1. /\ saved[c] \in {0, 1} /\ saved' = [saved EXCEPT ![c] = saved[c]]
                  /\ owner' = IF depth[c] + 1 > 0 THEN c ELSE None
              BY <4>1, <5>2, CoreFacts
            <6> QED
              BY <4>3, <5>1, <5>2, <6>1, NewDepth
          <5> QED
            BY <1>1, <4>1, <5>3
        <4>4. CASE owner = None
          <5>1. depth[c] = 0 /\ owner # c
            BY <4>4, CoreFacts, CoresAssumption
          <5>2. GoodStack(Append(Roused(stk[c]), At("tick", "in")), 1)
            BY <5>1, CoreFacts, RousedOk, PushOk
          <5>3. /\ stk' = [stk EXCEPT ![c] = Append(Roused(stk[c]), At("tick", "in"))]
                /\ depth' = [depth EXCEPT ![c] = 1]
                /\ owner' = c
            BY <3>5, <4>4, <5>1 DEF Tick
          <5>4. P
            <6>1. /\ saved[c] \in {0, 1} /\ saved' = [saved EXCEPT ![c] = saved[c]]
                  /\ owner' = IF 1 > 0 THEN c ELSE None
              BY <4>1, <5>3, CoreFacts
            <6> QED
              BY <4>4, <5>2, <5>3, <6>1, NewDepth
          <5> QED
            BY <1>1, <4>1, <5>4
        <4> QED
          BY <4>2, <4>3, <4>4
      <3> QED
        BY <2>5, <3>1, <3>2, <3>3, <3>4, <3>5 DEF Enter
    <2>6. CASE Inside(c)
      <3>1. CASE OpenInterrupts(c)
        <4>1. Rest' /\ ~panicked' /\ P
          BY <1>2, <2>p, <2>f, <3>1, MoveStep DEF OpenInterrupts
        <4> QED
          BY <1>1, <4>1
      <3>2. CASE CloseInterrupts(c)
        <4>1. Top(stk[c]).kind # "user"
          BY <3>2, CoreFacts DEF CloseInterrupts
        <4>2. Rest' /\ ~panicked' /\ P
          BY <1>2, <2>p, <2>f, <3>2, <4>1, MoveStep DEF CloseInterrupts
        <4> QED
          BY <1>1, <4>2
      <3>3. CASE TickHandled(c)
        <4>1. Rest' /\ ~panicked' /\ P
          BY <1>2, <2>p, <2>f, <3>3, MoveStep DEF TickHandled
        <4> QED
          BY <1>1, <4>1
      <3>4. CASE Shootdown(c)
        <4>1. Top(stk[c]).kind # "user" /\ Top(stk[c]).pc \in Holding
          BY <2>f, <3>4, CoreFacts DEF Shootdown
        <4>2. Rest' /\ ~panicked' /\ P
          BY <1>2, <2>p, <2>f, <3>4, <4>1, MoveStep DEF Shootdown
        <4> QED
          BY <1>1, <4>2
      <3>5. CASE ShootdownDone(c)
        <4>1. Top(stk[c]).kind # "user" /\ Top(stk[c]).pc \in Holding
          BY <2>f, <3>5, CoreFacts DEF ShootdownDone
        <4>2. Rest' /\ ~panicked'
          BY <1>2, <2>p, <3>5 DEF ShootdownDone
        <4>3. PICK p \in {"in", "sched"} : stk' = [stk EXCEPT ![c] = AtPc(@, p)]
          BY <3>5 DEF ShootdownDone
        <4>4. P
          BY <2>f, <3>5, <4>1, <4>3, MoveStep DEF ShootdownDone
        <4> QED
          BY <1>1, <4>2, <4>4
      <3> QED
        BY <2>6, <3>1, <3>2, <3>3, <3>4, <3>5 DEF Inside
    <2>7. CASE Leave(c)
      <3>h. Len(stk[c]) \in Nat /\ Len(stk[c]) >= 1
        BY CoreFacts, TopHolds
      <3>b. stk[c][1].kind \in {"user", "loop"}
        BY CoreFacts DEF GoodStack, Shape
      <3>u. ASSUME FromUser(c), Top(stk[c]).pc \in {"in", "sched"} PROVE depth[c] = 1
        BY <2>f, <3>u, CoreFacts, HeldOnce DEF FromUser
      <3>l. ASSUME Top(stk[c]) = At("loop", "in") PROVE depth[c] = 1
        <4>1. Top(stk[c]).kind = "loop" /\ Top(stk[c]).pc \in Holding
          BY <2>f, <3>l DEF At
        <4> QED
          BY <4>1, CoreFacts, HeldOnce
      <3>1. CASE Return(c)
        <4>1. Len(stk[c]) > 1
          BY <3>1, <3>h, <3>b DEF Return, Top
        <4>2. Rest' /\ ~panicked' /\ P
          BY <1>2, <2>f, <3>1, <4>1, ExitStep DEF Return
        <4> QED
          BY <1>1, <4>2
      <3>2. CASE TickReturn(c)
        <4>1. Len(stk[c]) > 1 /\ Top(stk[c]).kind \notin {"user", "loop"}
          BY <3>2, <3>h, <3>b DEF TickReturn, Top
        <4>2. Rest' /\ ~panicked' /\ P
          BY <1>2, <2>f, <3>2, <4>1, ExitStep DEF TickReturn
        <4> QED
          BY <1>1, <4>2
      <3>3. CASE TickToKernel(c)
        <4>1. Rest' /\ ~panicked' /\ P
          BY <1>2, <2>p, <3>3, <3>u, FreshStacks, SwitchStep DEF TickToKernel
        <4> QED
          BY <1>1, <4>1
      <3>4. CASE LeaveToLoop(c)
        <4>1. Rest' /\ ~panicked' /\ P
          BY <1>2, <2>p, <3>4, <3>u, FreshStacks, SwitchStep DEF LeaveToLoop
        <4> QED
          BY <1>1, <4>1
      <3>5. CASE ResumeUser(c)
        <4>1. depth[c] = 1 /\ saved = [saved EXCEPT ![c] = saved[c]] /\ saved[c] \in {0, 1}
          BY <3>5, <3>l, CoreFacts DEF ResumeUser
        <4>2. P
          BY <3>5, <4>1, FreshStacks, ReleaseStep DEF ResumeUser, BklExitToUser
        <4>3. Rest' /\ ~panicked'
          BY <1>2, <2>p, <3>5, <4>1 DEF ResumeUser, BklExitToUser
        <4> QED
          BY <1>1, <4>2, <4>3
      <3>6. CASE ResumeKernel(c)
        <4>1. Rest' /\ ~panicked' /\ P
          BY <1>2, <2>p, <3>6, <3>l, FreshStacks, SwitchStep DEF ResumeKernel
        <4> QED
          BY <1>1, <4>1
      <3>7. CASE Idle(c)
        <4>1. depth[c] = 1 /\ saved = [saved EXCEPT ![c] = saved[c]] /\ saved[c] \in {0, 1}
          BY <3>7, <3>l, CoreFacts DEF Idle
        <4>2. GoodStack(AtPc(stk[c], "halt"), 0)
          BY <2>f, <3>7, <4>1, CoreFacts, LetGoOk DEF Idle, At
        <4>3. /\ stk' = [stk EXCEPT ![c] = AtPc(stk[c], "halt")]
              /\ depth' = [depth EXCEPT ![c] = 0]
              /\ owner' = None /\ saved' = saved
          BY <3>7, <4>1 DEF Idle, BklExit
        <4>q. ~panicked' /\ panicked' \in BOOLEAN
          BY <1>2, <2>p, <3>7, <4>1 DEF Idle, BklExit
        <4>4. P
          BY <4>1, <4>2, <4>3, ReleaseStep
        <4>5. Rest'
          BY <1>2, <3>7, <4>q DEF Idle
        <4> QED
          BY <1>1, <4>q, <4>4, <4>5
      <3>8. CASE WaitInterrupt(c)
        <4>1. Top(stk[c]).kind = "sys" /\ Top(stk[c]).pc = "in"
          BY <3>8 DEF WaitInterrupt, At
        <4>2. Len(stk[c]) = 2 /\ stk[c][1].kind = "user"
          <5>1. Len(stk[c]) \in 1..Len(stk[c]) /\ Top(stk[c]) = stk[c][Len(stk[c])]
            BY <3>h DEF Top
          <5>2. Shape(stk[c])
            BY CoreFacts DEF GoodStack
          <5> QED
            BY <4>1, <5>1, <5>2 DEF Shape
        <4>3. depth[c] = 1
          BY <2>f, <4>1, <4>2, CoreFacts, HeldOnce
        <4>4. GoodStack(AtPc(stk[c], "halt"), 0)
          BY <2>f, <4>1, <4>3, CoreFacts, LetGoOk
        <4>5. P
          BY <3>8, <4>3, <4>4, ReleaseStep DEF WaitInterrupt
        <4>6. Rest' /\ ~panicked'
          BY <1>2, <2>p, <3>8 DEF WaitInterrupt
        <4> QED
          BY <1>1, <4>5, <4>6
      <3> QED
        BY <2>7, <3>1, <3>2, <3>3, <3>4, <3>5, <3>6, <3>7, <3>8 DEF Leave
    <2> QED
      BY <2>1, <2>2, <2>3, <2>4, <2>5, <2>6, <2>7
  <1> QED
    BY <1>3, <1>4

\* The inductive invariant holds in every reachable state.
THEOREM LockInvariant == Spec => []IInv
  BY InitIInv, NextIInv, PTL DEF Spec

\* The state stays well formed.
THEOREM BklTypeOK == Spec => []TypeOK
  <1>1. IInv => TypeOK
    BY DEF IInv
  <1> QED
    BY <1>1, LockInvariant, PTL

\* The kernel runs on one core at a time (bkl.h): two cores inside the kernel
\* would both have a positive depth, and so both be the lock's one owner.
THEOREM BklKernelExclusive == Spec => []KernelExclusive
  <1>1. IInv => KernelExclusive
    <2> SUFFICES ASSUME IInv, NEW c \in Cores, NEW d \in Cores,
                        Top(stk[c]).pc \in Holding, Top(stk[d]).pc \in Holding
                 PROVE  c = d
      BY DEF KernelExclusive
    <2> QED
      BY CoreFacts
  <1> QED
    BY <1>1, LockInvariant, PTL

\* bkl_depth counts the contexts inside the kernel, whatever the nesting.
THEOREM BklDepthCounts == Spec => []DepthCounts
  <1>1. IInv => DepthCounts
    BY DEF IInv, CoreOk, GoodStack, Counted, DepthCounts
  <1> QED
    BY <1>1, LockInvariant, PTL

\* Neither of the lock's two panics is reachable.
THEOREM BklNoPanic == Spec => []NoPanic
  <1>1. IInv => NoPanic
    BY DEF IInv, NoPanic
  <1> QED
    BY <1>1, LockInvariant, PTL

----------------------------------------------------------------------------
(* Ticks.                                                                  *)

\* Past the point where in_timer is cleared, or waiting for answers: with
\* interrupts off until the context is left.
Late == {"sched", "shoot"}

\* Where the ticks of core c are on its stack, t being its in_timer.  A
\* context in sched_on_tick or in a shootdown has interrupts off and is the
\* innermost; so is another core's tick.  A timer interrupt that has not come
\* to sched_on_tick is the one in_timer stands for.
TickStack(c, s, t) ==
    /\ \A i \in 1..Len(s) :
         /\ s[i].pc \in Late => i = Len(s)
         /\ s[i].kind = "tick" => c # Bsp /\ i = Len(s) /\ s[i].pc \in Late \cup {"in"}
         /\ s[i].kind = "timer" => c = Bsp /\ (t \/ s[i].pc \in Late)
    /\ \A i, j \in 1..Len(s) : s[i].kind = "timer" /\ s[j].kind = "timer" => i = j

\* Who still owes an answer: the interrupt is pending at exactly the cores
\* that may use the old translation, tlb_acks has counted the others, and
\* somebody waits for them.
ShootInv ==
    /\ \A d \in Cores : tlbPend[d] <=> d \in stale
    /\ \A c \in Cores : Top(stk[c]).pc = "shoot" =>
         c \notin stale /\ acks + Cardinality(stale) = Cardinality(Cores) - 1
    /\ stale # {} => \E c \in Cores : Top(stk[c]).pc = "shoot"

TickInv == \A c \in Cores : TickStack(c, stk[c], inTimer[c])

\* The innermost context after each way of changing a stack.
LEMMA TopFacts ==
    ASSUME NEW s \in Seq(Context), Len(s) >= 1
    PROVE  /\ Top(s) = s[Len(s)] /\ Len(s) \in Nat /\ Len(s) \in 1..Len(s)
           /\ \A p \in Pcs : Top(AtPc(s, p)) = At(Top(s).kind, p)
           /\ \A e \in Context : Top(Append(s, e)) = e
           /\ Len(s) > 1 => Top(Pop(s)) = s[Len(s) - 1]
  <1>1. Len(s) \in Nat /\ Len(s) \in 1..Len(s) /\ Top(s) = s[Len(s)]
    BY LenProperties DEF Top
  <1>2. ASSUME NEW p \in Pcs PROVE Top(AtPc(s, p)) = At(Top(s).kind, p)
    BY <1>1, AtPcFacts DEF Top
  <1>3. ASSUME NEW e \in Context PROVE Top(Append(s, e)) = e
    BY <1>1, AppendProperties DEF Top
  <1>4. ASSUME Len(s) > 1 PROVE Top(Pop(s)) = s[Len(s) - 1]
    BY <1>1, <1>4, PopFacts DEF Top
  <1> QED
    BY <1>1, <1>2, <1>3, <1>4

\* The innermost context moves on.
LEMMA MoveTicks ==
    ASSUME NEW c \in Cores, NEW s \in Seq(Context), Len(s) >= 1, NEW t \in BOOLEAN,
           TickStack(c, s, t), NEW p \in Pcs, NEW u \in BOOLEAN,
           Top(s).kind = "timer" => p \in Late \/ u,
           Top(s).kind = "tick" => p \in Late \cup {"in"},
           u = t \/ Top(s).kind \in {"tick", "timer"}
    PROVE  TickStack(c, AtPc(s, p), u)
  <1> DEFINE r == AtPc(s, p)
  <1>1. Len(s) \in Nat /\ Len(s) \in 1..Len(s) /\ Top(s) = s[Len(s)]
    BY TopFacts
  <1>2. /\ Len(r) = Len(s)
        /\ \A i \in 1..Len(s) : i # Len(s) => r[i] = s[i]
        /\ r[Len(s)] = At(s[Len(s)].kind, p)
    BY <1>1, AtPcFacts
  <1> HIDE DEF r
  <1>a. r[Len(s)].kind = Top(s).kind /\ r[Len(s)].pc = p
    BY <1>1, <1>2 DEF At
  <1>3. \A i \in 1..Len(s) : r[i].kind = s[i].kind
    BY <1>1, <1>2, <1>a
  <1>4. ASSUME NEW i \in 1..Len(s), s[i].kind = "timer"
        PROVE  u \/ r[i].pc \in Late
    <2>1. CASE i = Len(s)
      BY <1>1, <1>a, <1>4, <2>1
    <2>2. CASE i # Len(s) /\ u = t
      BY <1>2, <1>4, <2>2 DEF TickStack
    <2>3. CASE i # Len(s) /\ u # t
      BY <1>1, <1>4, <2>3 DEF TickStack
    <2> QED
      BY <2>1, <2>2, <2>3
  <1>5. \A i \in 1..Len(s) : r[i].pc \in Late => i = Len(s)
    BY <1>2, <1>a DEF TickStack
  <1>6. \A i \in 1..Len(s) : s[i].kind = "tick" => r[i].pc \in Late \cup {"in"}
    BY <1>1, <1>2, <1>a DEF TickStack
  <1> QED
    BY <1>2, <1>3, <1>4, <1>5, <1>6 DEF TickStack, r

\* A new context over one that lets interrupts in.
LEMMA PushTicks ==
    ASSUME NEW c \in Cores, NEW s \in Seq(Context), Len(s) >= 1, NEW t \in BOOLEAN,
           TickStack(c, s, t), Top(s).pc \notin Late, Top(s).kind # "tick",
           NEW k \in Kinds, NEW p \in Pcs \ Late, NEW u \in BOOLEAN,
           k = "timer" => c = Bsp /\ ~t /\ u,
           k = "tick" => c # Bsp /\ p = "in",
           k # "timer" => u = t
    PROVE  TickStack(c, Append(s, At(k, p)), u)
  <1> DEFINE e == At(k, p)
             r == Append(s, e)
  <1>1. Len(s) \in Nat /\ Len(s) \in 1..Len(s) /\ Top(s) = s[Len(s)]
    BY TopFacts
  <1>2. e \in Context /\ e.kind = k /\ e.pc = p
    BY DEF At, Context
  <1>3. /\ Len(r) = Len(s) + 1
        /\ \A i \in 1..Len(s) : r[i] = s[i]
        /\ r[Len(s) + 1] = e
    BY <1>1, <1>2, AppendProperties
  <1> HIDE DEF r, e
  <1>4. \A i \in 1..Len(s) : s[i].pc \notin Late /\ s[i].kind # "tick"
    BY <1>1 DEF TickStack
  <1>5. \A i \in 1..Len(s) : s[i].kind = "timer" => c = Bsp /\ t
    BY <1>4 DEF TickStack
  <1>6. \A i \in 1..Len(r) : i \in 1..Len(s) \/ i = Len(s) + 1
    BY <1>1, <1>3
  <1>7. ASSUME NEW i \in 1..Len(r)
        PROVE  /\ r[i].pc \in Late => i = Len(r)
               /\ r[i].kind = "tick" => c # Bsp /\ i = Len(r) /\ r[i].pc \in Late \cup {"in"}
               /\ r[i].kind = "timer" => c = Bsp /\ (u \/ r[i].pc \in Late)
    BY <1>2, <1>3, <1>4, <1>5, <1>6
  <1>8. ASSUME NEW i \in 1..Len(r), NEW j \in 1..Len(r), r[i].kind = "timer", r[j].kind = "timer"
        PROVE  i = j
    BY <1>2, <1>3, <1>5, <1>6, <1>8 DEF TickStack
  <1> QED
    BY <1>7, <1>8 DEF TickStack, r, e

\* Back to what was interrupted, which is nowhere a tick could be missed.
LEMMA PopTicks ==
    ASSUME NEW c \in Cores, NEW s \in Seq(Context), Len(s) > 1, NEW t \in BOOLEAN,
           TickStack(c, s, t)
    PROVE  TickStack(c, Pop(s), t) /\ Top(Pop(s)).pc \notin Late
  <1>1. Len(s) \in Nat /\ Top(Pop(s)) = s[Len(s) - 1]
    BY TopFacts
  <1>2. /\ Len(Pop(s)) = Len(s) - 1
        /\ \A i \in 1..(Len(s) - 1) : Pop(s)[i] = s[i]
    BY PopFacts
  <1>3. \A i \in 1..(Len(s) - 1) : i \in 1..Len(s) /\ i # Len(s)
    BY <1>1
  <1>4. Len(s) - 1 \in 1..(Len(s) - 1)
    BY <1>1
  <1>5. \A i \in 1..(Len(s) - 1) : s[i].pc \notin Late /\ s[i].kind # "tick"
    BY <1>3 DEF TickStack
  <1>6. TickStack(c, Pop(s), t)
    BY <1>2, <1>3, <1>5 DEF TickStack
  <1> QED
    BY <1>1, <1>4, <1>5, <1>6

\* The stacks the scheduler starts a core on hold no tick.
LEMMA FreshTicks ==
    ASSUME NEW c \in Cores, NEW t \in BOOLEAN
    PROVE  /\ TickStack(c, <<At("loop", "in")>>, t)
           /\ TickStack(c, <<At("loop", "cas")>>, t)
           /\ TickStack(c, <<At("user", "run")>>, t)
           /\ TickStack(c, <<At("user", "run"), At("sys", "in")>>, t)
  BY DEF TickStack, At, Late

\* An interrupt ends hlt and moves no tick.
LEMMA RousedTicks ==
    ASSUME NEW c \in Cores, NEW s \in Seq(Context), Len(s) >= 1, NEW t \in BOOLEAN,
           TickStack(c, s, t), Top(s).pc \notin Late
    PROVE  /\ Roused(s) \in Seq(Context) /\ Len(Roused(s)) = Len(s)
           /\ TickStack(c, Roused(s), t)
           /\ Top(Roused(s)).pc \notin Late /\ Top(Roused(s)).kind = Top(s).kind
  <1>1. CASE Top(s).pc # "halt"
    BY <1>1 DEF Roused
  <1>2. CASE Top(s).pc = "halt"
    <2>1. "cas" \in Pcs /\ "cas" \notin Late
      BY DEF Pcs, Waiting, Late
    <2>2. Top(AtPc(s, "cas")).pc = "cas" /\ Top(AtPc(s, "cas")).kind = Top(s).kind
      BY <2>1, TopFacts DEF At
    <2>3. (Top(s).kind = "timer" => t) /\ Top(s).kind # "tick"
      BY <1>2, TopFacts DEF TickStack, Late
    <2>4. TickStack(c, AtPc(s, "cas"), t)
      BY <2>1, <2>3, MoveTicks
    <2> QED
      BY <1>2, <2>1, <2>2, <2>4, AtPcFacts DEF Roused
  <1> QED
    BY <1>1, <1>2

\* A step that changes core c's stack and in_timer, and keeps them in order.
LEMMA OneCoreTicks ==
    ASSUME IInv, TickInv, NEW c \in Cores, NEW s, NEW u \in BOOLEAN, TickStack(c, s, u),
           stk' = [stk EXCEPT ![c] = s], inTimer' = [inTimer EXCEPT ![c] = u]
    PROVE  TickInv'
  <1>1. c \in DOMAIN stk /\ c \in DOMAIN inTimer
    BY DEF IInv, TypeOK
  <1>2. stk'[c] = s /\ inTimer'[c] = u
    BY <1>1
  <1>3. ASSUME NEW e \in Cores, e # c
        PROVE  TickStack(e, stk'[e], inTimer'[e])
    <2>1. stk'[e] = stk[e] /\ inTimer'[e] = inTimer[e]
      BY <1>3 DEF IInv, TypeOK
    <2> QED
      BY <2>1 DEF TickInv
  <1> QED
    BY <1>2, <1>3 DEF TickInv

\* What IInv and TickInv say of one core's ticks.
LEMMA TickFacts ==
    ASSUME IInv, TickInv, NEW c \in Cores
    PROVE  /\ stk[c] \in Seq(Context) /\ Len(stk[c]) >= 1 /\ Len(stk[c]) \in Nat
           /\ inTimer[c] \in BOOLEAN
           /\ inTimer = [inTimer EXCEPT ![c] = inTimer[c]]
           /\ TickStack(c, stk[c], inTimer[c])
           /\ Top(stk[c]).kind = "timer" => inTimer[c] \/ Top(stk[c]).pc \in Late
           /\ Top(stk[c]).kind = "tick" => Top(stk[c]).pc \in Late \cup {"in"}
  <1>1. stk[c] \in Seq(Context) /\ Len(stk[c]) >= 1 /\ inTimer[c] \in BOOLEAN
    BY DEF IInv, TypeOK
  <1>2. inTimer = [inTimer EXCEPT ![c] = inTimer[c]]
    BY DEF IInv, TypeOK
  <1>3. TickStack(c, stk[c], inTimer[c])
    BY DEF TickInv
  <1>4. /\ Len(stk[c]) \in Nat /\ Len(stk[c]) \in 1..Len(stk[c])
        /\ Top(stk[c]) = stk[c][Len(stk[c])]
    BY <1>1, TopFacts
  <1>5. /\ Top(stk[c]).kind = "timer" => inTimer[c] \/ Top(stk[c]).pc \in Late
        /\ Top(stk[c]).kind = "tick" => Top(stk[c]).pc \in Late \cup {"in"}
    BY <1>3, <1>4 DEF TickStack
  <1> QED
    BY <1>1, <1>2, <1>3, <1>4, <1>5

\* A step inside the innermost context.
LEMMA MoveTicksStep ==
    ASSUME IInv, TickInv, NEW c \in Cores, NEW p \in Pcs,
           Top(stk[c]).kind = "timer" => p \in Late \/ Top(stk[c]).pc \notin Late,
           Top(stk[c]).kind = "tick" => p \in Late \cup {"in"},
           stk' = [stk EXCEPT ![c] = AtPc(@, p)], inTimer' = inTimer
    PROVE  TickInv'
  <1>1. TickStack(c, AtPc(stk[c], p), inTimer[c])
    BY TickFacts, MoveTicks
  <1>2. stk' = [stk EXCEPT ![c] = AtPc(stk[c], p)]
    OBVIOUS
  <1>3. inTimer[c] \in BOOLEAN /\ inTimer' = [inTimer EXCEPT ![c] = inTimer[c]]
    BY TickFacts
  <1> QED
    BY <1>1, <1>2, <1>3, OneCoreTicks

\* A step that only ends hlt.
LEMMA RouseTicksStep ==
    ASSUME IInv, TickInv, NEW c \in Cores, Top(stk[c]).pc \notin Late,
           stk' = [stk EXCEPT ![c] = Roused(@)], inTimer' = inTimer
    PROVE  TickInv'
  <1>1. TickStack(c, Roused(stk[c]), inTimer[c])
    BY TickFacts, RousedTicks
  <1>2. stk' = [stk EXCEPT ![c] = Roused(stk[c])]
    OBVIOUS
  <1>3. inTimer[c] \in BOOLEAN /\ inTimer' = [inTimer EXCEPT ![c] = inTimer[c]]
    BY TickFacts
  <1> QED
    BY <1>1, <1>2, <1>3, OneCoreTicks

\* bkl_enter on a new context that is not a tick, or is a timer interrupt that
\* has just set in_timer.
LEMMA EnterTicksStep ==
    ASSUME IInv, TickInv, NEW c \in Cores, NEW s \in Seq(Context), Len(s) >= 1,
           TickStack(c, s, inTimer[c]), Top(s).pc \notin Late, Top(s).kind # "tick",
           NEW k \in Kinds \ {"tick"}, NEW u \in BOOLEAN, BklEnter(c, s, k),
           inTimer' = [inTimer EXCEPT ![c] = u],
           k = "timer" => c = Bsp /\ ~inTimer[c] /\ u,
           k # "timer" => u = inTimer[c]
    PROVE  TickInv'
  <1>1. "in" \in Pcs \ Late /\ "cas" \in Pcs \ Late
    BY DEF Pcs, Holding, Waiting, Late
  <1>2. PICK p \in {"in", "cas"} : stk' = [stk EXCEPT ![c] = Append(s, At(k, p))]
    BY DEF BklEnter
  <1>3. TickStack(c, Append(s, At(k, p)), u)
    BY <1>1, <1>2, TickFacts, PushTicks
  <1> QED
    BY <1>2, <1>3, OneCoreTicks

\* Back to the context below.
LEMMA PopTicksStep ==
    ASSUME IInv, TickInv, NEW c \in Cores, Len(stk[c]) > 1,
           stk' = [stk EXCEPT ![c] = Pop(@)], inTimer' = inTimer
    PROVE  TickInv'
  <1>1. TickStack(c, Pop(stk[c]), inTimer[c])
    BY TickFacts, PopTicks
  <1>2. stk' = [stk EXCEPT ![c] = Pop(stk[c])]
    OBVIOUS
  <1>3. inTimer[c] \in BOOLEAN /\ inTimer' = [inTimer EXCEPT ![c] = inTimer[c]]
    BY TickFacts
  <1> QED
    BY <1>1, <1>2, <1>3, OneCoreTicks

\* A core goes on with another stack.
LEMMA SwitchTicksStep ==
    ASSUME IInv, TickInv, NEW c \in Cores, NEW s, inTimer' = inTimer,
           s \in {<<At("loop", "in")>>, <<At("user", "run")>>,
                  <<At("user", "run"), At("sys", "in")>>},
           stk' = [stk EXCEPT ![c] = s]
    PROVE  TickInv'
  <1>1. TickStack(c, s, inTimer[c])
    BY TickFacts, FreshTicks
  <1>2. inTimer[c] \in BOOLEAN /\ inTimer' = [inTimer EXCEPT ![c] = inTimer[c]]
    BY TickFacts
  <1> QED
    BY <1>1, <1>2, OneCoreTicks

\* No step makes a tick stack up: one step per action.
LEMMA NextTicks == IInv /\ TickInv /\ [Next]_vars => TickInv'
  <1> SUFFICES ASSUME IInv, TickInv, [Next]_vars PROVE TickInv'
    OBVIOUS
  <1>1. CASE UNCHANGED vars
    BY <1>1 DEF vars, TickInv
  <1>2. ASSUME Next PROVE TickInv'
    <2> PICK c \in Cores :
          Cas(c) \/ Spin(c) \/ WakeIsr(c) \/ TlbIsr(c) \/ Enter(c) \/ Inside(c) \/ Leave(c)
      BY <1>2 DEF Next
    <2>f. /\ "cas" \in Pcs \ Late /\ "spin" \in Pcs \ Late /\ "halt" \in Pcs \ Late
          /\ "in" \in Pcs \ Late /\ "ion" \in Pcs \ Late
          /\ "sched" \in Pcs \cap Late /\ "shoot" \in Pcs \cap Late
      BY DEF Pcs, Holding, Waiting, Late
    <2>t. Top(stk[c]).kind = "tick" => Top(stk[c]).pc \in {"in", "sched", "shoot"}
      BY TickFacts DEF Late
    <2>h. Len(stk[c]) \in Nat /\ Len(stk[c]) >= 1 /\ stk[c][1].kind \in {"user", "loop"}
      BY CoreFacts, TickFacts DEF GoodStack, Shape
    <2>i. ASSUME InterruptsOn(c)
          PROVE  Top(stk[c]).pc \notin Late /\ Top(stk[c]).kind # "tick"
      BY <2>i, <2>t DEF InterruptsOn, Late
    <2>r. ASSUME Top(stk[c]).pc \notin Late
          PROVE  /\ Roused(stk[c]) \in Seq(Context) /\ Len(Roused(stk[c])) >= 1
                 /\ TickStack(c, Roused(stk[c]), inTimer[c])
                 /\ Top(Roused(stk[c])).pc \notin Late
                 /\ Top(Roused(stk[c])).kind = Top(stk[c]).kind
      BY <2>r, TickFacts, RousedTicks
    <2>1. CASE Cas(c)
      <3>1. PICK p \in {"in", "spin"} : stk' = [stk EXCEPT ![c] = AtPc(@, p)]
        BY <2>1 DEF Cas
      <3>2. inTimer' = inTimer /\ Top(stk[c]).pc = "cas"
        BY <2>1 DEF Cas
      <3> QED
        BY <2>f, <2>t, <3>1, <3>2, MoveTicksStep
    <2>2. CASE Spin(c)
      BY <2>2, <2>f, <2>t, MoveTicksStep DEF Spin
    <2>3. CASE WakeIsr(c)
      BY <2>3, <2>f, RouseTicksStep DEF WakeIsr
    <2>4. CASE TlbIsr(c)
      BY <2>4, <2>i, RouseTicksStep DEF TlbIsr
    <2>5. CASE Enter(c)
      <3>0. inTimer[c] \in BOOLEAN /\ inTimer = [inTimer EXCEPT ![c] = inTimer[c]]
        BY TickFacts
      <3>k. {"sys", "trap", "timer", "dev"} \subseteq Kinds \ {"tick"} /\ "tick" \in Kinds
        BY DEF Kinds
      <3>1. CASE Syscall(c)
        <4>1. Top(stk[c]).pc \notin Late
          BY <3>1, CoreFacts DEF Syscall, Late
        <4> QED
          BY <3>0, <3>k, <3>1, <4>1, TickFacts, EnterTicksStep DEF Syscall
      <3>2. CASE Trap(c)
        <4>1. Top(stk[c]).pc \notin Late /\ Top(stk[c]).kind # "tick"
          BY <3>2, CoreFacts DEF Trap, Late
        <4> QED
          BY <3>0, <3>k, <3>2, <4>1, TickFacts, EnterTicksStep DEF Trap
      <3>3. CASE Timer(c)
        <4>1. Top(stk[c]).pc \notin Late /\ Top(stk[c]).kind # "tick"
          BY <3>3, <2>i DEF Timer, TakesInterrupt
        <4>2. CASE inTimer[c]
          BY <3>3, <4>1, <4>2, RouseTicksStep DEF Timer
        <4>3. CASE ~inTimer[c]
          <5>1. /\ c = Bsp /\ inTimer' = [inTimer EXCEPT ![c] = TRUE]
                /\ BklEnter(c, Roused(stk[c]), "timer")
            BY <3>3, <4>3 DEF Timer
          <5> QED
            BY <2>r, <3>k, <4>1, <4>3, <5>1, EnterTicksStep
        <4> QED
          BY <4>2, <4>3
      <3>4. CASE Device(c)
        <4>1. Top(stk[c]).pc \notin Late /\ Top(stk[c]).kind # "tick"
          BY <3>4, <2>i DEF Device, TakesInterrupt
        <4>2. BklEnter(c, Roused(stk[c]), "dev") /\ inTimer' = inTimer
          BY <3>4 DEF Device
        <4> QED
          BY <2>r, <3>0, <3>k, <4>1, <4>2, EnterTicksStep
      <3>5. CASE Tick(c)
        <4>1. /\ Top(stk[c]).pc \notin Late /\ Top(stk[c]).kind # "tick"
              /\ inTimer' = inTimer /\ c # Bsp
          BY <3>5, <2>i DEF Tick, TakesInterrupt
        <4>2. CASE owner \notin {None, c}
          BY <3>5, <4>1, <4>2, RouseTicksStep DEF Tick
        <4>3. CASE owner \in {None, c}
          <5>1. stk' = [stk EXCEPT ![c] = Append(Roused(stk[c]), At("tick", "in"))]
            BY <3>5, <4>3 DEF Tick
          <5>2. TickStack(c, Append(Roused(stk[c]), At("tick", "in")), inTimer[c])
            BY <2>f, <2>r, <3>0, <3>k, <4>1, PushTicks
          <5> QED
            BY <3>0, <4>1, <5>1, <5>2, OneCoreTicks
        <4> QED
          BY <4>2, <4>3
      <3> QED
        BY <2>5, <3>1, <3>2, <3>3, <3>4, <3>5 DEF Enter
    <2>6. CASE Inside(c)
      <3>1. CASE OpenInterrupts(c)
        BY <2>f, <3>1, MoveTicksStep DEF OpenInterrupts
      <3>2. CASE CloseInterrupts(c)
        BY <2>f, <3>2, MoveTicksStep DEF CloseInterrupts
      <3>3. CASE TickHandled(c)
        <4>1. /\ stk' = [stk EXCEPT ![c] = AtPc(stk[c], "sched")]
              /\ inTimer' = [inTimer EXCEPT ![c] = FALSE]
              /\ Top(stk[c]).kind \in {"timer", "tick"}
          BY <3>3 DEF TickHandled
        <4>2. TickStack(c, AtPc(stk[c], "sched"), FALSE)
          BY <2>f, <4>1, TickFacts, MoveTicks
        <4> QED
          BY <4>1, <4>2, OneCoreTicks
      <3>4. CASE Shootdown(c)
        BY <2>f, <3>4, MoveTicksStep DEF Shootdown
      <3>5. CASE ShootdownDone(c)
        <4>1. /\ inTimer' = inTimer
              /\ stk' = [stk EXCEPT ![c] = AtPc(stk[c],
                           IF Top(stk[c]).kind \in {"timer", "tick"} THEN "sched" ELSE "in")]
          BY <3>5 DEF ShootdownDone
        <4>2. CASE Top(stk[c]).kind \in {"timer", "tick"}
          BY <2>f, <4>1, <4>2, MoveTicksStep
        <4>3. CASE Top(stk[c]).kind \notin {"timer", "tick"}
          BY <2>f, <4>1, <4>3, MoveTicksStep
        <4> QED
          BY <4>2, <4>3
      <3> QED
        BY <2>6, <3>1, <3>2, <3>3, <3>4, <3>5 DEF Inside
    <2>7. CASE Leave(c)
      <3>1. CASE Return(c)
        <4>1. Len(stk[c]) > 1
          BY <2>h, <3>1 DEF Return, Top
        <4> QED
          BY <3>1, <4>1, PopTicksStep DEF Return
      <3>2. CASE TickReturn(c)
        <4>1. Len(stk[c]) > 1
          BY <2>h, <3>2 DEF TickReturn, Top
        <4> QED
          BY <3>2, <4>1, PopTicksStep DEF TickReturn
      <3>3. CASE TickToKernel(c)
        BY <3>3, SwitchTicksStep DEF TickToKernel
      <3>4. CASE LeaveToLoop(c)
        BY <3>4, SwitchTicksStep DEF LeaveToLoop
      <3>5. CASE ResumeUser(c)
        BY <3>5, SwitchTicksStep DEF ResumeUser
      <3>6. CASE ResumeKernel(c)
        BY <3>6, SwitchTicksStep DEF ResumeKernel
      <3>7. CASE Idle(c)
        <4>1. Top(stk[c]).kind = "loop"
          BY <3>7 DEF Idle, At
        <4> QED
          BY <2>f, <3>7, <4>1, MoveTicksStep DEF Idle
      <3>8. CASE WaitInterrupt(c)
        <4>1. Top(stk[c]).kind = "sys"
          BY <3>8 DEF WaitInterrupt, At
        <4> QED
          BY <2>f, <3>8, <4>1, MoveTicksStep DEF WaitInterrupt
      <3> QED
        BY <2>7, <3>1, <3>2, <3>3, <3>4, <3>5, <3>6, <3>7, <3>8 DEF Leave
    <2> QED
      BY <2>1, <2>2, <2>3, <2>4, <2>5, <2>6, <2>7
  <1> QED
    BY <1>1, <1>2

\* Nothing is on any stack but the scheduler loops at first.
LEMMA InitTicks == Init => TickInv
  <1> SUFFICES ASSUME Init, NEW c \in Cores PROVE TickStack(c, stk[c], inTimer[c])
    BY DEF TickInv
  <1>1. inTimer[c] \in BOOLEAN /\ stk[c] \in {<<At("loop", "in")>>, <<At("loop", "cas")>>}
    BY DEF Init
  <1> QED
    BY <1>1, FreshTicks

\* At most one tick is on a core's stack, however long it waits for the lock
\* and whatever interrupts it there: in_timer is set from before bkl_enter
\* until sched_on_tick, from which on interrupts are off.
THEOREM BklTicksDoNotStack == Spec => []TicksDoNotStack
  <1>1. TickInv => TicksDoNotStack
    BY DEF TickInv, TickStack, TicksDoNotStack
  <1>2. Spec => []TickInv
    BY InitTicks, NextTicks, LockInvariant, PTL DEF Spec
  <1> QED
    BY <1>1, <1>2, PTL

----------------------------------------------------------------------------
(* The shootdown.                                                          *)

\* Only a core that holds the lock waits for answers, so there is one.
LEMMA OneShooter ==
    ASSUME IInv, NEW c \in Cores, NEW d \in Cores,
           Top(stk[c]).pc \in Holding, Top(stk[d]).pc = "shoot"
    PROVE  c = d /\ owner = c
  BY CoreFacts DEF Holding

\* A step of core c that has nothing to do with a shootdown.
LEMMA PlainStep ==
    ASSUME IInv, ShootInv, NEW c \in Cores, NEW s,
           stk' = [stk EXCEPT ![c] = s], UNCHANGED <<tlbPend, acks, stale>>,
           Top(stk[c]).pc # "shoot", Top(s).pc # "shoot"
    PROVE  ShootInv'
  <1>1. stk'[c] = s /\ \A e \in Cores \ {c} : stk'[e] = stk[e]
    BY DEF IInv, TypeOK
  <1>2. \A e \in Cores : Top(stk'[e]).pc = "shoot" <=> Top(stk[e]).pc = "shoot"
    BY <1>1
  <1> QED
    BY <1>2 DEF ShootInv

\* Sizes of the sets of cores that have not answered.
LEMMA CoreCounts ==
    ASSUME NEW T \in SUBSET Cores
    PROVE  /\ IsFiniteSet(T) /\ Cardinality(T) \in Nat /\ Cardinality(Cores) \in Nat
           /\ Cardinality(T) = 0 <=> T = {}
           /\ \A x \in T : Cardinality(T \ {x}) = Cardinality(T) - 1
  BY CoresAssumption, FS_Subset, FS_CardinalityType, FS_EmptySet, FS_RemoveElement

\* Every step keeps the account of a shootdown: one step per action.
LEMMA NextShoot == IInv /\ TickInv /\ ShootInv /\ [Next]_vars => ShootInv'
  <1> SUFFICES ASSUME IInv, TickInv, ShootInv, [Next]_vars PROVE ShootInv'
    OBVIOUS
  <1>1. CASE UNCHANGED vars
    BY <1>1 DEF vars, ShootInv
  <1>2. ASSUME Next PROVE ShootInv'
    <2> PICK c \in Cores :
          Cas(c) \/ Spin(c) \/ WakeIsr(c) \/ TlbIsr(c) \/ Enter(c) \/ Inside(c) \/ Leave(c)
      BY <1>2 DEF Next
    <2>s. stk[c] \in Seq(Context) /\ Len(stk[c]) \in Nat /\ Len(stk[c]) >= 1
      BY TickFacts
    <2>p. /\ "cas" \in Pcs /\ "spin" \in Pcs /\ "halt" \in Pcs /\ "in" \in Pcs
          /\ "ion" \in Pcs /\ "sched" \in Pcs /\ "shoot" \in Pcs
      BY DEF Pcs, Holding, Waiting
    <2>a. ASSUME NEW p \in Pcs
          PROVE  Top(AtPc(stk[c], p)).pc = p
      BY <2>s, TopFacts DEF At
    <2>r. Top(stk[c]).pc # "shoot" => Top(Roused(stk[c])).pc # "shoot"
      BY <2>p, <2>a DEF Roused
    <2>e. ASSUME Top(stk[c]).pc # "shoot", NEW s \in Seq(Context), Len(s) >= 1, NEW k \in Kinds,
                 BklEnter(c, s, k), UNCHANGED <<tlbPend, acks, stale>>
          PROVE  ShootInv'
      <3>1. PICK p \in {"in", "cas"} : stk' = [stk EXCEPT ![c] = Append(s, At(k, p))]
        BY <2>e DEF BklEnter
      <3>2. At(k, p) \in Context /\ At(k, p).pc # "shoot"
        BY <2>p DEF At, Context
      <3>3. Top(Append(s, At(k, p))).pc # "shoot"
        BY <2>e, <3>2, TopFacts
      <3> QED
        BY <2>e, <3>1, <3>3, PlainStep
    <2>w. Top(stk[c]).pc # "shoot" => Roused(stk[c]) \in Seq(Context) /\ Len(Roused(stk[c])) >= 1
      BY <2>s, <2>p, AtPcFacts DEF Roused
    <2>m. /\ Top(AtPc(stk[c], "cas")).pc # "shoot" /\ Top(AtPc(stk[c], "spin")).pc # "shoot"
          /\ Top(AtPc(stk[c], "in")).pc # "shoot" /\ Top(AtPc(stk[c], "ion")).pc # "shoot"
          /\ Top(AtPc(stk[c], "sched")).pc # "shoot" /\ Top(AtPc(stk[c], "halt")).pc # "shoot"
      BY <2>a, <2>p
    <2>q. ASSUME Len(stk[c]) > 1, Top(stk[c]).pc # "shoot",
                 stk' = [stk EXCEPT ![c] = Pop(@)], UNCHANGED <<tlbPend, acks, stale>>
          PROVE  ShootInv'
      <3>1. Top(Pop(stk[c])).pc # "shoot"
        BY <2>q, TickFacts, PopTicks DEF Late
      <3> QED
        BY <2>q, <3>1, PlainStep
    <2>n. ASSUME NEW s \in {<<At("loop", "in")>>, <<At("user", "run")>>,
                            <<At("user", "run"), At("sys", "in")>>},
                 Top(stk[c]).pc # "shoot", stk' = [stk EXCEPT ![c] = s],
                 UNCHANGED <<tlbPend, acks, stale>>
          PROVE  ShootInv'
      <3>1. /\ Top(<<At("loop", "in")>>) = At("loop", "in")
            /\ Top(<<At("user", "run")>>) = At("user", "run")
            /\ Top(<<At("user", "run"), At("sys", "in")>>) = At("sys", "in")
        BY DEF Top
      <3>2. Top(s).pc # "shoot"
        BY <3>1 DEF At
      <3> QED
        BY <2>n, <3>2, PlainStep
    <2>1. CASE Cas(c)
      BY <2>1, <2>m, PlainStep DEF Cas
    <2>2. CASE Spin(c)
      BY <2>2, <2>m, PlainStep DEF Spin
    <2>3. CASE WakeIsr(c)
      BY <2>3, <2>r, PlainStep DEF WakeIsr
    <2>4. CASE TlbIsr(c)
      <3>1. /\ Top(stk[c]).pc # "shoot" /\ tlbPend[c] /\ c \in stale
            /\ tlbPend' = [tlbPend EXCEPT ![c] = FALSE]
            /\ stale' = stale \ {c} /\ acks' = acks + 1
            /\ stk' = [stk EXCEPT ![c] = Roused(stk[c])]
        BY <2>4 DEF TlbIsr, InterruptsOn, ShootInv
      <3>2. \A e \in Cores : Top(stk'[e]).pc = "shoot" <=> Top(stk[e]).pc = "shoot"
        BY <2>r, <3>1 DEF IInv, TypeOK
      <3>3. \A e \in Cores : tlbPend'[e] <=> e \in stale'
        BY <3>1 DEF IInv, TypeOK, ShootInv
      <3>4. /\ Cardinality(stale') = Cardinality(stale) - 1
            /\ Cardinality(stale) \in Nat /\ acks \in Nat
        BY <3>1, CoreCounts DEF IInv, TypeOK
      <3>5. \A e \in Cores : Top(stk'[e]).pc = "shoot" =>
              e \notin stale' /\ acks' + Cardinality(stale') = Cardinality(Cores) - 1
        <4>1. acks' + Cardinality(stale') = acks + Cardinality(stale)
          BY <3>1, <3>4
        <4> QED
          BY <3>1, <3>2, <4>1 DEF ShootInv
      <3>6. stale' # {} => \E e \in Cores : Top(stk'[e]).pc = "shoot"
        BY <3>1, <3>2 DEF ShootInv
      <3> QED
        BY <3>3, <3>5, <3>6 DEF ShootInv
    <2>5. CASE Enter(c)
      <3>k. {"sys", "trap", "timer", "dev", "tick"} \subseteq Kinds
        BY DEF Kinds
      <3>1. CASE Syscall(c)
        <4>1. Top(stk[c]).pc # "shoot"
          BY <3>1, CoreFacts DEF Syscall
        <4> QED
          BY <2>e, <2>s, <3>k, <3>1, <4>1 DEF Syscall
      <3>2. CASE Trap(c)
        <4>1. Top(stk[c]).pc # "shoot"
          BY <3>2, CoreFacts DEF Trap
        <4> QED
          BY <2>e, <2>s, <3>k, <3>2, <4>1 DEF Trap
      <3>3. CASE Timer(c)
        <4>1. Top(stk[c]).pc # "shoot"
          BY <3>3 DEF Timer, TakesInterrupt, InterruptsOn
        <4>2. CASE inTimer[c]
          BY <2>r, <3>3, <4>1, <4>2, PlainStep DEF Timer
        <4>3. CASE ~inTimer[c]
          BY <2>e, <2>w, <3>k, <3>3, <4>1, <4>3 DEF Timer
        <4> QED
          BY <4>2, <4>3
      <3>4. CASE Device(c)
        <4>1. Top(stk[c]).pc # "shoot"
          BY <3>4 DEF Device, TakesInterrupt, InterruptsOn
        <4> QED
          BY <2>e, <2>w, <3>k, <3>4, <4>1 DEF Device
      <3>5. CASE Tick(c)
        <4>1. Top(stk[c]).pc # "shoot"
          BY <3>5 DEF Tick, TakesInterrupt, InterruptsOn
        <4>2. CASE owner \notin {None, c}
          BY <2>r, <3>5, <4>1, <4>2, PlainStep DEF Tick
        <4>3. CASE owner \in {None, c}
          <5>1. /\ stk' = [stk EXCEPT ![c] = Append(Roused(stk[c]), At("tick", "in"))]
                /\ UNCHANGED <<tlbPend, acks, stale>>
            BY <3>5, <4>3 DEF Tick
          <5>2. At("tick", "in") \in Context /\ At("tick", "in").pc # "shoot"
            BY <2>p, <3>k DEF At, Context
          <5>3. Top(Append(Roused(stk[c]), At("tick", "in"))).pc # "shoot"
            BY <2>w, <4>1, <5>2, TopFacts
          <5> QED
            BY <4>1, <5>1, <5>3, PlainStep
        <4> QED
          BY <4>2, <4>3
      <3> QED
        BY <2>5, <3>1, <3>2, <3>3, <3>4, <3>5 DEF Enter
    <2>6. CASE Inside(c)
      <3>1. CASE OpenInterrupts(c)
        BY <2>m, PlainStep, <3>1 DEF OpenInterrupts
      <3>2. CASE CloseInterrupts(c)
        BY <2>m, PlainStep, <3>2 DEF CloseInterrupts
      <3>3. CASE TickHandled(c)
        BY <2>m, PlainStep, <3>3 DEF TickHandled
      <3>4. CASE Shootdown(c)
        <4>1. /\ Top(stk[c]).pc \in Holding /\ acks' = 0 /\ stale' = Cores \ {c}
              /\ tlbPend' = [d \in Cores |-> d # c]
              /\ stk' = [stk EXCEPT ![c] = AtPc(stk[c], "shoot")]
          BY <3>4 DEF Shootdown, Holding
        <4>2. /\ Top(stk'[c]).pc = "shoot"
              /\ \A e \in Cores \ {c} : stk'[e] = stk[e]
          BY <2>a, <2>p, <4>1 DEF IInv, TypeOK
        <4>3. \A e \in Cores : Top(stk'[e]).pc = "shoot" => e = c
          BY <4>1, <4>2, OneShooter
        <4>4. /\ Cardinality(stale') = Cardinality(Cores) - 1 /\ Cardinality(Cores) \in Nat
              /\ acks' + Cardinality(stale') = Cardinality(Cores) - 1
          BY <4>1, CoreCounts
        <4> QED
          BY <4>1, <4>2, <4>3, <4>4 DEF ShootInv
      <3>5. CASE ShootdownDone(c)
        <4>1. /\ Top(stk[c]).pc = "shoot" /\ acks >= Cardinality(Cores) - 1
              /\ UNCHANGED <<tlbPend, acks, stale>>
          BY <3>5 DEF ShootdownDone
        <4>2. PICK p \in {"in", "sched"} : stk' = [stk EXCEPT ![c] = AtPc(stk[c], p)]
          BY <3>5 DEF ShootdownDone
        <4>3. /\ Top(stk'[c]).pc # "shoot"
              /\ \A e \in Cores \ {c} : stk'[e] = stk[e]
          BY <2>a, <2>p, <4>2 DEF IInv, TypeOK
        <4>4. \A e \in Cores : Top(stk'[e]).pc # "shoot"
          <5>1. Top(stk[c]).pc \in Holding
            BY <4>1 DEF Holding
          <5> QED
            BY <4>3, <5>1, OneShooter
        <4>5. stale = {}
          <5>1. acks + Cardinality(stale) = Cardinality(Cores) - 1
            BY <4>1 DEF ShootInv
          <5>2. stale \in SUBSET Cores /\ acks \in Nat
            BY DEF IInv, TypeOK
          <5>3. Cardinality(stale) \in Nat /\ Cardinality(Cores) \in Nat
            BY <5>2, CoreCounts
          <5>4. Cardinality(stale) = 0
            BY <4>1, <5>1, <5>2, <5>3
          <5> QED
            BY <5>2, <5>4, CoreCounts
        <4> QED
          BY <4>1, <4>4, <4>5 DEF ShootInv
      <3> QED
        BY <2>6, <3>1, <3>2, <3>3, <3>4, <3>5 DEF Inside
    <2>7. CASE Leave(c)
      <3>h. stk[c][1].kind \in {"user", "loop"}
        BY CoreFacts DEF GoodStack, Shape
      <3>1. CASE Return(c)
        <4>1. Len(stk[c]) > 1
          BY <2>s, <3>h, <3>1 DEF Return, Top
        <4> QED
          BY <2>q, <3>1, <4>1 DEF Return
      <3>2. CASE TickReturn(c)
        <4>1. Len(stk[c]) > 1
          BY <2>s, <3>h, <3>2 DEF TickReturn, Top
        <4> QED
          BY <2>q, <3>2, <4>1 DEF TickReturn
      <3>3. CASE TickToKernel(c)
        BY <2>n, <3>3 DEF TickToKernel
      <3>4. CASE LeaveToLoop(c)
        BY <2>n, <3>4 DEF LeaveToLoop
      <3>l. ASSUME Top(stk[c]) = At("loop", "in") \/ Top(stk[c]) = At("sys", "in")
            PROVE  Top(stk[c]).pc # "shoot"
        BY <3>l DEF At
      <3>5. CASE ResumeUser(c)
        BY <2>n, <3>l, <3>5 DEF ResumeUser
      <3>6. CASE ResumeKernel(c)
        BY <2>n, <3>l, <3>6 DEF ResumeKernel
      <3>7. CASE Idle(c)
        BY <2>m, PlainStep, <3>l, <3>7 DEF Idle
      <3>8. CASE WaitInterrupt(c)
        BY <2>m, PlainStep, <3>l, <3>8 DEF WaitInterrupt
      <3> QED
        BY <2>7, <3>1, <3>2, <3>3, <3>4, <3>5, <3>6, <3>7, <3>8 DEF Leave
    <2> QED
      BY <2>1, <2>2, <2>3, <2>4, <2>5, <2>6, <2>7
  <1> QED
    BY <1>1, <1>2

\* No shootdown is on at first.
LEMMA InitShoot == Init => ShootInv
  <1> SUFFICES ASSUME Init PROVE ShootInv
    OBVIOUS
  <1>1. \A c \in Cores : Top(stk[c]).pc # "shoot"
    BY DEF Init, Top, At
  <1> QED
    BY <1>1 DEF Init, ShootInv

\* While some core may still use a translation that was taken away, the core
\* that took it away holds the lock and waits in smp_tlb_shootdown: tlb_acks
\* counts every answer once, so the wait cannot end a core too early.
THEOREM BklNoStaleTranslation == Spec => []NoStaleTranslation
  <1>1. IInv /\ ShootInv => NoStaleTranslation
    <2> SUFFICES ASSUME IInv, ShootInv, stale # {}
                 PROVE  \E c \in Cores : owner = c /\ Top(stk[c]).pc = "shoot"
      BY DEF NoStaleTranslation
    <2>1. PICK c \in Cores : Top(stk[c]).pc = "shoot"
      BY DEF ShootInv
    <2>2. owner = c
      BY <2>1, CoreFacts DEF Holding
    <2> QED
      BY <2>1, <2>2
  <1>2. Spec => []TickInv
    BY InitTicks, NextTicks, LockInvariant, PTL DEF Spec
  <1>3. Spec => []ShootInv
    BY <1>2, InitShoot, NextShoot, LockInvariant, PTL DEF Spec
  <1> QED
    BY <1>1, <1>3, LockInvariant, PTL
=============================================================================
