---------------------------- MODULE SignalProofs ----------------------------
(***************************************************************************)
(* Proofs about module Signal, for any set of threads, any signals, calls  *)
(* and depth of handlers.                                                  *)
(*                                                                         *)
(* A step changes one thread, so the invariants are predicates of one      *)
(* thread's record r (and of the program g and the dispositions d), and    *)
(* every action is shown to keep them: Good, what holds of any thread;     *)
(* Kept and ~SleptOn, what holds besides if the thread is the only one     *)
(* that sets dispositions.                                                 *)
(***************************************************************************)
EXTENDS Signal, TLAPS, SequenceTheorems, WellFoundedInduction

----------------------------------------------------------------------------
(* The inductive invariant.                                                *)

CallNames == AllCalls \cup {"none"}
Maskable(g) == SUBSET (g.sigs \ Uncatchable)

FrameType(g) ==
    [sig : g.sigs, mask : Maskable(g), from : {"syscall", "interrupt"}, call : CallNames,
     did : BOOLEAN, redo : BOOLEAN, unwanted : BOOLEAN]

ThreadType(g) ==
    [st : {"user", "ready", "blocked", "woken", "dead"}, stopped : BOOLEAN,
     pending : SUBSET g.sigs, mask : Maskable(g), alarm : BOOLEAN, restart : BOOLEAN,
     call : CallNames, did : BOOLEAN, redo : BOOLEAN, frames : Seq(FrameType(g)),
     unwanted : SUBSET g.sigs]

\* A context a program is resumed in: the call is over and had its effect, or
\* it is put back and had none; only one that blocks is put back.
Whole(x) ==
    /\ x.call = "none" => ~x.redo
    /\ x.call # "none" => x.redo = ~x.did
    /\ x.redo => x.call \in Blocking

\* Each frame keeps the mask of what lies under it: the signals of the frames
\* below, which its own is not among.
Under(f, i) == {f[j].sig : j \in {k \in DOMAIN f : k > i}}
Nested(r, g) ==
    "mask" \notin g.calls =>
        /\ r.mask = Under(r.frames, 0)
        /\ \A i \in DOMAIN r.frames : /\ r.frames[i].mask = Under(r.frames, i)
                                      /\ r.frames[i].sig \notin r.frames[i].mask

\* What holds of a thread also in the middle of a step.
Fits(r, g) ==
    /\ r \in ThreadType(g)
    /\ r.unwanted \subseteq r.pending
    /\ Len(r.frames) <= g.frames
    /\ \A i \in DOMAIN r.frames : Whole(r.frames[i])
    /\ r.alarm => SIGALRM \in g.sigs
    /\ Nested(r, g)

\* ... and between steps.  A thread inside a call has had an effect only if
\* it writes.
Good(r, g) ==
    /\ Fits(r, g)
    /\ ~r.restart
    /\ r.st \in {"user", "ready"} => Whole(r)
    /\ r.st \in {"blocked", "woken"} => /\ r.call \in Blocking /\ ~r.redo
                                        /\ r.did => r.call = "write"

\* What is pending and unwanted is still ignored, and no handler runs for it.
Kept(r, d) ==
    /\ \A s \in r.unwanted : Ignored(s, d)
    /\ \A i \in DOMAIN r.frames : ~r.frames[i].unwanted

\* A thread asleep has no pending signal that would end, stop or continue it.
Wakeful(r, d) ==
    r.st = "blocked" =>
        \A s \in r.pending \ r.mask : Caught(s, d) \/ Ignored(s, d) \/ DefaultAction(s) = "ignore"

\* What a step makes of the thread r: q, under the dispositions d and then e.
Steps(r, q, g, d, e) ==
    /\ Good(q, g)
    /\ Kept(r, d) => Kept(q, e)
    /\ Wakeful(r, d) => Wakeful(q, e)

SInv == /\ prog \in Program
        /\ disp \in [Sigs -> {"dfl", "ign", "handler"}]
        /\ DOMAIN th = Threads
        /\ \A t \in Threads : Good(th[t], prog)

----------------------------------------------------------------------------
(* The parts of a step.                                                    *)

\* The signals of the frames with one more on top.
LEMMA PushFrame ==
    ASSUME NEW g, NEW f \in FrameType(g), NEW s \in Seq(FrameType(g))
    PROVE  /\ <<f>> \o s \in Seq(FrameType(g))
           /\ Len(<<f>> \o s) = Len(s) + 1
           /\ DOMAIN (<<f>> \o s) = 1..(Len(s) + 1)
           /\ (<<f>> \o s)[1] = f
           /\ \A i \in 1..Len(s) : (<<f>> \o s)[i + 1] = s[i]
           /\ \A i \in DOMAIN s : Under(<<f>> \o s, i + 1) = Under(s, i)
           /\ Under(<<f>> \o s, 1) = Under(s, 0)
           /\ Under(<<f>> \o s, 0) = {f.sig} \cup Under(s, 0)
  <1> DEFINE z == <<f>> \o s
  <1>1. /\ z \in Seq(FrameType(g)) /\ Len(z) = Len(s) + 1 /\ Len(s) \in Nat /\ DOMAIN s = 1..Len(s)
        /\ \A i \in 1..Len(z) : z[i] = IF i <= 1 THEN f ELSE s[i - 1]
    OBVIOUS
  <1>2. DOMAIN z = 1..(Len(s) + 1) /\ z[1] = f /\ \A i \in 1..Len(s) : z[i + 1] = s[i]
    BY <1>1
  <1> HIDE DEF z
  <1>3. ASSUME NEW i \in 0..Len(s)
        PROVE  Under(z, i + 1) = Under(s, i)
    <2>1. ASSUME NEW x \in Under(z, i + 1)
          PROVE  x \in Under(s, i)
      <3>1. PICK j \in DOMAIN z : j > i + 1 /\ x = z[j].sig
        BY <2>1 DEF Under
      <3>2. j - 1 \in DOMAIN s /\ j - 1 > i /\ z[j] = s[j - 1]
        BY <1>1, <1>2, <3>1
      <3> QED
        BY <3>1, <3>2 DEF Under
    <2>2. ASSUME NEW x \in Under(s, i)
          PROVE  x \in Under(z, i + 1)
      <3>1. PICK j \in DOMAIN s : j > i /\ x = s[j].sig
        BY <2>2 DEF Under
      <3>2. j + 1 \in DOMAIN z /\ j + 1 > i + 1 /\ z[j + 1] = s[j]
        BY <1>1, <1>2, <3>1
      <3> QED
        BY <3>1, <3>2 DEF Under
    <2> QED
      BY <2>1, <2>2
  <1>4. Under(z, 0) = {f.sig} \cup Under(z, 1)
    <2>1. \A j \in DOMAIN z : j > 0 <=> j = 1 \/ j > 1
      BY <1>1, <1>2
    <2>2. 1 \in DOMAIN z
      BY <1>1, <1>2
    <2> QED
      BY <1>2, <2>1, <2>2 DEF Under
  <1>5. Under(z, 1) = Under(s, 0)
    BY <1>1, <1>3
  <1>6. \A i \in DOMAIN s : Under(z, i + 1) = Under(s, i)
    BY <1>1, <1>3
  <1> QED
    BY <1>1, <1>2, <1>4, <1>5, <1>6 DEF z

\* ... and with the top one gone.
LEMMA PopFrame ==
    ASSUME NEW g, NEW s \in Seq(FrameType(g)), s # <<>>
    PROVE  /\ Tail(s) \in Seq(FrameType(g)) /\ Head(s) = s[1] /\ 1 \in DOMAIN s
           /\ Head(s) \in FrameType(g)
           /\ Len(Tail(s)) = Len(s) - 1
           /\ \A i \in DOMAIN Tail(s) : Tail(s)[i] = s[i + 1] /\ i + 1 \in DOMAIN s
           /\ \A i \in DOMAIN Tail(s) : Under(Tail(s), i) = Under(s, i + 1)
           /\ Under(Tail(s), 0) = Under(s, 1)
  <1> DEFINE z == Tail(s)
  <1>1. /\ z \in Seq(FrameType(g)) /\ Len(s) \in Nat /\ Len(s) > 0 /\ DOMAIN s = 1..Len(s)
        /\ Len(z) = Len(s) - 1 /\ DOMAIN z = 1..(Len(s) - 1) /\ Head(s) = s[1]
        /\ \A i \in 1..(Len(s) - 1) : z[i] = s[i + 1]
    OBVIOUS
  <1>2. 1 \in DOMAIN s /\ s[1] \in FrameType(g) /\ \A i \in DOMAIN z : z[i] = s[i + 1] /\ i + 1 \in DOMAIN s
    BY <1>1
  <1> HIDE DEF z
  <1>3. ASSUME NEW i \in 0..Len(s)
        PROVE  Under(z, i) = Under(s, i + 1)
    <2>1. ASSUME NEW x \in Under(z, i)
          PROVE  x \in Under(s, i + 1)
      <3>1. PICK j \in DOMAIN z : j > i /\ x = z[j].sig
        BY <2>1 DEF Under
      <3>2. j + 1 \in DOMAIN s /\ j + 1 > i + 1 /\ z[j] = s[j + 1]
        BY <1>1, <1>2, <3>1
      <3> QED
        BY <3>1, <3>2 DEF Under
    <2>2. ASSUME NEW x \in Under(s, i + 1)
          PROVE  x \in Under(z, i)
      <3>1. PICK j \in DOMAIN s : j > i + 1 /\ x = s[j].sig
        BY <2>2 DEF Under
      <3>2. j - 1 \in DOMAIN z /\ j - 1 > i
        BY <1>1, <3>1
      <3>3. z[j - 1] = s[j]
        BY <1>1, <3>1, <3>2
      <3> QED
        BY <3>1, <3>2, <3>3 DEF Under
    <2> QED
      BY <2>1, <2>2
  <1>4. Under(z, 0) = Under(s, 1) /\ \A i \in DOMAIN z : Under(z, i) = Under(s, i + 1)
    BY <1>1, <1>3
  <1> QED
    BY <1>1, <1>2, <1>4 DEF z

\* The lowest of some numbers is one of them.
LEMMA LowestIn ==
    ASSUME NEW S, S \subseteq Nat, S # {}
    PROVE  Lowest(S) \in S
  <1>1. PICK x \in S : \A y \in S : <<y, x>> \notin OpToRel(<, Nat)
    BY NatLessThanWellFounded, WFMin
  <1>2. \A y \in S : <<y, x>> \in OpToRel(<, Nat) <=> y < x
    BY DEF OpToRel
  <1>3. \A y \in S : ~(y < x)
    BY <1>1, <1>2
  <1>4. \A y \in S : x <= y
    BY <1>3
  <1> QED
    BY <1>4 DEF Lowest

\* Signals are numbers.
LEMMA SigNat ==
    ASSUME prog \in Program
    PROVE  Sigs = prog.sigs /\ Sigs \subseteq Nat
  BY DEF Program, Sigs, AllSigs, SIGKILL, SIGUSR1, SIGSEGV, SIGALRM, SIGCHLD, SIGCONT, SIGSTOP, SIGTSTP

\* signal_check takes pending signals away, and none it would act on is left.
LEMMA CheckStep ==
    ASSUME NEW r, Fits(r, prog)
    PROVE  /\ Fits(Checked(r), prog)
           /\ \A x \in {"st", "mask", "alarm", "restart", "call", "did", "redo", "frames"} :
                 Checked(r)[x] = r[x]
           /\ Kept(r, disp) => Kept(Checked(r), disp)
           /\ \A s \in Checked(r).pending \ Checked(r).mask : Caught(s, disp)
  <1> DEFINE c == Checked(r)
             a == Acted(r)
             b == IF ActedTo(r, "stop") THEN TRUE ELSE IF ActedTo(r, "cont") THEN FALSE ELSE r.stopped
  <1>1. r \in ThreadType(prog)
    BY DEF Fits
  <1>2. c = [r EXCEPT !.pending = r.pending \ a, !.unwanted = r.unwanted \ a, !.stopped = b]
    BY DEF Checked
  <1>3. b \in BOOLEAN
    BY <1>1 DEF ThreadType
  <1> HIDE DEF c, a, b
  <1>4. /\ c \in ThreadType(prog)
        /\ c.pending = r.pending \ a /\ c.unwanted = r.unwanted \ a /\ c.frames = r.frames
        /\ c.mask = r.mask /\ c.alarm = r.alarm /\ c.st = r.st /\ c.restart = r.restart
        /\ c.call = r.call /\ c.did = r.did /\ c.redo = r.redo
    BY <1>1, <1>2, <1>3 DEF ThreadType
  <1>5. Fits(c, prog)
    BY <1>4 DEF Fits, Nested
  <1>6. Kept(r, disp) => Kept(c, disp)
    BY <1>4 DEF Kept
  <1>7. \A s \in c.pending \ c.mask : Caught(s, disp)
    BY <1>4 DEF a, Acted
  <1> QED
    BY <1>4, <1>5, <1>6, <1>7 DEF c

\* signal_post on a thread.
LEMMA PostStep ==
    ASSUME NEW r, NEW s \in Sigs, Good(r, prog)
    PROVE  /\ Steps(r, Posted(r, s), prog, disp, disp)
           /\ \A x \in {"mask", "alarm", "restart", "call", "did", "redo", "frames"} :
                 Posted(r, s)[x] = r[x]
           /\ r.st # "blocked" => Posted(r, s).st = r.st
  <1> DEFINE q == Posted(r, s)
             forgotten == CASE s = SIGCONT -> {SIGSTOP, SIGTSTP}
                            [] s \in {SIGSTOP, SIGTSTP} -> {SIGCONT}
                            [] OTHER -> {}
             stp == IF s = SIGCONT THEN FALSE ELSE r.stopped
             st == IF r.st = "blocked" /\ Wakes(r, s, disp) THEN "woken" ELSE r.st
             un == IF Ignored(s, disp) THEN (r.unwanted \ forgotten) \cup {s}
                   ELSE r.unwanted \ (forgotten \cup {s})
  <1>1. r \in ThreadType(prog) /\ r.unwanted \subseteq r.pending
    BY DEF Good, Fits
  <1>2. q = [r EXCEPT !.stopped = stp, !.pending = (r.pending \ forgotten) \cup {s}, !.st = st, !.unwanted = un]
    BY DEF Posted
  <1>3. /\ stp \in BOOLEAN /\ st \in {"user", "ready", "blocked", "woken", "dead"}
        /\ un \in SUBSET prog.sigs /\ (r.pending \ forgotten) \cup {s} \in SUBSET prog.sigs
        /\ un \subseteq (r.pending \ forgotten) \cup {s}
    BY <1>1 DEF ThreadType, Sigs
  <1>4. \A x \in un : x \in r.unwanted \/ (x = s /\ Ignored(s, disp))
    OBVIOUS
  <1>5. /\ st = r.st \/ (r.st = "blocked" /\ st = "woken")
        /\ st = "blocked" => r.st = "blocked" /\ ~Wakes(r, s, disp)
    OBVIOUS
  <1> HIDE DEF q, stp, st, un, forgotten
  <1>6. /\ q \in ThreadType(prog)
        /\ q.st = st /\ q.unwanted = un /\ q.pending = (r.pending \ forgotten) \cup {s}
        /\ q.mask = r.mask /\ q.alarm = r.alarm /\ q.restart = r.restart
        /\ q.call = r.call /\ q.did = r.did /\ q.redo = r.redo /\ q.frames = r.frames
    BY <1>1, <1>2, <1>3 DEF ThreadType
  <1>7. Fits(q, prog)
    BY <1>3, <1>6 DEF Good, Fits, Nested
  <1>8. Good(q, prog)
    BY <1>5, <1>6, <1>7 DEF Good, Whole
  <1>9. Kept(r, disp) => Kept(q, disp)
    BY <1>4, <1>6 DEF Kept
  <1>10. Wakeful(r, disp) => Wakeful(q, disp)
    <2> SUFFICES ASSUME Wakeful(r, disp), st = "blocked", NEW x \in q.pending \ q.mask
                 PROVE  Caught(x, disp) \/ Ignored(x, disp) \/ DefaultAction(x) = "ignore"
      BY <1>6 DEF Wakeful
    <2>1. CASE x = s
      BY <1>5, <1>6, <2>1 DEF Wakes
    <2>2. CASE x # s
      BY <1>5, <1>6, <2>2 DEF Wakeful
    <2> QED
      BY <2>1, <2>2
  <1> QED
    BY <1>5, <1>6, <1>8, <1>9, <1>10 DEF Steps, q

----------------------------------------------------------------------------
(* The way out to ring 3.                                                  *)

\* deliver, where the frame fits: the context under the handler is whole, and
\* so is the handler's own.
LEMMA DeliverStep ==
    ASSUME NEW r, NEW d, NEW from \in {"syscall", "interrupt"},
           prog \in Program, Fits(r, prog), ~r.restart, Whole(r), Handled(r, d) = {} \/ Len(r.frames) < prog.frames
    PROVE  LET q == Deliver([r EXCEPT !.st = "user"], from, d)
           IN  /\ Good(q, prog) /\ q.st = "user"
               /\ Kept(r, d) => Kept(q, d)
  <1> DEFINE u == [r EXCEPT !.st = "user"]
             q == Deliver(u, from, d)
  <1>1. /\ u \in ThreadType(prog) /\ r \in ThreadType(prog)
        /\ u.st = "user" /\ u.pending = r.pending /\ u.mask = r.mask /\ u.alarm = r.alarm
        /\ u.restart = r.restart /\ u.call = r.call /\ u.did = r.did /\ u.redo = r.redo
        /\ u.frames = r.frames /\ u.unwanted = r.unwanted
    BY DEF Fits, ThreadType
  <1>2. Fits(u, prog) /\ (Kept(r, d) => Kept(u, d)) /\ Whole(u) /\ Handled(u, d) = Handled(r, d)
    BY <1>1 DEF Fits, Nested, Kept, Whole, Handled
  <1> HIDE DEF u
  <1>3. CASE Handled(u, d) = {}
    <2>1. q = u
      BY <1>3 DEF Deliver
    <2> QED
      BY <1>1, <1>2, <2>1 DEF Good, u
  <1>4. CASE Handled(u, d) # {}
    <2> DEFINE s == Lowest(Handled(u, d))
               f == [sig |-> s, mask |-> u.mask, from |-> from, call |-> u.call,
                     did |-> u.did, redo |-> u.redo, unwanted |-> s \in u.unwanted]
               n == <<f>> \o u.frames
    <2>1. s \in Handled(u, d)
      <3>1. Handled(u, d) \subseteq Nat
        BY <1>1, SigNat DEF Handled, ThreadType
      <3> QED
        BY <1>4, <3>1, LowestIn
    <2>2. s \in u.pending /\ s \notin u.mask /\ Caught(s, d) /\ s \in prog.sigs /\ s \notin Uncatchable
      BY <1>1, <2>1 DEF Handled, Caught, ThreadType
    <2>3. q = [u EXCEPT !.frames = n, !.pending = u.pending \ {s}, !.unwanted = u.unwanted \ {s},
                        !.mask = u.mask \cup {s}, !.call = "none", !.did = FALSE, !.redo = FALSE]
      BY <1>4 DEF Deliver
    <2> HIDE DEF s, q
    <2>4. f \in FrameType(prog)
      BY <1>1, <2>2 DEF FrameType, ThreadType
    <2>5. /\ f.sig = s /\ f.mask = u.mask /\ f.call = u.call /\ f.did = u.did /\ f.redo = u.redo
          /\ f.unwanted = (s \in u.unwanted)
      OBVIOUS
    <2> HIDE DEF f
    <2>6. u.frames \in Seq(FrameType(prog)) /\ Len(u.frames) \in Nat /\ DOMAIN u.frames = 1..Len(u.frames)
      BY <1>1 DEF ThreadType
    <2>7. /\ n \in Seq(FrameType(prog)) /\ Len(n) = Len(u.frames) + 1
          /\ DOMAIN n = 1..(Len(u.frames) + 1) /\ n[1] = f
          /\ \A i \in 1..Len(u.frames) : n[i + 1] = u.frames[i]
          /\ \A i \in DOMAIN u.frames : Under(n, i + 1) = Under(u.frames, i)
          /\ Under(n, 1) = Under(u.frames, 0)
          /\ Under(n, 0) = {f.sig} \cup Under(u.frames, 0)
      BY <2>4, <2>6, PushFrame
    <2>8. \A i \in DOMAIN n : i = 1 \/ \E j \in DOMAIN u.frames : i = j + 1 /\ n[i] = u.frames[j]
                                                               /\ Under(n, i) = Under(u.frames, j)
      <3> SUFFICES ASSUME NEW i \in DOMAIN n, i # 1
                   PROVE  \E j \in DOMAIN u.frames : i = j + 1 /\ n[i] = u.frames[j]
                                                     /\ Under(n, i) = Under(u.frames, j)
        OBVIOUS
      <3>1. i - 1 \in DOMAIN u.frames /\ i = (i - 1) + 1
        BY <2>6, <2>7
      <3> QED
        BY <2>6, <2>7, <3>1
    <2> HIDE DEF n
    <2>9. /\ q \in ThreadType(prog)
          /\ q.st = "user" /\ q.frames = n /\ q.pending = u.pending \ {s} /\ q.unwanted = u.unwanted \ {s}
          /\ q.mask = u.mask \cup {s} /\ q.call = "none" /\ q.did = FALSE /\ q.redo = FALSE
          /\ q.restart = u.restart /\ q.alarm = u.alarm
      <3>1. u.mask \cup {s} \in Maskable(prog) /\ "none" \in CallNames
        BY <1>1, <2>2 DEF ThreadType, Maskable, CallNames
      <3> QED
        BY <1>1, <2>3, <2>7, <3>1 DEF ThreadType
    <2>10. \A i \in DOMAIN q.frames : Whole(q.frames[i])
      <3>1. Whole(f)
        BY <1>2, <2>5 DEF Whole
      <3> QED
        BY <1>2, <2>7, <2>8, <2>9, <3>1 DEF Fits
    <2>11. Nested(q, prog)
      <3> SUFFICES ASSUME "mask" \notin prog.calls
                   PROVE  /\ q.mask = Under(n, 0)
                          /\ \A i \in DOMAIN n : n[i].mask = Under(n, i) /\ n[i].sig \notin n[i].mask
        BY <2>9 DEF Nested
      <3>1. /\ u.mask = Under(u.frames, 0)
            /\ \A i \in DOMAIN u.frames : /\ u.frames[i].mask = Under(u.frames, i)
                                          /\ u.frames[i].sig \notin u.frames[i].mask
        BY <1>2 DEF Fits, Nested
      <3>2. n[1].mask = Under(n, 1) /\ n[1].sig \notin n[1].mask
        BY <2>2, <2>5, <2>7, <3>1
      <3> QED
        BY <2>5, <2>7, <2>8, <2>9, <3>1, <3>2
    <2>12. Len(q.frames) <= prog.frames
      <3>1. prog.frames \in Nat
        BY DEF Program
      <3>2. Len(u.frames) < prog.frames
        BY <1>1, <1>2, <1>4
      <3> QED
        BY <2>6, <2>7, <2>9, <3>1, <3>2
    <2>13. Good(q, prog)
      BY <1>1, <1>2, <2>9, <2>10, <2>11, <2>12 DEF Good, Fits, Whole
    <2>14. Kept(u, d) => Kept(q, d)
      <3> SUFFICES ASSUME Kept(u, d) PROVE Kept(q, d)
        OBVIOUS
      <3>1. ~f.unwanted
        BY <2>2, <2>5 DEF Kept, Caught, Ignored
      <3> QED
        BY <2>7, <2>8, <2>9, <3>1 DEF Kept
    <2> QED
      BY <1>2, <2>9, <2>13, <2>14 DEF q, u
  <1> QED
    BY <1>3, <1>4 DEF u

\* A thread that is gone.
LEMMA DeadGood ==
    ASSUME prog \in Program, NEW d
    PROVE  LET q == [Thread0 EXCEPT !.st = "dead"]
           IN  Good(q, prog) /\ q.st = "dead" /\ Kept(q, d)
  <1> DEFINE q == [Thread0 EXCEPT !.st = "dead"]
  <1>1. q \in ThreadType(prog)
    <2>1. q = [Thread0 EXCEPT !.st = "dead"] /\ <<>> \in Seq(FrameType(prog)) /\ {} \in Maskable(prog)
      BY DEF Maskable
    <2> QED
      BY <2>1 DEF Thread0, ThreadType, CallNames
  <1>2. /\ q.st = "dead" /\ q.unwanted = {} /\ q.pending = {} /\ q.frames = <<>> /\ ~q.alarm
        /\ q.mask = {} /\ ~q.restart
    BY DEF Thread0
  <1>3. prog.frames \in Nat /\ Under(<<>>, 0) = {}
    BY DEF Program, Under
  <1> HIDE DEF q
  <1>4. Len(q.frames) = 0 /\ DOMAIN q.frames = {} /\ Len(q.frames) <= prog.frames
    BY <1>2, <1>3
  <1>5. Good(q, prog)
    BY <1>1, <1>2, <1>3, <1>4 DEF Good, Fits, Nested
  <1>6. Kept(q, d)
    BY <1>2, <1>4 DEF Kept
  <1> QED
    BY <1>2, <1>5, <1>6 DEF q

\* The way out leaves a thread in ring 3, or ends it.
LEMMA OutStep ==
    ASSUME NEW t \in Threads, NEW r, NEW d, NEW from \in {"syscall", "interrupt"},
           prog \in Program, Fits(r, prog), ~r.restart, Whole(r), Out(t, r, from, d)
    PROVE  \E q : /\ Set(t, q) /\ Good(q, prog) /\ q.st \in {"user", "dead"}
                  /\ Kept(r, d) => Kept(q, d)
  <1>1. CASE /\ Handled(r, d) = {} \/ Len(r.frames) < MaxFrames
             /\ Set(t, Deliver([r EXCEPT !.st = "user"], from, d))
    BY <1>1, DeliverStep DEF MaxFrames
  <1>2. CASE Gone(t)
    BY <1>2, DeadGood DEF Gone
  <1> QED
    BY <1>1, <1>2 DEF Out

\* What syscall_dispatch ends with: the call had its effect, or it is to be put
\* back and had none.
Settled(r) ==
    /\ r.redo \/ r.restart => r.call \in Blocking /\ ~r.did
    /\ ~r.redo /\ ~r.restart => r.call = "none" \/ r.did

LEMMA SyscallOutStep ==
    ASSUME NEW t \in Threads, NEW r, NEW d,
           prog \in Program, Fits(r, prog), Settled(r), SyscallOut(t, r, d)
    PROVE  \E q : /\ Set(t, q) /\ Good(q, prog) /\ q.st \in {"user", "dead"}
                  /\ Kept(r, d) => Kept(q, d)
  <1> DEFINE back == r.restart /\ Handled(r, d) # {}
             r1 == [r EXCEPT !.restart = FALSE, !.redo = r.redo \/ back]
             r2 == IF Handled(r, d) = {} /\ ~r1.redo
                   THEN [r1 EXCEPT !.call = "none", !.did = FALSE] ELSE r1
  <1>1. Out(t, r2, "syscall", d)
    BY DEF SyscallOut
  <1>2. r \in ThreadType(prog) /\ back \in BOOLEAN
    BY DEF Fits, ThreadType
  <1>3. /\ r1 \in ThreadType(prog) /\ ~r1.restart /\ r1.redo = (r.redo \/ back)
        /\ r1.call = r.call /\ r1.did = r.did /\ r1.pending = r.pending /\ r1.unwanted = r.unwanted
        /\ r1.frames = r.frames /\ r1.mask = r.mask /\ r1.alarm = r.alarm
    BY <1>2 DEF ThreadType
  <1>4. r.redo \in BOOLEAN /\ r.restart \in BOOLEAN /\ r.did \in BOOLEAN
    BY <1>2 DEF ThreadType
  <1> HIDE DEF r1
  <1>5. /\ r2 \in ThreadType(prog) /\ ~r2.restart
        /\ r2.pending = r.pending /\ r2.unwanted = r.unwanted
        /\ r2.frames = r.frames /\ r2.mask = r.mask /\ r2.alarm = r.alarm
    BY <1>3 DEF ThreadType, CallNames
  <1>6. Whole(r2)
    <2>1. CASE Handled(r, d) = {} /\ ~r1.redo
      <3>1. r2.call = "none" /\ r2.redo = r1.redo
        BY <1>3, <2>1 DEF ThreadType
      <3> QED
        BY <2>1, <3>1 DEF Whole
    <2>2. CASE r1.redo
      BY <1>3, <1>4, <2>2 DEF Whole, Settled, Blocking
    <2>3. CASE Handled(r, d) # {} /\ ~r1.redo
      BY <1>3, <1>4, <2>3 DEF Whole, Settled, Blocking
    <2> QED
      BY <2>1, <2>2, <2>3
  <1> HIDE DEF r2, back
  <1>7. Fits(r2, prog) /\ (Kept(r, d) => Kept(r2, d))
    BY <1>5 DEF Fits, Nested, Kept
  <1>8. \E q : /\ Set(t, q) /\ Good(q, prog) /\ q.st \in {"user", "dead"}
               /\ Kept(r2, d) => Kept(q, d)
    BY <1>1, <1>5, <1>6, <1>7, OutStep
  <1> QED
    BY <1>7, <1>8

----------------------------------------------------------------------------
(* One lemma for each kind of step.                                        *)

\* A change of anything but the signals and the frames.
LEMMA SameSignals ==
    ASSUME NEW r, NEW q, Fits(r, prog), q \in ThreadType(prog),
           q.pending = r.pending, q.unwanted = r.unwanted, q.mask = r.mask,
           q.frames = r.frames, q.alarm = r.alarm
    PROVE  Fits(q, prog) /\ \A d : Kept(r, d) => Kept(q, d)
  BY DEF Fits, Nested, Kept

\* A step that ends in ring 3, or with the end of the thread.
LEMMA ToUser ==
    ASSUME NEW t \in Threads, NEW r, NEW d, NEW e, NEW q, Good(q, prog), q.st \in {"user", "dead"},
           Kept(r, d) => Kept(q, e)
    PROVE  Steps(r, q, prog, d, e)
  BY DEF Steps, Wakeful

\* The end of the thread.
LEMMA GoneStep ==
    ASSUME SInv, NEW t \in Threads, Gone(t)
    PROVE  \E q : Set(t, q) /\ Steps(th[t], q, prog, disp, disp')
  <1>1. LET q == [Thread0 EXCEPT !.st = "dead"]
        IN  Good(q, prog) /\ q.st = "dead" /\ Kept(q, disp')
    BY DeadGood DEF SInv
  <1> QED
    BY <1>1, ToUser DEF Gone

\* signal_send, signal_tick.
LEMMA SendStep ==
    ASSUME SInv, NEW t \in Threads, NEW s \in Sigs, Send(t, s)
    PROVE  \E q : Set(t, q) /\ Steps(th[t], q, prog, disp, disp')
  BY PostStep DEF Send, SInv

LEMMA AlarmStep ==
    ASSUME SInv, NEW t \in Threads, AlarmRings(t)
    PROVE  \E q : Set(t, q) /\ Steps(th[t], q, prog, disp, disp')
  <1> DEFINE p == Posted(th[t], SIGALRM)
             q == [p EXCEPT !.alarm = FALSE]
  <1>1. SIGALRM \in Sigs /\ Good(th[t], prog) /\ disp' = disp /\ Set(t, q)
    BY DEF SInv, AlarmRings, Good, Fits, Sigs
  <1>2. Steps(th[t], p, prog, disp, disp)
    BY <1>1, PostStep
  <1> HIDE DEF p
  <1>3. Good(p, prog) /\ p \in ThreadType(prog)
    BY <1>2 DEF Steps, Good, Fits
  <1>4. /\ q \in ThreadType(prog) /\ ~q.alarm /\ q.st = p.st /\ q.pending = p.pending
        /\ q.unwanted = p.unwanted /\ q.mask = p.mask /\ q.frames = p.frames
        /\ q.call = p.call /\ q.did = p.did /\ q.redo = p.redo /\ q.restart = p.restart
    BY <1>3 DEF ThreadType
  <1> HIDE DEF q
  <1>5. Good(q, prog)
    BY <1>3, <1>4 DEF Good, Fits, Nested, Whole
  <1>6. /\ Kept(th[t], disp) => Kept(q, disp)
        /\ Wakeful(th[t], disp) => Wakeful(q, disp)
    BY <1>2, <1>4 DEF Steps, Kept, Wakeful
  <1> QED
    BY <1>1, <1>5, <1>6 DEF Steps

\* What the entry of a call that does not block leaves.
LEMMA MadeStep ==
    ASSUME SInv, NEW t \in Threads, NEW k \in AllCalls \ Blocking, Enters(t, k)
    PROVE  LET r == Made(t, k)
           IN  /\ Fits(r, prog) /\ r.call = k /\ r.did /\ ~r.redo /\ ~r.restart /\ r.st = "user"
               /\ Kept(th[t], disp) => Kept(r, disp)
  <1> DEFINE c == Checked(th[t])
             r == Made(t, k)
  <1>1. Good(th[t], prog) /\ th[t].st = "user" /\ Fits(th[t], prog) /\ th[t] \in ThreadType(prog)
    BY DEF SInv, Enters, Good, Fits
  <1>2. ~th[t].redo /\ ~th[t].restart
    BY <1>1 DEF Good, Whole, Enters
  <1>3. /\ Fits(c, prog) /\ c.st = th[t].st /\ c.redo = th[t].redo /\ c.restart = th[t].restart
        /\ Kept(th[t], disp) => Kept(c, disp)
    BY <1>1, CheckStep
  <1>4. c \in ThreadType(prog)
    BY <1>3 DEF Fits
  <1>5. r = [c EXCEPT !.call = k, !.did = TRUE]
    BY DEF Made
  <1> HIDE DEF c, r
  <1>6. /\ r \in ThreadType(prog) /\ r.call = k /\ r.did = TRUE /\ r.redo = c.redo /\ r.restart = c.restart
        /\ r.st = c.st /\ r.pending = c.pending /\ r.unwanted = c.unwanted /\ r.mask = c.mask
        /\ r.frames = c.frames /\ r.alarm = c.alarm
    BY <1>4, <1>5 DEF ThreadType, CallNames
  <1>7. Fits(r, prog) /\ (Kept(c, disp) => Kept(r, disp))
    BY <1>3, <1>6, SameSignals
  <1> QED
    BY <1>1, <1>2, <1>3, <1>6, <1>7 DEF r

\* The end of a call made on the thread r.
LEMMA MadeOut ==
    ASSUME SInv, NEW t \in Threads, NEW r, Fits(r, prog), Settled(r), SyscallOut(t, r, disp'),
           Kept(th[t], disp) => Kept(r, disp')
    PROVE  \E q : Set(t, q) /\ Steps(th[t], q, prog, disp, disp')
  <1>1. PICK q : /\ Set(t, q) /\ Good(q, prog) /\ q.st \in {"user", "dead"}
                 /\ Kept(r, disp') => Kept(q, disp')
    BY SyscallOutStep DEF SInv
  <1> QED
    BY <1>1, ToUser

\* signal_set_handler: what was ignored is forgotten, and all else that is
\* unwanted is ignored still.
LEMMA SetHandlerStep ==
    ASSUME SInv, NEW t \in Threads, NEW s \in Sigs, NEW h \in {"dfl", "ign", "handler"},
           SetHandler(t, s, h)
    PROVE  \E q : Set(t, q) /\ Steps(th[t], q, prog, disp, disp')
  <1> DEFINE m == Made(t, "handler")
             cleared == IF disp[s] = "ign" THEN {s} ELSE {}
             r == [m EXCEPT !.pending = m.pending \ cleared, !.unwanted = m.unwanted \ cleared]
  <1>1. Enters(t, "handler") /\ disp' = [disp EXCEPT ![s] = h] /\ SyscallOut(t, r, disp')
    BY DEF SetHandler
  <1>2. "handler" \in AllCalls \ Blocking
    BY DEF AllCalls, Blocking
  <1>3. /\ Fits(m, prog) /\ m.call = "handler" /\ m.did /\ ~m.redo /\ ~m.restart
        /\ Kept(th[t], disp) => Kept(m, disp)
    BY <1>1, <1>2, MadeStep
  <1>4. m \in ThreadType(prog) /\ m.unwanted \subseteq prog.sigs
    BY <1>3 DEF Fits, ThreadType
  <1> HIDE DEF m
  <1>5. /\ r \in ThreadType(prog) /\ r.pending = m.pending \ cleared /\ r.unwanted = m.unwanted \ cleared
        /\ r.mask = m.mask /\ r.frames = m.frames /\ r.alarm = m.alarm
        /\ r.call = m.call /\ r.did = m.did /\ r.redo = m.redo /\ r.restart = m.restart
    BY <1>4 DEF ThreadType
  <1> HIDE DEF r
  <1>6. Fits(r, prog) /\ Settled(r)
    BY <1>3, <1>5 DEF Fits, Nested, Settled
  <1>7. Kept(m, disp) => Kept(r, disp')
    <2> SUFFICES ASSUME Kept(m, disp) PROVE Kept(r, disp')
      OBVIOUS
    <2>1. ASSUME NEW x \in r.unwanted PROVE Ignored(x, disp')
      <3>1. x \in m.unwanted /\ Ignored(x, disp) /\ x \in Sigs
        BY <1>4, <1>5, <2>1 DEF Kept, Sigs
      <3>2. x # s
        BY <1>5, <2>1, <3>1 DEF Ignored
      <3>3. disp'[x] = disp[x]
        BY <1>1, <3>1, <3>2 DEF SInv
      <3> QED
        BY <3>1, <3>3 DEF Ignored
    <2> QED
      BY <1>5, <2>1 DEF Kept
  <1> QED
    BY <1>1, <1>3, <1>6, <1>7, MadeOut

\* signal_mask, signal_alarm, raise.
LEMMA SetMaskStep ==
    ASSUME SInv, NEW t \in Threads, NEW n \in SUBSET Sigs, SetMask(t, n)
    PROVE  \E q : Set(t, q) /\ Steps(th[t], q, prog, disp, disp')
  <1> DEFINE m == Made(t, "mask")
             r == [m EXCEPT !.mask = n \ Uncatchable]
  <1>1. Enters(t, "mask") /\ disp' = disp /\ SyscallOut(t, r, disp') /\ "mask" \in prog.calls
    BY DEF SetMask, Enters, Calls
  <1>2. "mask" \in AllCalls \ Blocking
    BY DEF AllCalls, Blocking
  <1>3. /\ Fits(m, prog) /\ m.call = "mask" /\ m.did /\ ~m.redo /\ ~m.restart
        /\ Kept(th[t], disp) => Kept(m, disp)
    BY <1>1, <1>2, MadeStep
  <1>4. m \in ThreadType(prog) /\ n \ Uncatchable \in Maskable(prog)
    BY <1>3 DEF Fits, Maskable, Sigs
  <1> HIDE DEF m
  <1>5. /\ r \in ThreadType(prog) /\ r.pending = m.pending /\ r.unwanted = m.unwanted
        /\ r.frames = m.frames /\ r.alarm = m.alarm
        /\ r.call = m.call /\ r.did = m.did /\ r.redo = m.redo /\ r.restart = m.restart
    BY <1>4 DEF ThreadType
  <1> HIDE DEF r
  <1>6. Fits(r, prog) /\ Settled(r) /\ (Kept(m, disp) => Kept(r, disp'))
    BY <1>1, <1>3, <1>5 DEF Fits, Nested, Settled, Kept
  <1> QED
    BY <1>1, <1>3, <1>6, MadeOut

LEMMA SetAlarmStep ==
    ASSUME SInv, NEW t \in Threads, NEW on \in BOOLEAN, SetAlarm(t, on)
    PROVE  \E q : Set(t, q) /\ Steps(th[t], q, prog, disp, disp')
  <1> DEFINE m == Made(t, "alarm")
             r == [m EXCEPT !.alarm = on]
  <1>1. Enters(t, "alarm") /\ disp' = disp /\ SyscallOut(t, r, disp') /\ SIGALRM \in prog.sigs
    BY DEF SetAlarm, Sigs
  <1>2. "alarm" \in AllCalls \ Blocking
    BY DEF AllCalls, Blocking
  <1>3. /\ Fits(m, prog) /\ m.call = "alarm" /\ m.did /\ ~m.redo /\ ~m.restart
        /\ Kept(th[t], disp) => Kept(m, disp)
    BY <1>1, <1>2, MadeStep
  <1>4. m \in ThreadType(prog)
    BY <1>3 DEF Fits
  <1> HIDE DEF m
  <1>5. /\ r \in ThreadType(prog) /\ r.pending = m.pending /\ r.unwanted = m.unwanted
        /\ r.frames = m.frames /\ r.mask = m.mask
        /\ r.call = m.call /\ r.did = m.did /\ r.redo = m.redo /\ r.restart = m.restart
    BY <1>4 DEF ThreadType
  <1> HIDE DEF r
  <1>6. Fits(r, prog) /\ Settled(r) /\ (Kept(m, disp) => Kept(r, disp'))
    BY <1>1, <1>3, <1>5 DEF Fits, Nested, Settled, Kept
  <1> QED
    BY <1>1, <1>3, <1>6, MadeOut

LEMMA RaiseStep ==
    ASSUME SInv, NEW t \in Threads, NEW s \in Sigs, Raise(t, s)
    PROVE  \E q : Set(t, q) /\ Steps(th[t], q, prog, disp, disp')
  <1> DEFINE m == Made(t, "kill")
             r == Posted(m, s)
  <1>1. Enters(t, "kill") /\ disp' = disp /\ SyscallOut(t, r, disp')
    BY DEF Raise
  <1>2. "kill" \in AllCalls \ Blocking /\ "kill" # "none"
    BY DEF AllCalls, Blocking
  <1>3. /\ Fits(m, prog) /\ m.call = "kill" /\ m.did /\ ~m.redo /\ ~m.restart /\ m.st = "user"
        /\ Kept(th[t], disp) => Kept(m, disp)
    BY <1>1, <1>2, MadeStep
  <1> HIDE DEF m
  <1>4. Good(m, prog)
    <2>1. m.did \in BOOLEAN /\ m.redo \in BOOLEAN
      BY <1>3 DEF Fits, ThreadType
    <2> QED
      BY <1>2, <1>3, <2>1 DEF Good, Whole
  <1>5. /\ Good(r, prog) /\ (Kept(m, disp) => Kept(r, disp))
        /\ r.call = m.call /\ r.did = m.did /\ r.redo = m.redo /\ r.restart = m.restart
    BY <1>4, PostStep DEF Steps
  <1> HIDE DEF r
  <1>6. Fits(r, prog) /\ Settled(r)
    BY <1>3, <1>5 DEF Good, Settled
  <1> QED
    BY <1>1, <1>3, <1>5, <1>6, MadeOut

\* A thread with all that signal_check acts on taken away may sleep.
LEMMA SleepStep ==
    ASSUME NEW r, NEW q, Good(r, prog), q.st = "blocked", Fits(q, prog),
           ~q.restart, q.call \in Blocking, ~q.redo, q.did => q.call = "write",
           q.pending = Checked(r).pending, q.mask = Checked(r).mask,
           q.unwanted = Checked(r).unwanted, q.frames = Checked(r).frames
    PROVE  Steps(r, q, prog, disp, disp)
  <1>1. Fits(r, prog)
    BY DEF Good
  <1>2. /\ Kept(r, disp) => Kept(Checked(r), disp)
        /\ \A s \in Checked(r).pending \ Checked(r).mask : Caught(s, disp)
    BY <1>1, CheckStep
  <1>3. Good(q, prog)
    BY DEF Good
  <1>4. Kept(r, disp) => Kept(q, disp)
    BY <1>2 DEF Kept
  <1> QED
    BY <1>2, <1>3, <1>4 DEF Steps, Wakeful

\* The blocking calls.
LEMMA BlockStep ==
    ASSUME SInv, NEW t \in Threads, NEW k \in Blocking, Block(t, k)
    PROVE  \E q : Set(t, q) /\ Steps(th[t], q, prog, disp, disp')
  <1> DEFINE c == Checked(th[t])
             r == [c EXCEPT !.call = k, !.redo = FALSE, !.did = FALSE]
             b == [r EXCEPT !.st = "blocked"]
             w == [r EXCEPT !.st = "blocked", !.did = TRUE]
             d == [r EXCEPT !.did = TRUE]
  <1>1. Good(th[t], prog) /\ Fits(th[t], prog) /\ ~th[t].restart /\ disp' = disp
    BY DEF SInv, Block, Good
  <1>2. /\ Fits(c, prog) /\ c.restart = th[t].restart
        /\ Kept(th[t], disp) => Kept(c, disp)
    BY <1>1, CheckStep
  <1>3. c \in ThreadType(prog) /\ ~c.restart /\ k \in CallNames
    BY <1>1, <1>2 DEF Fits, CallNames, AllCalls
  <1>4. \/ Set(t, b)
        \/ k = "write" /\ Set(t, w)
        \/ SyscallOut(t, d, disp')
    BY <1>1 DEF Block
  <1> HIDE DEF c
  <1>5. /\ b \in ThreadType(prog) /\ b.st = "blocked" /\ b.call = k /\ ~b.redo /\ ~b.did /\ b.restart = c.restart
        /\ b.pending = c.pending /\ b.mask = c.mask /\ b.unwanted = c.unwanted /\ b.frames = c.frames
        /\ b.alarm = c.alarm
    BY <1>3 DEF ThreadType
  <1>6. /\ w \in ThreadType(prog) /\ w.st = "blocked" /\ w.call = k /\ ~w.redo /\ w.restart = c.restart
        /\ w.pending = c.pending /\ w.mask = c.mask /\ w.unwanted = c.unwanted /\ w.frames = c.frames
        /\ w.alarm = c.alarm
    BY <1>3 DEF ThreadType
  <1>7. /\ d \in ThreadType(prog) /\ d.call = k /\ ~d.redo /\ d.did /\ d.restart = c.restart
        /\ d.pending = c.pending /\ d.mask = c.mask /\ d.unwanted = c.unwanted /\ d.frames = c.frames
        /\ d.alarm = c.alarm
    BY <1>3 DEF ThreadType
  <1> HIDE DEF b, w, d
  <1>8. Fits(b, prog) /\ Fits(w, prog) /\ Fits(d, prog) /\ (Kept(c, disp) => Kept(d, disp))
    BY <1>2, <1>5, <1>6, <1>7, SameSignals
  <1>9. CASE Set(t, b)
    <2>1. Steps(th[t], b, prog, disp, disp)
      BY <1>1, <1>3, <1>5, <1>8, SleepStep DEF c
    <2> QED
      BY <1>1, <1>9, <2>1
  <1>10. CASE k = "write" /\ Set(t, w)
    <2>1. Steps(th[t], w, prog, disp, disp)
      BY <1>1, <1>3, <1>6, <1>8, <1>10, SleepStep DEF c
    <2> QED
      BY <1>1, <1>10, <2>1
  <1>11. CASE SyscallOut(t, d, disp')
    <2>1. Settled(d)
      BY <1>3, <1>7 DEF Settled
    <2> QED
      BY <1>1, <1>2, <1>8, <1>11, <2>1, MadeOut
  <1> QED
    BY <1>4, <1>9, <1>10, <1>11

LEMMA EventStep ==
    ASSUME SInv, NEW t \in Threads, Event(t)
    PROVE  \E q : Set(t, q) /\ Steps(th[t], q, prog, disp, disp')
  <1> DEFINE q == [th[t] EXCEPT !.st = "woken"]
  <1>1. Good(th[t], prog) /\ th[t] \in ThreadType(prog) /\ th[t].st = "blocked" /\ disp' = disp /\ Set(t, q)
    BY DEF SInv, Event, Good, Fits
  <1>2. /\ q \in ThreadType(prog) /\ q.st = "woken" /\ q.pending = th[t].pending /\ q.unwanted = th[t].unwanted
        /\ q.mask = th[t].mask /\ q.frames = th[t].frames /\ q.alarm = th[t].alarm
        /\ q.call = th[t].call /\ q.did = th[t].did /\ q.redo = th[t].redo /\ q.restart = th[t].restart
    BY <1>1 DEF ThreadType
  <1> HIDE DEF q
  <1>3. Fits(q, prog) /\ \A d : Kept(th[t], d) => Kept(q, d)
    BY <1>1, <1>2, SameSignals DEF Good
  <1> QED
    BY <1>1, <1>2, <1>3 DEF Steps, Good, Wakeful

\* The rest of block_current.
LEMMA ResumeStep ==
    ASSUME SInv, NEW t \in Threads, Resume(t)
    PROVE  \E q : Set(t, q) /\ Steps(th[t], q, prog, disp, disp')
  <1> DEFINE c == Checked(th[t])
             k == c.call
             g == [c EXCEPT !.restart = Restarts(k, c.did), !.did = c.did \/ k = "sleep"]
             d == [c EXCEPT !.did = TRUE]
             b == [c EXCEPT !.st = "blocked", !.did = c.did \/ k = "write"]
  <1>1. Good(th[t], prog) /\ Fits(th[t], prog) /\ th[t].st = "woken" /\ disp' = disp
    BY DEF SInv, Resume, Good
  <1>2. /\ Fits(c, prog) /\ c.restart = th[t].restart /\ c.call = th[t].call /\ c.did = th[t].did
        /\ c.redo = th[t].redo
        /\ Kept(th[t], disp) => Kept(c, disp)
    BY <1>1, CheckStep
  <1>3. c \in ThreadType(prog) /\ ~c.restart /\ ~c.redo /\ k \in Blocking /\ (c.did => k = "write")
    BY <1>1, <1>2 DEF Good, Fits
  <1>4. \/ Gone(t)
        \/ k # "line" /\ SyscallOut(t, g, disp')
        \/ SyscallOut(t, d, disp')
        \/ Set(t, b)
    BY <1>1 DEF Resume
  <1>5. c.did \in BOOLEAN /\ Restarts(k, c.did) \in BOOLEAN
    BY <1>3 DEF ThreadType, Restarts
  <1> HIDE DEF c
  <1>6. /\ g \in ThreadType(prog) /\ g.call = k /\ ~g.redo /\ g.restart = Restarts(k, c.did)
        /\ g.did = (c.did \/ k = "sleep")
        /\ g.pending = c.pending /\ g.mask = c.mask /\ g.unwanted = c.unwanted /\ g.frames = c.frames
        /\ g.alarm = c.alarm
    BY <1>3, <1>5 DEF ThreadType
  <1>7. /\ d \in ThreadType(prog) /\ d.call = k /\ ~d.redo /\ d.did /\ ~d.restart
        /\ d.pending = c.pending /\ d.mask = c.mask /\ d.unwanted = c.unwanted /\ d.frames = c.frames
        /\ d.alarm = c.alarm
    BY <1>3 DEF ThreadType
  <1>8. /\ b \in ThreadType(prog) /\ b.call = k /\ ~b.redo /\ ~b.restart /\ b.st = "blocked"
        /\ b.did = (c.did \/ k = "write")
        /\ b.pending = c.pending /\ b.mask = c.mask /\ b.unwanted = c.unwanted /\ b.frames = c.frames
        /\ b.alarm = c.alarm
    BY <1>3, <1>5 DEF ThreadType
  <1> HIDE DEF k, g, d, b
  <1>9. /\ Fits(g, prog) /\ Fits(d, prog) /\ Fits(b, prog)
        /\ (Kept(c, disp) => Kept(g, disp)) /\ (Kept(c, disp) => Kept(d, disp))
    BY <1>2, <1>6, <1>7, <1>8, SameSignals
  <1>10. CASE Gone(t)
    BY <1>10, GoneStep
  <1>11. CASE k # "line" /\ SyscallOut(t, g, disp')
    <2>1. Settled(g)
      BY <1>3, <1>5, <1>6, <1>11 DEF Settled, Restarts, Blocking
    <2> QED
      BY <1>1, <1>2, <1>9, <1>11, <2>1, MadeOut
  <1>12. CASE SyscallOut(t, d, disp')
    <2>1. Settled(d)
      BY <1>7 DEF Settled
    <2> QED
      BY <1>1, <1>2, <1>9, <1>12, <2>1, MadeOut
  <1>13. CASE Set(t, b)
    <2>1. b.did => b.call = "write"
      BY <1>3, <1>8
    <2>2. Steps(th[t], b, prog, disp, disp)
      BY <1>1, <1>3, <1>8, <1>9, <2>1, SleepStep DEF c
    <2> QED
      BY <1>1, <1>13, <2>2
  <1> QED
    BY <1>4, <1>10, <1>11, <1>12, <1>13

\* The way out from an interrupt, on the thread r.
LEMMA InterruptOut ==
    ASSUME SInv, NEW t \in Threads, NEW r, Fits(r, prog), ~r.restart, Whole(r),
           Out(t, r, "interrupt", disp), disp' = disp, Kept(th[t], disp) => Kept(r, disp)
    PROVE  \E q : Set(t, q) /\ Steps(th[t], q, prog, disp, disp')
  <1>1. PICK q : /\ Set(t, q) /\ Good(q, prog) /\ q.st \in {"user", "dead"}
                 /\ Kept(r, disp) => Kept(q, disp)
    BY OutStep DEF SInv
  <1> QED
    BY <1>1, ToUser

\* sched_on_tick.
LEMMA TickStep ==
    ASSUME SInv, NEW t \in Threads, Tick(t)
    PROVE  \E q : Set(t, q) /\ Steps(th[t], q, prog, disp, disp')
  <1> DEFINE c == Checked(th[t])
             q == [c EXCEPT !.st = "ready"]
  <1>1. Good(th[t], prog) /\ Fits(th[t], prog) /\ th[t].st = "user" /\ disp' = disp /\ Whole(th[t])
    BY DEF SInv, Tick, Good
  <1>2. /\ Fits(c, prog) /\ c.restart = th[t].restart /\ c.call = th[t].call /\ c.did = th[t].did
        /\ c.redo = th[t].redo
        /\ Kept(th[t], disp) => Kept(c, disp)
    BY <1>1, CheckStep
  <1>3. Gone(t) \/ Set(t, q) \/ Out(t, c, "interrupt", disp)
    BY DEF Tick
  <1>4. c \in ThreadType(prog) /\ ~c.restart /\ Whole(c)
    BY <1>1, <1>2 DEF Good, Fits, Whole
  <1> HIDE DEF c
  <1>5. /\ q \in ThreadType(prog) /\ q.st = "ready" /\ q.restart = c.restart
        /\ q.call = c.call /\ q.did = c.did /\ q.redo = c.redo
        /\ q.pending = c.pending /\ q.mask = c.mask /\ q.unwanted = c.unwanted /\ q.frames = c.frames
        /\ q.alarm = c.alarm
    BY <1>4 DEF ThreadType
  <1> HIDE DEF q
  <1>6. Fits(q, prog) /\ (Kept(c, disp) => Kept(q, disp))
    BY <1>2, <1>5, SameSignals
  <1>7. Good(q, prog) /\ Wakeful(q, disp)
    BY <1>4, <1>5, <1>6 DEF Good, Whole, Wakeful
  <1>8. CASE Gone(t)
    BY <1>8, GoneStep
  <1>9. CASE Set(t, q)
    BY <1>1, <1>2, <1>6, <1>7, <1>9 DEF Steps
  <1>10. CASE Out(t, c, "interrupt", disp)
    BY <1>1, <1>2, <1>4, <1>10, InterruptOut
  <1> QED
    BY <1>3, <1>8, <1>9, <1>10

LEMMA RunStep ==
    ASSUME SInv, NEW t \in Threads, Run(t)
    PROVE  \E q : Set(t, q) /\ Steps(th[t], q, prog, disp, disp')
  <1> DEFINE q == [th[t] EXCEPT !.st = "user"]
  <1>1. /\ Good(th[t], prog) /\ Fits(th[t], prog) /\ th[t].st = "ready" /\ disp' = disp /\ Whole(th[t])
        /\ ~th[t].restart /\ th[t] \in ThreadType(prog)
    BY DEF SInv, Run, Good, Fits
  <1>2. Set(t, q) \/ Out(t, th[t], "interrupt", disp)
    BY DEF Run
  <1>3. /\ q \in ThreadType(prog) /\ q.st = "user" /\ q.restart = th[t].restart
        /\ q.call = th[t].call /\ q.did = th[t].did /\ q.redo = th[t].redo
        /\ q.pending = th[t].pending /\ q.mask = th[t].mask /\ q.unwanted = th[t].unwanted
        /\ q.frames = th[t].frames /\ q.alarm = th[t].alarm
    BY <1>1 DEF ThreadType
  <1> HIDE DEF q
  <1>4. Fits(q, prog) /\ (Kept(th[t], disp) => Kept(q, disp))
    BY <1>1, <1>3, SameSignals
  <1>5. Good(q, prog) /\ Wakeful(q, disp)
    BY <1>1, <1>3, <1>4 DEF Good, Whole, Wakeful
  <1>6. CASE Set(t, q)
    BY <1>1, <1>4, <1>5, <1>6 DEF Steps
  <1>7. CASE Out(t, th[t], "interrupt", disp)
    BY <1>1, <1>7, InterruptOut
  <1> QED
    BY <1>2, <1>6, <1>7

\* signal_from_fault.
LEMMA FaultStep ==
    ASSUME SInv, NEW t \in Threads, Fault(t)
    PROVE  \E q : Set(t, q) /\ Steps(th[t], q, prog, disp, disp')
  <1> DEFINE r == [th[t] EXCEPT !.pending = th[t].pending \cup {SIGSEGV},
                                !.unwanted = th[t].unwanted \ {SIGSEGV}]
  <1>1. /\ Good(th[t], prog) /\ Fits(th[t], prog) /\ th[t].st = "user" /\ disp' = disp /\ Whole(th[t])
        /\ ~th[t].restart /\ th[t] \in ThreadType(prog) /\ SIGSEGV \in prog.sigs
    BY DEF SInv, Fault, Good, Fits, Sigs
  <1>2. Gone(t) \/ Out(t, r, "interrupt", disp)
    BY DEF Fault
  <1>3. /\ r \in ThreadType(prog) /\ r.restart = th[t].restart
        /\ r.call = th[t].call /\ r.did = th[t].did /\ r.redo = th[t].redo
        /\ r.pending = th[t].pending \cup {SIGSEGV} /\ r.mask = th[t].mask
        /\ r.unwanted = th[t].unwanted \ {SIGSEGV}
        /\ r.frames = th[t].frames /\ r.alarm = th[t].alarm
    BY <1>1 DEF ThreadType
  <1> HIDE DEF r
  <1>4. Fits(r, prog) /\ (Kept(th[t], disp) => Kept(r, disp))
    BY <1>1, <1>3 DEF Fits, Nested, Kept
  <1>5. ~r.restart /\ Whole(r)
    BY <1>1, <1>3 DEF Whole
  <1>6. CASE Gone(t)
    BY <1>6, GoneStep
  <1>7. CASE Out(t, r, "interrupt", disp)
    BY <1>1, <1>4, <1>5, <1>7, InterruptOut
  <1> QED
    BY <1>2, <1>6, <1>7

\* signal_return: the frame holds what the thread goes back to.
LEMMA ReturnStep ==
    ASSUME SInv, NEW t \in Threads, SigReturn(t)
    PROVE  \E q : Set(t, q) /\ Steps(th[t], q, prog, disp, disp')
  <1> DEFINE c == Checked(th[t])
             f == Head(c.frames)
             r == [c EXCEPT !.frames = Tail(c.frames), !.mask = ReturnMask(c, f),
                            !.call = f.call, !.did = f.did, !.redo = f.redo]
  <1>1. /\ Good(th[t], prog) /\ Fits(th[t], prog) /\ th[t].st = "user" /\ disp' = disp
        /\ ~th[t].restart /\ th[t].frames # <<>>
    BY DEF SInv, SigReturn, Good
  <1>2. /\ Fits(c, prog) /\ c.restart = th[t].restart /\ c.frames = th[t].frames /\ c.st = th[t].st
        /\ Kept(th[t], disp) => Kept(c, disp)
    BY <1>1, CheckStep
  <1>3. Set(t, r) \/ SyscallOut(t, r, disp')
    BY <1>1 DEF SigReturn
  <1>4. c \in ThreadType(prog) /\ c.frames \in Seq(FrameType(prog)) /\ c.frames # <<>>
    BY <1>1, <1>2 DEF Fits, ThreadType
  <1> HIDE DEF c
  <1> DEFINE z == Tail(c.frames)
  <1>5. /\ z \in Seq(FrameType(prog)) /\ f = c.frames[1] /\ 1 \in DOMAIN c.frames
        /\ f \in FrameType(prog)
        /\ Len(z) = Len(c.frames) - 1
        /\ \A i \in DOMAIN z : z[i] = c.frames[i + 1] /\ i + 1 \in DOMAIN c.frames
        /\ \A i \in DOMAIN z : Under(z, i) = Under(c.frames, i + 1)
        /\ Under(z, 0) = Under(c.frames, 1)
    BY <1>4, PopFrame
  <1>6. Len(c.frames) \in Nat /\ Len(c.frames) <= prog.frames /\ prog.frames \in Nat
    BY <1>2, <1>4 DEF Fits, SInv, Program
  <1>7. r = [c EXCEPT !.frames = z, !.mask = f.mask, !.call = f.call, !.did = f.did, !.redo = f.redo]
    BY DEF ReturnMask
  <1> HIDE DEF z, f, r
  <1>8. /\ f.mask \in Maskable(prog) /\ f.call \in CallNames /\ f.did \in BOOLEAN /\ f.redo \in BOOLEAN
    BY <1>5 DEF FrameType
  <1>9. /\ r \in ThreadType(prog) /\ r.st = c.st /\ r.restart = c.restart /\ r.alarm = c.alarm
        /\ r.pending = c.pending /\ r.unwanted = c.unwanted
        /\ r.frames = z /\ r.mask = f.mask /\ r.call = f.call /\ r.did = f.did /\ r.redo = f.redo
    BY <1>4, <1>5, <1>7, <1>8 DEF ThreadType
  <1>10. Whole(f) /\ \A i \in DOMAIN z : Whole(z[i])
    BY <1>2, <1>5 DEF Fits
  <1>11. Nested(r, prog)
    BY <1>2, <1>5, <1>9 DEF Fits, Nested
  <1>12. Fits(r, prog)
    <2>1. Len(z) <= prog.frames
      BY <1>5, <1>6
    <2> QED
      BY <1>2, <1>9, <1>10, <1>11, <2>1 DEF Fits
  <1>13. Whole(r) /\ Settled(r)
    BY <1>1, <1>2, <1>8, <1>9, <1>10 DEF Whole, Settled
  <1>14. Kept(c, disp) => Kept(r, disp)
    BY <1>5, <1>9 DEF Kept
  <1>15. CASE Set(t, r)
    <2>1. Good(r, prog) /\ Wakeful(r, disp)
      BY <1>1, <1>2, <1>9, <1>12, <1>13 DEF Good, Wakeful
    <2> QED
      BY <1>1, <1>2, <1>14, <1>15, <2>1 DEF Steps
  <1>16. CASE SyscallOut(t, r, disp')
    BY <1>1, <1>2, <1>12, <1>13, <1>14, <1>16, MadeOut
  <1> QED
    BY <1>3, <1>15, <1>16

\* process_suspend, process_resume.
LEMMA SuspendStep ==
    ASSUME SInv, NEW t \in Threads, NEW on \in BOOLEAN, Suspend(t, on)
    PROVE  \E q : Set(t, q) /\ Steps(th[t], q, prog, disp, disp')
  <1> DEFINE q == [th[t] EXCEPT !.stopped = on]
  <1>1. Good(th[t], prog) /\ th[t] \in ThreadType(prog) /\ disp' = disp /\ Set(t, q)
    BY DEF SInv, Suspend, Good, Fits
  <1>2. /\ q \in ThreadType(prog) /\ q.st = th[t].st /\ q.pending = th[t].pending /\ q.unwanted = th[t].unwanted
        /\ q.mask = th[t].mask /\ q.frames = th[t].frames /\ q.alarm = th[t].alarm
        /\ q.call = th[t].call /\ q.did = th[t].did /\ q.redo = th[t].redo /\ q.restart = th[t].restart
    BY <1>1 DEF ThreadType
  <1> HIDE DEF q
  <1>3. Fits(q, prog) /\ \A d : Kept(th[t], d) => Kept(q, d)
    BY <1>1, <1>2, SameSignals DEF Good
  <1>4. Good(q, prog) /\ (Wakeful(th[t], disp) => Wakeful(q, disp))
    BY <1>1, <1>2, <1>3 DEF Good, Whole, Wakeful
  <1> QED
    BY <1>1, <1>3, <1>4 DEF Steps

----------------------------------------------------------------------------
(* The invariants of every reachable state.                                *)

\* One step of one thread: the others stay as they are.
LEMMA NextStep ==
    ASSUME SInv, Next
    PROVE  /\ UNCHANGED prog /\ disp' \in [Sigs -> {"dfl", "ign", "handler"}]
           /\ \E t \in Threads : \E q : Set(t, q) /\ Steps(th[t], q, prog, disp, disp')
  <1>1. UNCHANGED prog
    BY DEF Next
  <1>2. PICK t \in Threads :
          \/ Runs(t) \/ SigReturn(t) \/ Event(t) \/ AlarmRings(t) \/ Fault(t)
          \/ \E s \in Sigs :
               \/ Send(t, s) \/ Raise(t, s)
               \/ \E h \in {"dfl", "ign", "handler"} : SetHandler(t, s, h)
          \/ \E m \in SUBSET Sigs : SetMask(t, m)
          \/ \E k \in Blocking : Block(t, k)
          \/ \E on \in BOOLEAN : SetAlarm(t, on) \/ Suspend(t, on)
    BY DEF Next
  <1>3. disp' \in [Sigs -> {"dfl", "ign", "handler"}]
    <2>1. CASE Runs(t) \/ SigReturn(t) \/ Event(t) \/ AlarmRings(t) \/ Fault(t)
      BY <2>1 DEF SInv, Runs, Tick, Run, Resume, EndAtEntry, SigReturn, Event, AlarmRings, Fault
    <2>2. CASE \E s \in Sigs : Send(t, s) \/ Raise(t, s)
      BY <2>2 DEF SInv, Send, Raise
    <2>3. ASSUME NEW s \in Sigs, NEW h \in {"dfl", "ign", "handler"}, SetHandler(t, s, h)
          PROVE  disp' \in [Sigs -> {"dfl", "ign", "handler"}]
      BY <2>3 DEF SInv, SetHandler
    <2>4. CASE \/ \E m \in SUBSET Sigs : SetMask(t, m)
               \/ \E k \in Blocking : Block(t, k)
               \/ \E on \in BOOLEAN : SetAlarm(t, on) \/ Suspend(t, on)
      BY <2>4 DEF SInv, SetMask, Block, SetAlarm, Suspend
    <2> QED
      BY <1>2, <2>1, <2>2, <2>3, <2>4
  <1>4. \E q : Set(t, q) /\ Steps(th[t], q, prog, disp, disp')
    <2>1. CASE Runs(t)
      BY <2>1, TickStep, RunStep, ResumeStep, GoneStep DEF Runs, EndAtEntry
    <2>2. CASE SigReturn(t) \/ Event(t) \/ AlarmRings(t) \/ Fault(t)
      BY <2>2, ReturnStep, EventStep, AlarmStep, FaultStep
    <2>3. ASSUME NEW s \in Sigs, Send(t, s) \/ Raise(t, s)
          PROVE  \E q : Set(t, q) /\ Steps(th[t], q, prog, disp, disp')
      BY <2>3, SendStep, RaiseStep
    <2>4. ASSUME NEW s \in Sigs, NEW h \in {"dfl", "ign", "handler"}, SetHandler(t, s, h)
          PROVE  \E q : Set(t, q) /\ Steps(th[t], q, prog, disp, disp')
      BY <2>4, SetHandlerStep
    <2>5. ASSUME NEW m \in SUBSET Sigs, SetMask(t, m)
          PROVE  \E q : Set(t, q) /\ Steps(th[t], q, prog, disp, disp')
      BY <2>5, SetMaskStep
    <2>6. ASSUME NEW k \in Blocking, Block(t, k)
          PROVE  \E q : Set(t, q) /\ Steps(th[t], q, prog, disp, disp')
      BY <2>6, BlockStep
    <2>7. ASSUME NEW on \in BOOLEAN, SetAlarm(t, on) \/ Suspend(t, on)
          PROVE  \E q : Set(t, q) /\ Steps(th[t], q, prog, disp, disp')
      BY <2>7, SetAlarmStep, SuspendStep
    <2> QED
      BY <1>2, <2>1, <2>2, <2>3, <2>4, <2>5, <2>6, <2>7
  <1> QED
    BY <1>1, <1>3, <1>4

\* A thread at its start.
LEMMA StartGood ==
    ASSUME prog \in Program, NEW d
    PROVE  Good(Thread0, prog) /\ Kept(Thread0, d) /\ Wakeful(Thread0, d)
  <1>1. Thread0 \in ThreadType(prog)
    <2>1. <<>> \in Seq(FrameType(prog)) /\ {} \in Maskable(prog)
      BY DEF Maskable
    <2> QED
      BY <2>1 DEF Thread0, ThreadType, CallNames
  <1>2. /\ Thread0.st = "user" /\ Thread0.unwanted = {} /\ Thread0.pending = {} /\ Thread0.frames = <<>>
        /\ ~Thread0.alarm /\ Thread0.mask = {} /\ ~Thread0.restart
        /\ Thread0.call = "none" /\ ~Thread0.redo
    BY DEF Thread0
  <1>3. prog.frames \in Nat /\ Under(<<>>, 0) = {}
    BY DEF Program, Under
  <1>4. Len(Thread0.frames) = 0 /\ DOMAIN Thread0.frames = {} /\ Len(Thread0.frames) <= prog.frames
    BY <1>2, <1>3
  <1>5. Fits(Thread0, prog)
    BY <1>1, <1>2, <1>3, <1>4 DEF Fits, Nested
  <1> QED
    BY <1>2, <1>4, <1>5 DEF Good, Whole, Kept, Wakeful

\* Every thread is as Good says, however many share the dispositions.
THEOREM SignalInvariant == Spec => []SInv
  <1>1. Init => SInv
    <2> SUFFICES ASSUME Init PROVE SInv
      OBVIOUS
    <2>1. prog \in Program /\ disp = [s \in Sigs |-> "dfl"] /\ th = [t \in Threads |-> Thread0]
      BY SignalAssumption DEF Init
    <2>2. Good(Thread0, prog)
      BY <2>1, StartGood
    <2> QED
      BY <2>1, <2>2 DEF SInv
  <1>2. SInv /\ [Next]_<<prog, vars>> => SInv'
    <2> SUFFICES ASSUME SInv, [Next]_<<prog, vars>> PROVE SInv'
      OBVIOUS
    <2>1. CASE UNCHANGED <<prog, vars>>
      BY <2>1 DEF SInv, vars, Sigs
    <2>2. CASE Next
      <3>1. UNCHANGED prog /\ disp' \in [Sigs -> {"dfl", "ign", "handler"}]
        BY <2>2, NextStep
      <3>2. PICK t \in Threads : \E q : Set(t, q) /\ Steps(th[t], q, prog, disp, disp')
        BY <2>2, NextStep
      <3>3. PICK q : Set(t, q) /\ Steps(th[t], q, prog, disp, disp')
        BY <3>2
      <3>4. DOMAIN th' = Threads /\ \A u \in Threads : th'[u] = IF u = t THEN q ELSE th[u]
        BY <3>3 DEF Set, SInv
      <3>5. \A u \in Threads : Good(th'[u], prog)
        BY <3>3, <3>4 DEF SInv, Steps
      <3> QED
        BY <3>1, <3>4, <3>5 DEF SInv, Sigs
    <2> QED
      BY <2>1, <2>2
  <1> QED
    BY <1>1, <1>2, PTL DEF Spec

\* A call broken into by handlers is redone exactly if nothing of it was done,
\* through any nest of frames (sig_restart, deliver, signal_return).
THEOREM SignalRedoneIffUndone == Spec => []RedoneIffUndone
  <1>1. SInv => RedoneIffUndone
    <2> SUFFICES ASSUME SInv, NEW t \in Threads,
                        NEW x \in {ContextOf(th[t].frames[i]) : i \in DOMAIN th[t].frames}
                                    \cup (IF th[t].st \in {"user", "ready"} THEN {ContextOf(th[t])} ELSE {})
                 PROVE  IF x.call = "none" THEN ~x.redo ELSE x.redo = ~x.did
      BY DEF RedoneIffUndone
    <2>1. Good(th[t], prog)
      BY DEF SInv
    <2>2. CASE x \in {ContextOf(th[t].frames[i]) : i \in DOMAIN th[t].frames}
      <3>1. PICK i \in DOMAIN th[t].frames : x = ContextOf(th[t].frames[i])
        BY <2>2
      <3>2. Whole(th[t].frames[i])
        BY <2>1 DEF Good, Fits
      <3> QED
        BY <3>1, <3>2 DEF Whole, ContextOf
    <2>3. CASE th[t].st \in {"user", "ready"} /\ x = ContextOf(th[t])
      BY <2>1, <2>3 DEF Good, Whole, ContextOf
    <2> QED
      BY <2>2, <2>3
  <1> QED
    BY <1>1, SignalInvariant, PTL

\* The types, and the mask that is exactly the handlers under way.
LEMMA SInvTypes ==
    ASSUME SInv
    PROVE  TypeOK /\ HeldWhileHandled
  <1>1. ASSUME NEW t \in Threads
        PROVE  /\ th[t].st \in {"user", "ready", "blocked", "woken", "dead"}
               /\ th[t].pending \subseteq Sigs /\ th[t].unwanted \subseteq th[t].pending
               /\ th[t].mask \subseteq Sigs \ Uncatchable
               /\ ContextOf(th[t]) \in Context
               /\ ~th[t].restart
               /\ Len(th[t].frames) <= MaxFrames
               /\ \A i \in DOMAIN th[t].frames :
                    th[t].frames[i].sig \in Sigs /\ ContextOf(th[t].frames[i]) \in Context
    <2>1. Good(th[t], prog) /\ Fits(th[t], prog) /\ th[t] \in ThreadType(prog)
      BY DEF SInv, Good, Fits
    <2>2. \A i \in DOMAIN th[t].frames : th[t].frames[i] \in FrameType(prog)
      BY <2>1 DEF ThreadType
    <2>3. \A i \in DOMAIN th[t].frames :
            th[t].frames[i].sig \in Sigs /\ ContextOf(th[t].frames[i]) \in Context
      BY <2>2 DEF FrameType, Sigs, ContextOf, Context, CallNames
    <2>4. ContextOf(th[t]) \in Context
      BY <2>1 DEF ThreadType, ContextOf, Context, CallNames
    <2> QED
      BY <2>1, <2>3, <2>4 DEF ThreadType, Good, Fits, Sigs, Maskable, MaxFrames
  <1>2. TypeOK
    BY <1>1 DEF TypeOK, SInv
  <1>3. ASSUME "mask" \notin Calls, NEW t \in Threads
        PROVE  /\ th[t].mask = {th[t].frames[i].sig : i \in DOMAIN th[t].frames}
               /\ \A i, j \in DOMAIN th[t].frames : th[t].frames[i].sig = th[t].frames[j].sig => i = j
    <2> DEFINE f == th[t].frames
    <2>1. /\ th[t].mask = Under(f, 0)
          /\ \A i \in DOMAIN f : f[i].mask = Under(f, i) /\ f[i].sig \notin f[i].mask
      BY <1>3 DEF SInv, Good, Fits, Nested, Calls
    <2>2. DOMAIN f = 1..Len(f) /\ Len(f) \in Nat
      BY DEF SInv, Good, Fits, ThreadType
    <2> HIDE DEF f
    <2>3. \A i \in DOMAIN f : i \in Nat /\ i > 0
      BY <2>2
    <2>4. th[t].mask = {f[i].sig : i \in DOMAIN f}
      BY <2>1, <2>3 DEF Under
    <2>5. \A i, j \in DOMAIN f : i < j => f[i].sig # f[j].sig
      BY <2>1, <2>3 DEF Under
    <2>6. \A i, j \in DOMAIN f : f[i].sig = f[j].sig => i = j
      BY <2>3, <2>5
    <2> QED
      BY <2>4, <2>6 DEF f
  <1> QED
    BY <1>2, <1>3 DEF HeldWhileHandled

\* In any program that leaves its mask alone, with any number of threads, the
\* signals held off are those whose handlers run, each once.
THEOREM SignalHeld == Spec => [](TypeOK /\ HeldWhileHandled)
  BY SInvTypes, SignalInvariant, PTL

\* In a program of one thread, whose dispositions nobody else changes.
OneThread == \A t, u \in Threads : t = u
CInv == \A t \in Threads : Kept(th[t], disp) /\ Wakeful(th[t], disp)

LEMMA OneThreadInvariant == ASSUME OneThread PROVE Spec => []CInv
  <1>1. Init => CInv
    <2> SUFFICES ASSUME Init PROVE CInv
      OBVIOUS
    <2>1. prog \in Program /\ th = [t \in Threads |-> Thread0]
      BY SignalAssumption DEF Init
    <2>2. Kept(Thread0, disp) /\ Wakeful(Thread0, disp)
      BY <2>1, StartGood
    <2> QED
      BY <2>1, <2>2 DEF CInv
  <1>2. SInv /\ CInv /\ [Next]_<<prog, vars>> => CInv'
    <2> SUFFICES ASSUME SInv, CInv, [Next]_<<prog, vars>> PROVE CInv'
      OBVIOUS
    <2>1. CASE UNCHANGED <<prog, vars>>
      BY <2>1 DEF CInv, vars
    <2>2. CASE Next
      <3>1. PICK t \in Threads : \E q : Set(t, q) /\ Steps(th[t], q, prog, disp, disp')
        BY <2>2, NextStep
      <3>2. PICK q : Set(t, q) /\ Steps(th[t], q, prog, disp, disp')
        BY <3>1
      <3>3. \A u \in Threads : th'[u] = q
        BY <3>2 DEF Set, SInv, OneThread
      <3>4. Kept(q, disp') /\ Wakeful(q, disp')
        BY <3>2 DEF CInv, Steps
      <3> QED
        BY <3>3, <3>4 DEF CInv
    <2> QED
      BY <2>1, <2>2
  <1> QED
    BY <1>1, <1>2, SignalInvariant, PTL DEF Spec

\* With one thread, no handler runs for a signal that came while it was being
\* ignored either (signal_set_handler).
THEOREM SignalHandlersInOrder == ASSUME OneThread PROVE Spec => []HandlersInOrder
  <1>1. SInv /\ CInv => HandlersInOrder
    BY SInvTypes DEF CInv, Kept, HandlersInOrder, IgnoredStaysIgnored
  <1> QED
    BY <1>1, SignalInvariant, OneThreadInvariant, PTL

\* With one thread, it does not sleep on a signal that would end, stop or
\* continue it (wakes, signal_check).
THEOREM SignalDefaultsNotSleptOn == ASSUME OneThread PROVE Spec => []DefaultsNotSleptOn
  <1>1. CInv => DefaultsNotSleptOn
    <2> SUFFICES ASSUME CInv, NEW t \in Threads, th[t].st = "blocked", NEW a \in {"term", "stop", "cont"},
                        ActedTo(th[t], a)
                 PROVE  FALSE
      BY DEF DefaultsNotSleptOn
    <2>1. PICK s \in th[t].pending \ th[t].mask :
             ~Caught(s, disp) /\ ~Ignored(s, disp) /\ DefaultAction(s) = a
      BY DEF ActedTo, Acted
    <2> QED
      BY <2>1 DEF CInv, Wakeful
  <1> QED
    BY <1>1, OneThreadInvariant, PTL

=============================================================================
