----------------------------- MODULE SockProofs -----------------------------
(***************************************************************************)
(* The sockets' safety properties, for any programs and threads, any sizes *)
(* of the tables and any calls: what the network gives has one holder and  *)
(* is given back with it (Accounted), calls act on their own program's     *)
(* sockets (ActsOnOwn), and who is told of the end of a stream is told the *)
(* truth (EndOrReason).                                                    *)
(*                                                                         *)
(* TInv says what the four tables say of each other.  Most steps leave it  *)
(* alone who has what (Touch); the others give a socket something that was *)
(* free (Seat), move a connection between the network, a queue and a       *)
(* socket, or close sockets (Freed), and each kind has its lemma.  SInv    *)
(* adds what a sleeping call will find; it follows from what a step does   *)
(* to the slots (SlotsStep) and to the threads (ThreadsOK).                *)
(***************************************************************************)
EXTENDS Sock, TLAPS, FiniteSetTheorems, SequenceTheorems, WellFoundedInduction

----------------------------------------------------------------------------
(* The inductive invariant.                                                *)

SockRec == [used : BOOLEAN, type : {"stream", "dgram"}, owner : Threads,
            state : {"free", "new", "listen", "connecting", "connected", "dead"},
            port : Nat, h : Handles \cup {None}, lsn : Listeners \cup {None},
            u : Udps \cup {None}, opts : SUBSET {"nonblock", "timeout"}, rd : BOOLEAN, wr : BOOLEAN,
            err : {"none", "reset", "other"}]
ConnRec == [st : {"free", "syn", "half", "open", "orphan", "dead"}, fin : BOOLEAN,
            rx : 0..1, eof : BOOLEAN, tx : 0..TxCap, err : {"none", "reset", "other"},
            lsn : Listeners \cup {None}, by : SUBSET Programs]
LsnRec == [used : BOOLEAN, port : Nat, q : Seq(Handles)]
UdpRec == [used : BOOLEAN, port : Nat, n : 0..1]
ThreadRec == [at : {"user", "wait", "ended"},
              k : {"none", "accept", "connect", "send", "recv", "recvfrom", "poll"},
              i : Slots \cup {None}, for : {"none", "in", "out", "conn"},
              left : 0..(TxCap + 1), end : BOOLEAN, from : SUBSET Programs]

Tables ==
    /\ sk \in [Slots -> SockRec] /\ conn \in [Handles -> ConnRec]
    /\ lsn \in [Listeners -> LsnRec] /\ usk \in [Udps -> UdpRec]

\* A socket listens with a listener, or has a connection that is nobody else's
\* to let go of, or a port.
SockOK(i) ==
    /\ sk[i].state # "free" /\ sk[i].owner \in Programs
    /\ sk[i].type = "dgram" => sk[i].h = None /\ sk[i].state = "new"
    /\ sk[i].type = "stream" => sk[i].u = None
    /\ sk[i].state = "listen" => sk[i].lsn # None /\ lsn[sk[i].lsn].used
    /\ sk[i].h # None <=> sk[i].state \in {"connecting", "connected", "dead"}
    /\ sk[i].h # None => /\ conn[sk[i].h].st \in {"syn", "open", "dead"} /\ conn[sk[i].h].lsn = None
                         /\ conn[sk[i].h].by \subseteq {sk[i].owner}
    /\ sk[i].u # None => usk[sk[i].u].used
Socks == \A i \in Slots : sk[i].used => SockOK(i)

\* No two sockets have the same.
Apart ==
    \A i, j \in Slots : sk[i].used /\ sk[j].used /\ i # j =>
        /\ sk[i].h # None => sk[i].h # sk[j].h
        /\ sk[i].u # None => sk[i].u # sk[j].u
        /\ sk[i].state = "listen" /\ sk[j].state = "listen" => sk[i].lsn # sk[j].lsn

\* A connection for listener L is for the program that listens there.
ForOwner(h, L) ==
    \A i \in Slots : sk[i].used /\ sk[i].state = "listen" /\ sk[i].lsn = L =>
        conn[h].by \subseteq {sk[i].owner}

QueueOK(L) ==
    /\ \A k \in 1..Len(lsn[L].q) : /\ conn[lsn[L].q[k]].st \in {"open", "dead"}
                                   /\ conn[lsn[L].q[k]].lsn = L
                                   /\ ForOwner(lsn[L].q[k], L)
    /\ \A k, m \in 1..Len(lsn[L].q) : k # m => lsn[L].q[k] # lsn[L].q[m]
    /\ ~lsn[L].used => lsn[L].q = <<>>
Queues == \A L \in Listeners : QueueOK(L)

HalfOK(h) ==
    conn[h].st = "half" =>
        conn[h].lsn # None /\ lsn[conn[h].lsn].used /\ ForOwner(h, conn[h].lsn)
Halves == \A h \in Handles : HalfOK(h)

\* Whatever is in use has its holder.
ConnHeld(h) ==
    /\ conn[h].st = "syn" => conn[h].lsn = None
    /\ conn[h].st \in {"syn", "open", "dead"} /\ conn[h].lsn = None =>
          \E i \in Slots : sk[i].used /\ sk[i].h = h
    /\ conn[h].st = "open" /\ conn[h].lsn # None =>
          \E k \in 1..Len(lsn[conn[h].lsn].q) : lsn[conn[h].lsn].q[k] = h
LsnHeld(L) == lsn[L].used => \E i \in Slots : sk[i].used /\ sk[i].state = "listen" /\ sk[i].lsn = L
UdpHeld(u) == usk[u].used => \E i \in Slots : sk[i].used /\ sk[i].u = u
AllHeld ==
    /\ \A h \in Handles : ConnHeld(h)
    /\ \A L \in Listeners : LsnHeld(L)
    /\ \A u \in Udps : UdpHeld(u)

\* The reason a connection ended is there only once it has.
Reasons ==
    \A h \in Handles : /\ conn[h].err # "none" => conn[h].st = "dead"
                       /\ conn[h].st = "dead" => conn[h].eof

\* No more are accepted or on the way than were asked for.
Room == \A L \in Listeners : Len(lsn[L].q) + Cardinality(Half(L)) <= Backlog

TInv == Tables /\ Socks /\ Apart /\ Queues /\ Halves /\ AllHeld /\ Reasons /\ Room

\* What a sleeping call finds: its socket, in a state it can have got to, or none.
Fits(s, t, k, for) ==
    /\ s.owner = Main[t]
    /\ k = "accept" => s.state = "listen"
    /\ k = "recvfrom" => s.type = "dgram"
    /\ k \in {"connect", "send", "recv"} =>
          s.type = "stream" /\ s.state \in {"connecting", "connected", "dead"}
    /\ k = "recv" /\ for = "in" => s.state = "connected"
SleepOK(t) ==
    th[t].at = "wait" =>
        /\ th[t].i \in Slots /\ th[t].k # "none"
        /\ th[t].k = "recv" => th[t].for \in {"in", "conn"}
        /\ sk[th[t].i].used => Fits(sk[th[t].i], t, th[t].k, th[t].for)
Sleepers == \A t \in Threads : SleepOK(t)

SInv ==
    /\ TInv /\ th \in [Threads -> ThreadRec] /\ Sleepers
    /\ ActsOnOwn /\ ClosedWithProgram
    /\ setup \in Setups /\ calls \in 0..setup.calls

----------------------------------------------------------------------------
(* Helpers.                                                                *)

\* The first free one of a table is one that is free.
LEMMA LowestIn ==
    ASSUME NEW S, S \subseteq Nat, S # {}
    PROVE  Lowest(S) \in S
  <1>1. PICK x \in S : \A y \in S : <<y, x>> \notin OpToRel(<, Nat)
    BY NatLessThanWellFounded, WFMin
  <1>3. \A y \in S : <<y, x>> \in OpToRel(<, Nat) <=> y < x
    BY DEF OpToRel
  <1>4. \A y \in S : ~(y < x)
    BY <1>1, <1>3
  <1>2. \E z \in S : \A y \in S : z <= y
    <2>1. \A y \in S : x <= y
      BY <1>4
    <2> QED
      BY <2>1
  <1> QED
    BY <1>2 DEF Lowest

\* How a program is named.
LEMMA MainFacts ==
    /\ Programs \subseteq Threads
    /\ \A p \in Programs : Main[p] = p
    /\ \A t \in Threads : Main[t] \in Programs
  BY SockAssumption DEF Programs

LEMMA NoSockIs ==
    ASSUME Threads # {}
    PROVE  NoSock \in SockRec /\ NoSock.owner \in Programs
  <1>1. (CHOOSE p \in Programs : TRUE) \in Programs
    BY MainFacts
  <1> QED
    BY <1>1, MainFacts, SockAssumption DEF NoSock, SockRec, None

LEMMA NoConnIs == NoConn \in ConnRec
  BY SockAssumption DEF NoConn, ConnRec, None

\* What a call may do to a socket, and what the network and a call may do to a
\* connection, without changing who has what.
Touched(s, r) ==
    /\ r.used = s.used /\ r.type = s.type /\ r.owner = s.owner
    /\ r.h = s.h /\ r.lsn = s.lsn /\ r.u = s.u
    /\ \/ r.state = s.state
       \/ s.type = "stream" /\ s.state = "connecting" /\ r.state \in {"connected", "dead"}
Carried(c, d) ==
    /\ d.lsn = c.lsn /\ d.by = c.by
    /\ d.st = c.st \/ (c.st \in {"syn", "open"} /\ d.st \in {"open", "dead"})
    /\ (d.err # "none" => d.st = "dead") /\ (d.st = "dead" => d.eof)

LEMMA ConnIs ==
    ASSUME Tables, NEW i \in Slots, sk[i].used, SockOK(i), sk[i].h # None
    PROVE  Conn(sk[i].h) = conn[sk[i].h] /\ sk[i].h \in Handles
  BY DEF Tables, SockRec, SockOK, Conn

LEMMA ConnType ==
    ASSUME Tables, NEW h \in Handles \cup {None}
    PROVE  Conn(h) \in ConnRec
  BY NoConnIs, SockAssumption DEF Tables, Conn, ConnRec, NoConn, None

LEMMA RefreshTouches ==
    ASSUME Tables, NEW s \in SockRec
    PROVE  Refresh(s) \in SockRec /\ Touched(s, Refresh(s))
  <1>1. Conn(s.h) \in ConnRec
    BY ConnType DEF SockRec
  <1> DEFINE c == Conn(s.h)
  <1>2. c.err \in {"none", "reset", "other"}
    BY <1>1 DEF ConnRec
  <1> HIDE DEF c
  <1>3. Refresh(s) = IF s.type = "dgram" THEN s
      ELSE IF s.state = "connecting" /\ c.st = "open" THEN [s EXCEPT !.state = "connected"]
      ELSE IF s.state = "connecting" /\ c.st = "dead"
        THEN [s EXCEPT !.state = "dead", !.err = IF c.err = "none" THEN "reset" ELSE c.err]
      ELSE IF s.state = "connected" /\ c.st = "dead" /\ s.err = "none" THEN [s EXCEPT !.err = c.err]
      ELSE s
    BY DEF c, Refresh
  <1>4. CASE s.type = "stream" /\ s.state = "connecting" /\ c.st = "open"
    <2>1. Refresh(s) = [s EXCEPT !.state = "connected"]
      BY <1>3, <1>4
    <2> QED
      BY <1>4, <2>1 DEF SockRec, Touched
  <1>5. CASE s.type = "stream" /\ s.state = "connecting" /\ c.st = "dead"
    <2> DEFINE e == IF c.err = "none" THEN "reset" ELSE c.err
    <2>1. Refresh(s) = [s EXCEPT !.state = "dead", !.err = e] /\ e \in {"none", "reset", "other"}
      BY <1>2, <1>3, <1>5
    <2> HIDE DEF e
    <2> QED
      BY <1>5, <2>1 DEF SockRec, Touched
  <1>6. CASE s.type = "stream" /\ s.state = "connected" /\ c.st = "dead" /\ s.err = "none"
    <2>1. Refresh(s) = [s EXCEPT !.err = c.err]
      BY <1>3, <1>6
    <2> QED
      BY <1>2, <1>6, <2>1 DEF SockRec, Touched
  <1>7. CASE Refresh(s) = s
    BY <1>7 DEF Touched
  <1> QED
    BY <1>3, <1>4, <1>5, <1>6, <1>7 DEF SockRec

----------------------------------------------------------------------------
(* The tables: one lemma per kind of change.                               *)

\* Nobody gets or loses anything.
Touch ==
    /\ Tables' /\ lsn' = lsn
    /\ \A i \in Slots : Touched(sk[i], sk'[i])
    /\ \A h \in Handles : Carried(conn[h], conn'[h])
    /\ \A u \in Udps : usk'[u].used = usk[u].used

LEMMA TouchKeeps ==
    ASSUME TInv, Touch
    PROVE  TInv'
  <1>1. Socks'
    <2> SUFFICES ASSUME NEW i \in Slots, sk'[i].used PROVE SockOK(i)'
      BY DEF Socks
    <2>1. Touched(sk[i], sk'[i]) /\ SockOK(i) /\ sk[i] \in SockRec /\ sk'[i] \in SockRec
      BY DEF Touch, Touched, TInv, Socks, Tables
    <2>2. sk[i].h # None => /\ sk[i].h \in Handles /\ Carried(conn[sk[i].h], conn'[sk[i].h])
      BY <2>1 DEF Touch, SockRec
    <2>3. sk[i].u # None => usk'[sk[i].u].used = usk[sk[i].u].used
      BY <2>1 DEF Touch, SockRec
    <2> QED
      BY <2>1, <2>2, <2>3 DEF SockOK, Touched, Carried, Touch, SockRec
  <1>2. Apart'
    <2> SUFFICES ASSUME NEW i \in Slots, NEW j \in Slots, sk'[i].used, sk'[j].used, i # j
                 PROVE  /\ sk'[i].h # None => sk'[i].h # sk'[j].h
                        /\ sk'[i].u # None => sk'[i].u # sk'[j].u
                        /\ sk'[i].state = "listen" /\ sk'[j].state = "listen" => sk'[i].lsn # sk'[j].lsn
      BY DEF Apart
    <2> QED
      BY DEF Touch, Touched, TInv, Apart
  <1>3. ASSUME NEW h \in Handles, NEW L, ForOwner(h, L) PROVE ForOwner(h, L)'
    BY <1>3 DEF ForOwner, Touch, Touched, Carried
  <1>4. Queues'
    <2> SUFFICES ASSUME NEW L \in Listeners PROVE QueueOK(L)'
      BY DEF Queues
    <2>1. QueueOK(L) /\ lsn[L].q \in Seq(Handles) /\ lsn'[L] = lsn[L]
      BY DEF Touch, TInv, Queues, Tables, LsnRec
    <2>2. ASSUME NEW k \in 1..Len(lsn[L].q)
          PROVE  lsn[L].q[k] \in Handles /\ Carried(conn[lsn[L].q[k]], conn'[lsn[L].q[k]])
      BY <2>1 DEF Touch
    <2>3. ASSUME NEW k \in 1..Len(lsn[L].q)
          PROVE  ForOwner(lsn[L].q[k], L)'
      BY <2>1, <2>2, <1>3 DEF QueueOK, Touch
    <2> QED
      BY <2>1, <2>2, <2>3 DEF QueueOK, Carried
  <1>5. Halves'
    <2> SUFFICES ASSUME NEW h \in Handles, conn'[h].st = "half" PROVE HalfOK(h)'
      BY DEF Halves, HalfOK
    <2>1. HalfOK(h) /\ conn[h].st = "half" /\ conn'[h].lsn = conn[h].lsn
      BY DEF Touch, Carried, TInv, Halves
    <2> QED
      BY <2>1, <1>3 DEF HalfOK, Touch
  <1>6. AllHeld'
    <2>1. ASSUME NEW h \in Handles PROVE ConnHeld(h)'
      <3>1. ConnHeld(h) /\ Carried(conn[h], conn'[h])
        BY DEF TInv, AllHeld, Touch
      <3>2. ASSUME NEW i \in Slots, sk[i].used, sk[i].h = h PROVE sk'[i].used /\ sk'[i].h = h
        BY <3>2 DEF Touch, Touched
      <3> QED
        BY <3>1, <3>2 DEF ConnHeld, Carried, Touch
    <2>2. ASSUME NEW L \in Listeners PROVE LsnHeld(L)'
      BY DEF TInv, AllHeld, Touch, Touched, LsnHeld
    <2>3. ASSUME NEW u \in Udps PROVE UdpHeld(u)'
      BY DEF TInv, AllHeld, Touch, Touched, UdpHeld
    <2> QED
      BY <2>1, <2>2, <2>3 DEF AllHeld
  <1>7. Reasons'
    BY DEF Touch, Carried, Reasons
  <1>8. Room'
    <2>1. \A L \in Listeners : Half(L)' = Half(L)
      BY DEF Half, Touch, Carried
    <2> QED
      BY <2>1 DEF Room, Touch, TInv
  <1> QED
    BY <1>1, <1>2, <1>4, <1>5, <1>6, <1>7, <1>8 DEF TInv, Touch

\* A connection that is nobody's yet, or nobody's any more, is changed.
Loose(x) ==
    /\ sk' = sk /\ lsn' = lsn /\ usk' = usk
    /\ conn' \in [Handles -> ConnRec]
    /\ \A h \in Handles \ {x} : conn'[h] = conn[h]
    /\ conn[x].st \in {"free", "half", "orphan"}

LEMMA LooseKeeps ==
    ASSUME TInv, NEW x \in Handles, Loose(x), HalfOK(x)', ConnHeld(x)', Room',
           conn'[x].err # "none" => conn'[x].st = "dead", conn'[x].st = "dead" => conn'[x].eof
    PROVE  TInv'
  <1>1. Tables'
    BY DEF Loose, TInv, Tables
  <1>2. Socks'
    <2> SUFFICES ASSUME NEW i \in Slots, sk[i].used PROVE SockOK(i)'
      BY DEF Socks, Loose
    <2>1. SockOK(i) /\ sk[i] \in SockRec
      BY DEF TInv, Socks, Tables
    <2>2. sk[i].h # None => conn'[sk[i].h] = conn[sk[i].h]
      BY <2>1 DEF SockOK, Loose, SockRec
    <2> QED
      BY <2>1, <2>2 DEF SockOK, Loose
  <1>3. Apart'
    BY DEF Apart, TInv, Loose
  <1>4. Queues'
    <2> SUFFICES ASSUME NEW L \in Listeners PROVE QueueOK(L)'
      BY DEF Queues
    <2>1. QueueOK(L) /\ lsn[L].q \in Seq(Handles) /\ lsn'[L] = lsn[L]
      BY DEF Loose, TInv, Queues, Tables, LsnRec
    <2>2. ASSUME NEW k \in 1..Len(lsn[L].q)
          PROVE  conn'[lsn[L].q[k]] = conn[lsn[L].q[k]]
      BY <2>1 DEF Loose, QueueOK
    <2>3. ASSUME NEW k \in 1..Len(lsn[L].q)
          PROVE  ForOwner(lsn[L].q[k], L)'
      <3>1. ForOwner(lsn[L].q[k], L)
        BY <2>1 DEF QueueOK
      <3>2. (lsn[L].q[k])' = lsn[L].q[k]
        BY <2>1
      <3> QED
        BY <2>2, <3>1, <3>2 DEF ForOwner, Loose
    <2> QED
      BY <2>1, <2>2, <2>3 DEF QueueOK
  <1>5. Halves'
    BY DEF Halves, HalfOK, ForOwner, Loose, TInv
  <1>6. AllHeld'
    BY DEF AllHeld, ConnHeld, LsnHeld, UdpHeld, Loose, TInv
  <1>7. Reasons'
    BY DEF Reasons, Loose, TInv
  <1> QED
    BY <1>1, <1>2, <1>3, <1>4, <1>5, <1>6, <1>7 DEF TInv

LEMMA HalfFinite ==
    ASSUME NEW L
    PROVE  Half(L) \subseteq Handles /\ IsFiniteSet(Half(L)) /\ Cardinality(Half(L)) \in Nat
  <1>1. Half(L) \subseteq Handles
    BY DEF Half
  <1> QED
    BY <1>1, SockAssumption, FS_Subset, FS_CardinalityType

\* Fewer handshakes for a listener leave no less room.
LEMMA HalfShrinks ==
    ASSUME NEW L, Half(L)' \subseteq Half(L)
    PROVE  Cardinality(Half(L)') <= Cardinality(Half(L)) /\ Cardinality(Half(L)') \in Nat
  <1>1. IsFiniteSet(Half(L)')
    BY HalfFinite, FS_Subset
  <1> QED
    BY <1>1, HalfFinite, FS_Subset, FS_CardinalityType

LEMMA RoomLeft ==
    ASSUME NEW a \in Nat, NEW b \in Nat, NEW c \in Nat, NEW d \in Nat, NEW m \in Nat,
           c <= a, d <= b, a + b <= m
    PROVE  c + d <= m
  OBVIOUS

LEMMA LetGoKeeps ==
    ASSUME TInv, NEW h \in Handles, LetGo(h)
    PROVE  TInv'
  <1>1. conn' = [conn EXCEPT ![h] = NoConn] /\ conn \in [Handles -> ConnRec]
    BY DEF LetGo, TInv, Tables
  <1>2. Loose(h)
    BY <1>1, NoConnIs DEF LetGo, Loose
  <1>3. conn'[h] = NoConn
    BY <1>1
  <1>4. Room'
    <2> SUFFICES ASSUME NEW L \in Listeners PROVE (Len(lsn[L].q) + Cardinality(Half(L)) <= Backlog)'
      BY DEF Room
    <2>1. Half(L)' \subseteq Half(L)
      BY <1>2, <1>3 DEF Half, Loose, NoConn
    <2>2. Len(lsn[L].q) \in Nat /\ lsn' = lsn /\ Len(lsn[L].q) + Cardinality(Half(L)) <= Backlog
      BY <1>2 DEF TInv, Tables, LsnRec, Room, Loose
    <2> QED
      BY <2>1, <2>2, HalfShrinks, HalfFinite, SockAssumption
  <1> QED
    BY <1>2, <1>3, <1>4, LooseKeeps DEF HalfOK, ConnHeld, NoConn

LEMMA FailsHalfwayKeeps ==
    ASSUME TInv, NEW h \in Handles, FailsHalfway(h)
    PROVE  TInv'
  <1>1. conn' = [conn EXCEPT ![h] = Dead(conn[h], "other")] /\ conn \in [Handles -> ConnRec]
    BY DEF FailsHalfway, TInv, Tables
  <1>2. Dead(conn[h], "other") \in ConnRec /\ Dead(conn[h], "other").lsn = conn[h].lsn
        /\ Dead(conn[h], "other").st = "dead" /\ Dead(conn[h], "other").eof
    BY <1>1 DEF Dead, ConnRec
  <1>3. conn'[h] = Dead(conn[h], "other")
    BY <1>1
  <1>4. Loose(h)
    BY <1>1, <1>2 DEF FailsHalfway, Loose
  <1>5. Room'
    <2> SUFFICES ASSUME NEW L \in Listeners PROVE (Len(lsn[L].q) + Cardinality(Half(L)) <= Backlog)'
      BY DEF Room
    <2>1. Half(L)' \subseteq Half(L)
      BY <1>2, <1>3, <1>4 DEF Half, Loose
    <2>2. Len(lsn[L].q) \in Nat /\ lsn' = lsn /\ Len(lsn[L].q) + Cardinality(Half(L)) <= Backlog
      BY <1>4 DEF TInv, Tables, LsnRec, Room, Loose
    <2> QED
      BY <2>1, <2>2, HalfShrinks, HalfFinite, SockAssumption
  <1>6. conn[h].lsn # None
    BY DEF FailsHalfway, TInv, Halves, HalfOK
  <1> QED
    BY <1>2, <1>3, <1>4, <1>5, <1>6, LooseKeeps DEF HalfOK, ConnHeld

\* A SYN: the handshake is for the program that listens, and there is room.
LEMMA SynKeeps ==
    ASSUME TInv, NEW L \in Listeners, Syn(L)
    PROVE  TInv'
  <1>a. PICK x : x = Lowest(FreeHandles)
    OBVIOUS
  <1>b. PICK c : c = [NoConn EXCEPT !.st = "half", !.lsn = L, !.by = Owners(L)]
    OBVIOUS
  <1>1. x \in FreeHandles
    BY <1>a, LowestIn, SockAssumption DEF Syn, FreeHandles
  <1>2. x \in Handles /\ conn[x].st = "free"
    BY <1>1 DEF FreeHandles
  <1>3. Owners(L) \subseteq Programs
    <2> SUFFICES ASSUME NEW i \in Slots, sk[i].used PROVE sk[i].owner \in Programs
      BY DEF Owners
    <2> QED
      BY DEF TInv, Socks, SockOK
  <1>4. c \in ConnRec /\ c.st = "half" /\ c.lsn = L /\ c.by = Owners(L) /\ c.err = "none"
    BY <1>3, <1>b, NoConnIs DEF NoConn, ConnRec
  <1>5. conn' = [conn EXCEPT ![x] = c] /\ conn \in [Handles -> ConnRec]
    BY <1>a, <1>b DEF Syn, TInv, Tables
  <1>6. sk' = sk /\ lsn' = lsn /\ usk' = usk
    BY DEF Syn
  <1>7. conn'[x] = c
    BY <1>2, <1>5
  <1>8. Loose(x)
    BY <1>2, <1>4, <1>5, <1>6 DEF Loose
  <1>9. HalfOK(x)'
    <2>1. L # None /\ lsn[L].used
      BY SockAssumption DEF Syn, None
    <2>2. ASSUME NEW i \in Slots, sk[i].used, sk[i].state = "listen", sk[i].lsn = L
          PROVE  Owners(L) \subseteq {sk[i].owner}
      BY <2>2 DEF Owners, TInv, Apart
    <2>3. ForOwner(x, L)'
      BY <1>4, <1>6, <1>7, <2>2 DEF ForOwner
    <2> QED
      BY <1>4, <1>6, <1>7, <2>1, <2>3 DEF HalfOK
  <1>10. Room'
    <2> SUFFICES ASSUME NEW M \in Listeners PROVE (Len(lsn[M].q) + Cardinality(Half(M)) <= Backlog)'
      BY DEF Room
    <2>2. Len(lsn[M].q) \in Nat /\ Len(lsn[M].q) + Cardinality(Half(M)) <= Backlog
      BY DEF TInv, Tables, LsnRec, Room
    <2>3. CASE M = L
      <3>1. Half(M)' = Half(M) \cup {x} /\ x \notin Half(M)
        BY <1>2, <1>4, <1>7, <1>8, <2>3 DEF Half, Loose
      <3>2. Cardinality(Half(M)') = Cardinality(Half(M)) + 1
        BY <3>1, HalfFinite, FS_AddElement
      <3>3. Len(lsn[M].q) + Cardinality(Half(M)) < Backlog
        BY <2>3 DEF Syn
      <3> QED
        BY <3>2, <3>3, <2>2, <1>6, HalfFinite, SockAssumption
    <2>4. CASE M # L
      <3>1. Half(M)' \subseteq Half(M)
        BY <1>4, <1>7, <1>8, <2>4 DEF Half, Loose
      <3> QED
        BY <2>2, <1>6, <3>1, HalfShrinks, HalfFinite, SockAssumption
    <2> QED
      BY <2>3, <2>4
  <1> QED
    BY <1>2, <1>4, <1>7, <1>8, <1>9, <1>10, LooseKeeps DEF ConnHeld

\* The handshake is over: the handle goes from the count of those on the way to
\* the end of the queue, and nowhere else.
LEMMA CompletesKeeps ==
    ASSUME TInv, NEW h \in Handles, Completes(h)
    PROVE  TInv'
  <1>a. PICK L : L = conn[h].lsn
    OBVIOUS
  <1>b. PICK c : c = [conn[h] EXCEPT !.st = "open"]
    OBVIOUS
  <1>c. PICK q : q = Append(lsn[L].q, h)
    OBVIOUS
  <1>1. conn \in [Handles -> ConnRec] /\ lsn \in [Listeners -> LsnRec] /\ conn[h].st = "half"
        /\ conn' = [conn EXCEPT ![h] = c] /\ sk' = sk /\ usk' = usk
        /\ lsn' = [lsn EXCEPT ![L].q = q]
    BY <1>a, <1>b, <1>c DEF Completes, TInv, Tables
  <1>2. L \in Listeners /\ L # None /\ lsn[L].used /\ ForOwner(h, L)
    BY <1>1, <1>a DEF TInv, Halves, HalfOK, ConnRec
  <1>3. c \in ConnRec /\ c.st = "open" /\ c.lsn = L /\ c.by = conn[h].by /\ c.err = conn[h].err
    BY <1>1, <1>a, <1>b DEF ConnRec
  <1>4. lsn[L].q \in Seq(Handles) /\ q \in Seq(Handles) /\ Len(q) = Len(lsn[L].q) + 1
        /\ q[Len(q)] = h /\ \A k \in 1..Len(lsn[L].q) : q[k] = lsn[L].q[k]
    BY <1>1, <1>2, <1>c DEF LsnRec
  <1>5. lsn' \in [Listeners -> LsnRec] /\ lsn'[L].q = q /\ lsn'[L].used = lsn[L].used
        /\ \A M \in Listeners \ {L} : lsn'[M] = lsn[M]
    BY <1>1, <1>2, <1>4 DEF LsnRec
  <1>6. \A M \in Listeners : lsn'[M].used = lsn[M].used
    BY <1>2, <1>5
  <1>7. conn'[h] = c /\ \A g \in Handles \ {h} : conn'[g] = conn[g]
    BY <1>1
  <1>8. \A k \in 1..Len(lsn[L].q) : q[k] # h /\ q[k] \in Handles
    BY <1>1, <1>2, <1>4 DEF TInv, Queues, QueueOK
  <1>11. Tables'
    BY <1>1, <1>3, <1>5 DEF Tables, TInv
  <1>12. Socks'
    <2> SUFFICES ASSUME NEW i \in Slots, sk[i].used PROVE SockOK(i)'
      BY <1>1 DEF Socks
    <2>1. SockOK(i) /\ sk[i] \in SockRec
      BY DEF TInv, Socks, Tables
    <2>2. sk[i].h # None => conn'[sk[i].h] = conn[sk[i].h]
      BY <2>1, <1>1, <1>7 DEF SockOK, SockRec
    <2>3. sk[i].state = "listen" => sk[i].lsn \in Listeners /\ lsn'[sk[i].lsn].used = lsn[sk[i].lsn].used
      BY <2>1, <1>6 DEF SockOK, SockRec
    <2> QED
      BY <2>1, <2>2, <2>3, <1>1 DEF SockOK
  <1>13. Apart'
    BY <1>1 DEF TInv, Apart
  <1>14. ASSUME NEW g \in Handles, NEW M, ForOwner(g, M) PROVE ForOwner(g, M)'
    BY <1>1, <1>3, <1>7, <1>14 DEF ForOwner
  <1>15. Queues'
    <2> SUFFICES ASSUME NEW M \in Listeners PROVE QueueOK(M)'
      BY DEF Queues
    <2>1. QueueOK(M) /\ lsn[M].q \in Seq(Handles)
      BY DEF TInv, Queues, Tables, LsnRec
    <2>2. ASSUME NEW k \in 1..Len(lsn[M].q)
          PROVE  lsn[M].q[k] \in Handles /\ conn'[lsn[M].q[k]] = conn[lsn[M].q[k]] /\ lsn[M].q[k] # h
      BY <2>1, <1>1, <1>7 DEF QueueOK
    <2>3. CASE M # L
      <3>1. lsn'[M] = lsn[M]
        BY <2>3, <1>5
      <3>2. ASSUME NEW k \in 1..Len(lsn[M].q) PROVE ForOwner(lsn[M].q[k], M)'
        BY <2>1, <2>2, <3>1, <1>14 DEF QueueOK
      <3> QED
        BY <2>1, <2>2, <3>1, <3>2 DEF QueueOK
    <2>4. CASE M = L
      <3>1. ASSUME NEW k \in 1..Len(q)
            PROVE  /\ conn'[q[k]].st \in {"open", "dead"} /\ conn'[q[k]].lsn = L /\ ForOwner(q[k], L)'
        <4>1. CASE k = Len(q)
          <5>1. q[k] = h
            BY <4>1, <1>4, <1>5
          <5> QED
            BY <5>1, <1>2, <1>3, <1>7, <1>14
        <4>2. CASE k \in 1..Len(lsn[L].q)
          <5>1. q[k] = lsn[L].q[k]
            BY <4>2, <1>4
          <5>2. q[k] \in Handles /\ conn'[q[k]] = conn[q[k]] /\ conn[q[k]].st \in {"open", "dead"}
                /\ conn[q[k]].lsn = L /\ ForOwner(q[k], L)
            BY <5>1, <4>2, <2>1, <2>2, <2>4 DEF QueueOK
          <5>3. ForOwner(q[k], L)'
            BY <5>2, <1>1 DEF ForOwner
          <5> QED
            BY <5>2, <5>3
        <4> QED
          BY <4>1, <4>2, <1>4
      <3>2. ASSUME NEW k \in 1..Len(q), NEW m \in 1..Len(q), k # m PROVE q[k] # q[m]
        <4>1. (k \in 1..Len(lsn[L].q) \/ k = Len(q)) /\ (m \in 1..Len(lsn[L].q) \/ m = Len(q))
          BY <1>4
        <4>2. \A x, y \in 1..Len(lsn[L].q) : x # y => q[x] # q[y]
          BY <1>4, <2>1, <2>4 DEF QueueOK
        <4> QED
          BY <3>2, <4>1, <4>2, <1>4, <1>8
      <3>3. lsn'[M].q = q /\ lsn'[M].used
        BY <1>2, <1>5, <2>4
      <3> QED
        BY <3>1, <3>2, <3>3, <2>4 DEF QueueOK
    <2> QED
      BY <2>3, <2>4
  <1>16. Halves'
    <2> SUFFICES ASSUME NEW g \in Handles, conn'[g].st = "half" PROVE HalfOK(g)'
      BY DEF Halves, HalfOK
    <2>1. g # h /\ conn'[g] = conn[g] /\ HalfOK(g) /\ conn[g] \in ConnRec
      BY <1>1, <1>3, <1>7 DEF TInv, Halves
    <2>2. ForOwner(g, conn[g].lsn)' 
      BY <2>1, <1>14 DEF HalfOK
    <2> QED
      BY <2>1, <2>2, <1>6 DEF HalfOK, ConnRec
  <1>17. AllHeld'
    <2>1. ASSUME NEW g \in Handles PROVE ConnHeld(g)'
      <3>1. CASE g = h
        <4>1. conn'[g].st = "open" /\ conn'[g].lsn = L /\ lsn'[L].q = q
          BY <3>1, <1>3, <1>5, <1>7
        <4>2. Len(q) \in 1..Len(q) /\ q[Len(q)] = g
          BY <3>1, <1>4
        <4> QED
          BY <4>1, <4>2, <1>2 DEF ConnHeld
      <3>2. CASE g # h
        <4>1. conn'[g] = conn[g] /\ ConnHeld(g) /\ conn[g] \in ConnRec
          BY <1>1, <1>7, <3>2 DEF TInv, AllHeld
        <4>2. ASSUME conn[g].st = "open", conn[g].lsn # None
              PROVE  \E k \in 1..Len(lsn'[conn[g].lsn].q) : lsn'[conn[g].lsn].q[k] = g
          <5>1. PICK k \in 1..Len(lsn[conn[g].lsn].q) : lsn[conn[g].lsn].q[k] = g
            BY <4>1, <4>2 DEF ConnHeld
          <5>2. conn[g].lsn \in Listeners
            BY <4>1, <4>2 DEF ConnRec
          <5>3. CASE conn[g].lsn = L
            BY <5>1, <5>3, <1>4, <1>5
          <5>4. CASE conn[g].lsn # L
            BY <5>1, <5>2, <5>4, <1>5
          <5> QED
            BY <5>3, <5>4
        <4> QED
          BY <4>1, <4>2, <1>1 DEF ConnHeld
      <3> QED
        BY <3>1, <3>2
    <2>2. ASSUME NEW M \in Listeners PROVE LsnHeld(M)'
      BY <1>1, <1>6 DEF LsnHeld, TInv, AllHeld
    <2>3. ASSUME NEW u \in Udps PROVE UdpHeld(u)'
      BY <1>1 DEF UdpHeld, TInv, AllHeld
    <2> QED
      BY <2>1, <2>2, <2>3 DEF AllHeld
  <1>18. Reasons'
    BY <1>1, <1>3, <1>7 DEF Reasons, TInv
  <1>19. Room'
    <2> SUFFICES ASSUME NEW M \in Listeners PROVE (Len(lsn[M].q) + Cardinality(Half(M)) <= Backlog)'
      BY DEF Room
    <2>2. Len(lsn[M].q) \in Nat /\ Len(lsn[M].q) + Cardinality(Half(M)) <= Backlog
      BY DEF TInv, Tables, LsnRec, Room
    <2>3. CASE M = L
      <3>1. Half(M)' = Half(M) \ {h} /\ h \in Half(M)
        BY <1>1, <1>3, <1>7, <1>a, <2>3 DEF Half
      <3>2. Cardinality(Half(M)') = Cardinality(Half(M)) - 1
        BY <3>1, HalfFinite, FS_RemoveElement
      <3> QED
        BY <3>2, <2>2, <2>3, <1>4, <1>5, HalfFinite, SockAssumption
    <2>4. CASE M # L
      <3>1. Half(M)' \subseteq Half(M) /\ lsn'[M] = lsn[M]
        BY <1>3, <1>5, <1>7, <2>4 DEF Half
      <3> QED
        BY <2>2, <3>1, HalfShrinks, HalfFinite, SockAssumption
    <2> QED
      BY <2>3, <2>4
  <1> QED
    BY <1>11, <1>12, <1>13, <1>15, <1>16, <1>17, <1>18, <1>19 DEF TInv

\* The socket in slot i is new, or has got what was free; nobody else's changes.
Keeps(s, r) ==
    /\ r.owner = s.owner /\ r.type = s.type
    /\ s.h # None => r.h = s.h
    /\ s.u # None => r.u = s.u
    /\ s.state = "listen" => r.state = "listen" /\ r.lsn = s.lsn
Seat(i) ==
    /\ Tables' /\ SockOK(i)' /\ sk'[i].used
    /\ \A j \in Slots \ {i} : sk'[j] = sk[j]
    /\ sk[i].used => Keeps(sk[i], sk'[i])
    /\ \A h \in Handles : IF conn[h].st = "free"
         THEN /\ conn'[h].st \in {"free", "syn"} /\ conn'[h].err = "none"
              /\ conn'[h].st # "free" => sk'[i].h = h /\ conn'[h].lsn = None
         ELSE conn'[h] = conn[h]
    /\ \A L \in Listeners : IF ~lsn[L].used
         THEN /\ lsn'[L].q = <<>>
              /\ lsn'[L].used => sk'[i].state = "listen" /\ sk'[i].lsn = L
         ELSE lsn'[L] = lsn[L]
    /\ \A u \in Udps : IF ~usk[u].used THEN usk'[u].used => sk'[i].u = u ELSE usk'[u] = usk[u]
    /\ sk'[i].h # None => (sk[i].used /\ sk[i].h = sk'[i].h) \/ conn[sk'[i].h].st = "free"
    /\ sk'[i].u # None => (sk[i].used /\ sk[i].u = sk'[i].u) \/ ~usk[sk'[i].u].used
    /\ sk'[i].state = "listen" =>
         (sk[i].used /\ sk[i].state = "listen" /\ sk[i].lsn = sk'[i].lsn) \/ ~lsn[sk'[i].lsn].used

LEMMA SeatKeeps ==
    ASSUME TInv, NEW i \in Slots, Seat(i)
    PROVE  TInv'
  <1>1. Socks'
    <2> SUFFICES ASSUME NEW j \in Slots, sk'[j].used PROVE SockOK(j)'
      BY DEF Socks
    <2>1. CASE j = i
      BY <2>1 DEF Seat
    <2>2. CASE j # i
      <3>1. sk'[j] = sk[j] /\ SockOK(j) /\ sk[j] \in SockRec
        BY <2>2 DEF Seat, TInv, Socks, Tables
      <3>2. sk[j].h # None => conn'[sk[j].h] = conn[sk[j].h]
        BY <3>1 DEF Seat, SockOK, SockRec
      <3>3. sk[j].u # None => usk'[sk[j].u] = usk[sk[j].u]
        BY <3>1 DEF Seat, SockOK, SockRec
      <3>4. sk[j].state = "listen" => lsn'[sk[j].lsn] = lsn[sk[j].lsn]
        BY <3>1 DEF Seat, SockOK, SockRec
      <3> QED
        BY <3>1, <3>2, <3>3, <3>4 DEF SockOK
    <2> QED
      BY <2>1, <2>2
  <1>2. ASSUME NEW j \in Slots, j # i, sk'[j].used
        PROVE  /\ sk'[i].h # None => sk'[i].h # sk'[j].h
               /\ sk'[i].u # None => sk'[i].u # sk'[j].u
               /\ sk'[i].state = "listen" /\ sk'[j].state = "listen" => sk'[i].lsn # sk'[j].lsn
    <2>1. sk'[j] = sk[j] /\ SockOK(j) /\ sk[j].used
      BY <1>2 DEF Seat, TInv, Socks
    <2>2. sk[i].used => /\ sk[i].h # None => sk[i].h # sk[j].h
                        /\ sk[i].u # None => sk[i].u # sk[j].u
                        /\ sk[i].state = "listen" /\ sk[j].state = "listen" => sk[i].lsn # sk[j].lsn
      BY <1>2, <2>1 DEF TInv, Apart
    <2> QED
      BY <2>1, <2>2 DEF Seat, SockOK
  <1>3. Apart'
    <2> SUFFICES ASSUME NEW k \in Slots, NEW j \in Slots, sk'[k].used, sk'[j].used, k # j
                 PROVE  /\ sk'[k].h # None => sk'[k].h # sk'[j].h
                        /\ sk'[k].u # None => sk'[k].u # sk'[j].u
                        /\ sk'[k].state = "listen" /\ sk'[j].state = "listen" => sk'[k].lsn # sk'[j].lsn
      BY DEF Apart
    <2>1. CASE k = i
      BY <2>1, <1>2
    <2>2. CASE j = i
      BY <2>2, <1>2
    <2>3. CASE k # i /\ j # i
      BY <2>3 DEF Seat, TInv, Apart
    <2> QED
      BY <2>1, <2>2, <2>3
  <1>4. ASSUME NEW h \in Handles, NEW L \in Listeners, lsn[L].used, conn'[h] = conn[h], ForOwner(h, L)
        PROVE  ForOwner(h, L)'
    <2> SUFFICES ASSUME NEW j \in Slots, sk'[j].used, sk'[j].state = "listen", sk'[j].lsn = L
                 PROVE  conn'[h].by \subseteq {sk'[j].owner}
      BY DEF ForOwner
    <2>1. sk[j].used /\ sk[j].state = "listen" /\ sk[j].lsn = L /\ sk[j].owner = sk'[j].owner
      BY <1>4 DEF Seat, Keeps
    <2> QED
      BY <2>1, <1>4 DEF ForOwner
  <1>5. Queues'
    <2> SUFFICES ASSUME NEW L \in Listeners PROVE QueueOK(L)'
      BY DEF Queues
    <2>1. CASE ~lsn[L].used
      <3>1. lsn'[L].q = <<>>
        BY <2>1 DEF Seat
      <3> QED
        BY <3>1 DEF QueueOK
    <2>2. CASE lsn[L].used
      <3>1. QueueOK(L) /\ lsn[L].q \in Seq(Handles) /\ lsn'[L] = lsn[L]
        BY <2>2 DEF Seat, TInv, Queues, Tables, LsnRec
      <3>2. ASSUME NEW k \in 1..Len(lsn[L].q)
            PROVE  lsn[L].q[k] \in Handles /\ conn'[lsn[L].q[k]] = conn[lsn[L].q[k]]
        BY <3>1 DEF Seat, QueueOK
      <3>3. ASSUME NEW k \in 1..Len(lsn[L].q)
            PROVE  ForOwner(lsn[L].q[k], L)'
        <4>1. PICK g : g = lsn[L].q[k]
          OBVIOUS
        <4>2. g' = lsn'[L].q[k]
          BY <4>1, <3>1
        <4> QED
          BY <2>2, <3>1, <3>2, <4>1, <4>2, <1>4 DEF QueueOK
      <3> QED
        BY <3>1, <3>2, <3>3 DEF QueueOK
    <2> QED
      BY <2>1, <2>2
  <1>6. Halves'
    <2> SUFFICES ASSUME NEW h \in Handles, conn'[h].st = "half" PROVE HalfOK(h)'
      BY DEF Halves, HalfOK
    <2>1. conn'[h] = conn[h] /\ HalfOK(h) /\ conn[h] \in ConnRec
      BY DEF Seat, TInv, Halves, Tables
    <2>2. PICK L : L = conn[h].lsn
      OBVIOUS
    <2>3. L \in Listeners /\ lsn[L].used /\ ForOwner(h, L) /\ lsn'[L] = lsn[L] /\ L # None
      BY <2>1, <2>2 DEF HalfOK, ConnRec, Seat
    <2>4. ForOwner(h, L)'
      BY <2>1, <2>3, <1>4
    <2> QED
      BY <2>1, <2>2, <2>3, <2>4 DEF HalfOK
  <1>7. AllHeld'
    <2>1. ASSUME NEW h \in Handles PROVE ConnHeld(h)'
      <3>1. CASE conn[h].st = "free"
        BY <3>1 DEF Seat, ConnHeld
      <3>2. CASE conn[h].st # "free"
        <4>1. conn'[h] = conn[h] /\ ConnHeld(h) /\ conn[h] \in ConnRec
          BY <3>2 DEF Seat, TInv, AllHeld, Tables
        <4>2. ASSUME NEW j \in Slots, sk[j].used, sk[j].h = h PROVE sk'[j].used /\ sk'[j].h = h
          <5>1. h # None
            BY SockAssumption DEF None
          <5> QED
            BY <4>2, <5>1 DEF Seat, Keeps
        <4>3. ASSUME conn[h].st = "open", conn[h].lsn # None
              PROVE  lsn'[conn[h].lsn] = lsn[conn[h].lsn]
          <5>1. conn[h].lsn \in Listeners
            BY <4>1, <4>3 DEF ConnRec
          <5>2. lsn[conn[h].lsn].q # <<>>
            BY <4>1, <4>3 DEF ConnHeld
          <5>3. lsn[conn[h].lsn].used
            BY <5>1, <5>2 DEF TInv, Queues, QueueOK
          <5> QED
            BY <5>1, <5>3 DEF Seat
        <4> QED
          BY <4>1, <4>2, <4>3 DEF ConnHeld
      <3> QED
        BY <3>1, <3>2
    <2>2. ASSUME NEW L \in Listeners PROVE LsnHeld(L)'
      BY DEF TInv, AllHeld, Seat, Keeps, LsnHeld
    <2>3. ASSUME NEW u \in Udps PROVE UdpHeld(u)'
      <3>1. u # None
        BY SockAssumption DEF None
      <3> QED
        BY <3>1 DEF TInv, AllHeld, Seat, Keeps, UdpHeld
    <2> QED
      BY <2>1, <2>2, <2>3 DEF AllHeld
  <1>8. Reasons'
    BY DEF Seat, Reasons, TInv
  <1>9. Room'
    <2> SUFFICES ASSUME NEW L \in Listeners PROVE (Len(lsn[L].q) + Cardinality(Half(L)) <= Backlog)'
      BY DEF Room
    <2>1. Half(L)' = Half(L)
      BY DEF Half, Seat
    <2>2. lsn'[L].q = lsn[L].q
      BY DEF Seat, TInv, Queues, QueueOK
    <2> QED
      BY <2>1, <2>2 DEF Room, TInv
  <1> QED
    BY <1>1, <1>3, <1>5, <1>6, <1>7, <1>8, <1>9 DEF TInv, Seat

LEMMA OpenSeats ==
    ASSUME TInv, NEW t \in Threads, NEW type \in {"stream", "dgram"}, Open(t, type)
    PROVE  /\ Lowest(FreeSlot) \in FreeSlot /\ Seat(Lowest(FreeSlot)) /\ TInv'
           /\ sk'[Lowest(FreeSlot)].owner = Main[t]
  <1>1. PICK i : i = Lowest(FreeSlot)
    OBVIOUS
  <1>2. PICK r : r = [[NoSock EXCEPT !.type = type, !.state = "new"] EXCEPT !.used = TRUE, !.owner = Main[t]]
    OBVIOUS
  <1>3. i \in FreeSlot
    BY <1>1, LowestIn, SockAssumption DEF Open, FreeSlot
  <1>4. i \in Slots /\ ~sk[i].used
    BY <1>3 DEF FreeSlot
  <1>5. sk' = [sk EXCEPT ![i] = r] /\ conn' = conn /\ lsn' = lsn /\ usk' = usk
    BY <1>1, <1>2 DEF Open, Opened
  <1>6. r \in SockRec /\ r.used /\ r.owner = Main[t] /\ r.type = type /\ r.state = "new" /\ r.h = None
        /\ r.u = None /\ r.lsn = None
    BY <1>2, MainFacts, NoSockIs DEF NoSock, SockRec, None
  <1>7. sk'[i] = r /\ \A j \in Slots \ {i} : sk'[j] = sk[j]
    BY <1>4, <1>5 DEF TInv, Tables
  <1>8. Tables'
    BY <1>4, <1>5, <1>6 DEF TInv, Tables
  <1>9. SockOK(i)'
    BY <1>6, <1>7, MainFacts DEF SockOK
  <1>10. \A h \in Handles : conn[h].st = "free" => conn[h].err = "none"
    BY DEF TInv, Reasons
  <1>11. \A L \in Listeners : ~lsn[L].used => lsn[L].q = <<>>
    BY DEF TInv, Queues, QueueOK
  <1>12. Seat(i)
    BY <1>4, <1>5, <1>6, <1>7, <1>8, <1>9, <1>10, <1>11 DEF Seat
  <1> QED
    BY <1>1, <1>3, <1>4, <1>6, <1>7, <1>12, SeatKeeps

LEMMA ListenSeats ==
    ASSUME TInv, NEW t \in Threads, NEW i \in Slots, Listen(t, i)
    PROVE  Seat(i) /\ TInv'
  <1>1. PICK M : M = Lowest({L \in Listeners : ~lsn[L].used})
    OBVIOUS
  <1>2. M \in {L \in Listeners : ~lsn[L].used}
    <2> DEFINE free == {L \in Listeners : ~lsn[L].used}
    <2>1. free # {}
      BY DEF Listen
    <2>2. free \subseteq Nat
      BY SockAssumption
    <2> QED
      BY <1>1, <2>1, <2>2, LowestIn
  <1>3. PICK l : l = [NoLsn EXCEPT !.used = TRUE, !.port = sk[i].port]
    OBVIOUS
  <1>4. PICK r : r = [sk[i] EXCEPT !.lsn = M, !.state = "listen"]
    OBVIOUS
  <1>5. sk[i] \in SockRec /\ sk[i].used /\ SockOK(i) /\ sk[i].type = "stream" /\ sk[i].state = "new"
    BY DEF TInv, Tables, Socks, Listen, Mine
  <1>6. sk' = [sk EXCEPT ![i] = r] /\ lsn' = [lsn EXCEPT ![M] = l] /\ conn' = conn /\ usk' = usk
    BY <1>1, <1>3, <1>4, <1>5 DEF Listen, TInv, Tables, SockRec
  <1>7. r \in SockRec /\ r.used /\ r.owner = sk[i].owner /\ r.type = "stream" /\ r.state = "listen" /\ r.h = sk[i].h
        /\ r.u = sk[i].u /\ r.lsn = M
    BY <1>2, <1>4, <1>5 DEF SockRec
  <1>8. l \in LsnRec /\ l.used /\ l.q = <<>>
    <2>1. l = [used |-> TRUE, port |-> sk[i].port, q |-> <<>>] /\ sk[i].port \in Nat
      BY <1>3, <1>5 DEF NoLsn, SockRec
    <2> QED
      BY <2>1 DEF LsnRec
  <1>9. sk'[i] = r /\ \A j \in Slots \ {i} : sk'[j] = sk[j]
    BY <1>6 DEF TInv, Tables
  <1>10. lsn'[M] = l /\ \A L \in Listeners \ {M} : lsn'[L] = lsn[L]
    BY <1>2, <1>6 DEF TInv, Tables
  <1>11. Tables'
    BY <1>2, <1>6, <1>7, <1>8 DEF TInv, Tables
  <1>12. M # None
    BY <1>2, SockAssumption DEF None
  <1>13. SockOK(i)'
    BY <1>5, <1>6, <1>7, <1>8, <1>9, <1>10, <1>12 DEF SockOK
  <1>14. \A h \in Handles : conn[h].st = "free" => conn[h].err = "none"
    BY DEF TInv, Reasons
  <1>15. \A L \in Listeners : ~lsn[L].used => lsn[L].q = <<>>
    BY DEF TInv, Queues, QueueOK
  <1>16. Keeps(sk[i], sk'[i])
    BY <1>5, <1>7, <1>9 DEF Keeps
  <1>17. Seat(i)
    BY <1>2, <1>5, <1>6, <1>7, <1>8, <1>9, <1>10, <1>11, <1>13, <1>14, <1>15, <1>16 DEF Seat
  <1> QED
    BY <1>17, SeatKeeps

\* A connect that begins: the connection is a free one.
LEMMA ConnectSeats ==
    ASSUME TInv, NEW i \in Slots, sk[i].used, sk[i].type = "stream", sk[i].state = "new", FreeHandles # {},
           conn' = [conn EXCEPT ![Lowest(FreeHandles)] = [NoConn EXCEPT !.st = "syn", !.by = {sk[i].owner}]],
           sk' = [sk EXCEPT ![i] = [sk[i] EXCEPT !.h = Lowest(FreeHandles), !.state = "connecting"]],
           lsn' = lsn, usk' = usk
    PROVE  Seat(i) /\ TInv'
  <1>1. PICK x : x = Lowest(FreeHandles)
    OBVIOUS
  <1>2. x \in FreeHandles
    <2>1. FreeHandles \subseteq Nat
      BY SockAssumption DEF FreeHandles
    <2> QED
      BY <1>1, <2>1, LowestIn
  <1>3. PICK c : c = [NoConn EXCEPT !.st = "syn", !.by = {sk[i].owner}]
    OBVIOUS
  <1>4. PICK r : r = [sk[i] EXCEPT !.h = x, !.state = "connecting"]
    OBVIOUS
  <1>5. sk[i] \in SockRec /\ SockOK(i) /\ sk[i].owner \in Programs
    BY DEF TInv, Tables, Socks, SockOK
  <1>6. sk' = [sk EXCEPT ![i] = r] /\ conn' = [conn EXCEPT ![x] = c]
    BY <1>1, <1>3, <1>4
  <1>7. x \in Handles /\ conn[x].st = "free" /\ x # None
    BY <1>2, SockAssumption DEF FreeHandles, None
  <1>8. r \in SockRec /\ r.used /\ r.owner = sk[i].owner /\ r.type = "stream" /\ r.state = "connecting" /\ r.h = x
        /\ r.u = sk[i].u /\ r.lsn = sk[i].lsn
    BY <1>4, <1>5, <1>7 DEF SockRec
  <1>9. c \in ConnRec /\ c.st = "syn" /\ c.lsn = None /\ c.err = "none" /\ c.by = {sk[i].owner}
    BY <1>3, <1>5, NoConnIs DEF ConnRec, NoConn
  <1>10. sk'[i] = r /\ \A j \in Slots \ {i} : sk'[j] = sk[j]
    BY <1>6 DEF TInv, Tables
  <1>11. conn'[x] = c /\ \A h \in Handles \ {x} : conn'[h] = conn[h]
    BY <1>6, <1>7 DEF TInv, Tables
  <1>12. Tables'
    BY <1>6, <1>7, <1>8, <1>9 DEF TInv, Tables
  <1>13. SockOK(i)'
    BY <1>5, <1>7, <1>8, <1>9, <1>10, <1>11 DEF SockOK
  <1>14. \A h \in Handles : conn[h].st = "free" => conn[h].err = "none"
    BY DEF TInv, Reasons
  <1>15. \A L \in Listeners : ~lsn[L].used => lsn[L].q = <<>>
    BY DEF TInv, Queues, QueueOK
  <1>16. Keeps(sk[i], sk'[i])
    BY <1>5, <1>8, <1>10 DEF Keeps, SockOK
  <1>17. Seat(i)
    <2>1. \A h \in Handles : IF conn[h].st = "free"
            THEN /\ conn'[h].st \in {"free", "syn"} /\ conn'[h].err = "none"
                 /\ conn'[h].st # "free" => sk'[i].h = h /\ conn'[h].lsn = None
            ELSE conn'[h] = conn[h]
      <3> SUFFICES ASSUME NEW h \in Handles
                   PROVE  IF conn[h].st = "free"
                     THEN /\ conn'[h].st \in {"free", "syn"} /\ conn'[h].err = "none"
                          /\ conn'[h].st # "free" => sk'[i].h = h /\ conn'[h].lsn = None
                     ELSE conn'[h] = conn[h]
        OBVIOUS
      <3>1. CASE h = x
        <4>1. conn'[h] = c /\ sk'[i].h = h /\ conn[h].st = "free"
          BY <3>1, <1>7, <1>8, <1>10, <1>11
        <4> QED
          BY <4>1, <1>9
      <3>2. CASE h # x
        <4>1. conn'[h] = conn[h]
          BY <3>2, <1>11
        <4> QED
          BY <4>1, <1>14
      <3> QED
        BY <3>1, <3>2
    <2>2. \A L \in Listeners : lsn'[L] = lsn[L]
      OBVIOUS
    <2>3. \A u \in Udps : usk'[u] = usk[u]
      OBVIOUS
    <2>4. sk'[i].used /\ sk'[i].h = x /\ sk'[i].u = sk[i].u /\ sk'[i].state = "connecting"
      BY <1>8, <1>10
    <2>5. \A u \in Udps : usk[u].used \in BOOLEAN
      BY DEF TInv, Tables, UdpRec
    <2>6. \A u \in Udps : IF ~usk[u].used THEN usk'[u].used => sk'[i].u = u ELSE usk'[u] = usk[u]
      BY <2>3
    <2>7. \A L \in Listeners : IF ~lsn[L].used
            THEN /\ lsn'[L].q = <<>>
                 /\ lsn'[L].used => sk'[i].state = "listen" /\ sk'[i].lsn = L
            ELSE lsn'[L] = lsn[L]
      BY <2>2, <1>15
    <2> QED
      BY <2>1, <2>4, <2>6, <2>7, <1>7, <1>10, <1>12, <1>13, <1>16 DEF Seat
  <1> QED
    BY <1>17, SeatKeeps

\* A port is found whatever is bound: there are more to try than can be taken.
LEMMA AnyPortIs ==
    ASSUME Tables
    PROVE  AnyPort \in Nat
  <1> DEFINE N == Cardinality(Udps) + Cardinality(Ports) + 1
             T == {usk[u].port : u \in Udps}
             f == [u \in Udps |-> usk[u].port]
             P == {p \in 1..N : p \notin Ports /\ \A u \in Udps : usk[u].used => usk[u].port # p}
  <1>1. Cardinality(Udps) \in Nat /\ Cardinality(Ports) \in Nat
    BY SockAssumption, FS_CardinalityType
  <1>2. f \in Surjection(Udps, T)
    BY DEF Surjection
  <1>3. IsFiniteSet(T) /\ Cardinality(T) <= Cardinality(Udps)
    BY <1>2, FS_Surjection, SockAssumption
  <1>4. IsFiniteSet(T \cup Ports) /\ Cardinality(T \cup Ports) <= Cardinality(T) + Cardinality(Ports)
    <2>1. IsFiniteSet(T \cap Ports)
      BY <1>3, FS_Subset
    <2>2. Cardinality(T \cap Ports) \in Nat /\ Cardinality(T) \in Nat /\ Cardinality(T \cup Ports) \in Nat
      BY <2>1, <1>3, SockAssumption, FS_CardinalityType, FS_Union
    <2>3. IsFiniteSet(T \cup Ports) /\ Cardinality(T \cup Ports) =
            Cardinality(T) + Cardinality(Ports) - Cardinality(T \cap Ports)
      BY <1>3, SockAssumption, FS_Union
    <2> HIDE DEF T
    <2> QED
      BY <2>2, <2>3, <1>1
  <1>5. P # {}
    <2> SUFFICES ASSUME P = {} PROVE FALSE
      OBVIOUS
    <2>1. 1..N \subseteq T \cup Ports
      BY <1>1
    <2>2. Cardinality(1..N) = N
      BY <1>1, FS_Interval
    <2>3. Cardinality(1..N) <= Cardinality(T \cup Ports)
      BY <2>1, <1>4, FS_Subset
    <2>4. Cardinality(T) \in Nat /\ Cardinality(T \cup Ports) \in Nat
      BY <1>3, <1>4, FS_CardinalityType
    <2> HIDE DEF T
    <2> QED
      BY <2>2, <2>3, <2>4, <1>1, <1>3, <1>4
  <1>6. P \subseteq Nat
    OBVIOUS
  <1>7. Lowest(P) \in P
    BY <1>5, <1>6, LowestIn
  <1> QED
    BY <1>7 DEF AnyPort

LEMMA BoundSeats ==
    ASSUME TInv, NEW i \in Slots, NEW port \in Ports \cup {0}, sk[i].used, sk[i].type = "dgram", sk[i].u = None,
           Bound(i, port), conn' = conn, lsn' = lsn
    PROVE  Seat(i) /\ TInv' /\ sk'[i].type = "dgram"
  <1>1. PICK x : x = UdpOpen(port)
    OBVIOUS
  <1>2. x \in Udps /\ ~usk[x].used /\ x # None
    <2> DEFINE free == {u \in Udps : ~usk[u].used}
    <2>1. free # {} /\ x = Lowest(free) /\ x # None
      BY <1>1 DEF Bound, UdpOpen
    <2>2. free \subseteq Nat
      BY SockAssumption
    <2>3. x \in free
      BY <2>1, <2>2, LowestIn
    <2> QED
      BY <2>1, <2>3
  <1>3. PICK p : p = IF port = 0 THEN AnyPort ELSE port
    OBVIOUS
  <1>4. p \in Nat
    BY <1>3, AnyPortIs, SockAssumption DEF TInv
  <1>5. PICK d : d = [used |-> TRUE, port |-> p, n |-> 0]
    OBVIOUS
  <1>6. d \in UdpRec /\ d.used
    BY <1>4, <1>5 DEF UdpRec
  <1>7. PICK r : r = [sk[i] EXCEPT !.u = x, !.port = p]
    OBVIOUS
  <1>8. sk[i] \in SockRec /\ SockOK(i)
    BY DEF TInv, Tables, Socks
  <1>9. sk' = [sk EXCEPT ![i] = r] /\ usk' = [usk EXCEPT ![x] = d]
    BY <1>1, <1>3, <1>5, <1>7, <1>8 DEF Bound, TInv, Tables, SockRec
  <1>10. r \in SockRec /\ r.used /\ r.owner = sk[i].owner /\ r.type = "dgram" /\ r.state = sk[i].state /\ r.h = sk[i].h
        /\ r.u = x /\ r.lsn = sk[i].lsn
    BY <1>2, <1>4, <1>7, <1>8 DEF SockRec
  <1>11. sk'[i] = r /\ \A j \in Slots \ {i} : sk'[j] = sk[j]
    BY <1>9 DEF TInv, Tables
  <1>12. usk'[x] = d /\ \A u \in Udps \ {x} : usk'[u] = usk[u]
    BY <1>2, <1>9 DEF TInv, Tables
  <1>13. Tables'
    BY <1>2, <1>6, <1>9, <1>10 DEF TInv, Tables
  <1>14. SockOK(i)'
    BY <1>2, <1>6, <1>8, <1>10, <1>11, <1>12 DEF SockOK
  <1>15. \A h \in Handles : conn[h].st = "free" => conn[h].err = "none"
    BY DEF TInv, Reasons
  <1>16. \A L \in Listeners : ~lsn[L].used => lsn[L].q = <<>>
    BY DEF TInv, Queues, QueueOK
  <1>17. Keeps(sk[i], sk'[i])
    BY <1>8, <1>10, <1>11 DEF Keeps, SockOK
  <1>18. Seat(i)
    <2>1. \A u \in Udps : IF ~usk[u].used THEN usk'[u].used => sk'[i].u = u ELSE usk'[u] = usk[u]
      BY <1>2, <1>10, <1>11, <1>12
    <2>2. sk'[i].used /\ sk'[i].h = sk[i].h /\ sk'[i].u = x /\ sk'[i].state = "new" /\ sk[i].h = None
      BY <1>8, <1>10, <1>11 DEF SockOK
    <2> QED
      BY <2>1, <2>2, <1>2, <1>11, <1>13, <1>14, <1>15, <1>16, <1>17 DEF Seat
  <1> QED
    BY <1>10, <1>11, <1>18, SeatKeeps

\* The oldest connection of a queue is taken off it, for a socket in slot n or
\* for nobody.
Dequeued(L, h, n) ==
    /\ Tables' /\ usk' = usk
    /\ lsn[L].q # <<>> /\ h = Head(lsn[L].q)
    /\ lsn'[L].used = lsn[L].used /\ lsn'[L].q = Tail(lsn[L].q)
    /\ \A M \in Listeners \ {L} : lsn'[M] = lsn[M]
    /\ \A g \in Handles \ {h} : conn'[g] = conn[g]
    /\ \A j \in Slots \ {n} : sk'[j] = sk[j]
    /\ n \in Slots => /\ ~sk[n].used /\ sk'[n].used /\ SockOK(n)'
                      /\ sk'[n].h = h /\ sk'[n].u = None /\ sk'[n].state = "connected"
    /\ IF n \in Slots THEN /\ conn'[h].st = conn[h].st /\ conn'[h].lsn = None /\ conn'[h].by = conn[h].by
                           /\ conn'[h].err = conn[h].err /\ conn'[h].eof = conn[h].eof
                      ELSE conn'[h] = NoConn

\* A listener's queue holds open connections of its own, each once.
LEMMA QueueHead ==
    ASSUME TInv, NEW L \in Listeners, NEW h, lsn[L].q # <<>>, h = Head(lsn[L].q)
    PROVE  /\ h \in Handles /\ conn[h].st \in {"open", "dead"} /\ conn[h].lsn = L /\ L # None
           /\ ForOwner(h, L) /\ lsn[L].used /\ h = lsn[L].q[1]
           /\ Len(lsn[L].q) \in Nat \ {0} /\ lsn[L].q \in Seq(Handles)
           /\ Tail(lsn[L].q) \in Seq(Handles) /\ Len(Tail(lsn[L].q)) = Len(lsn[L].q) - 1
           /\ \A k \in 1..Len(Tail(lsn[L].q)) :
                 Tail(lsn[L].q)[k] = lsn[L].q[k + 1] /\ k + 1 \in 1..Len(lsn[L].q) /\ Tail(lsn[L].q)[k] # h
  <1>1. lsn[L].q \in Seq(Handles) /\ QueueOK(L)
    BY DEF TInv, Tables, LsnRec, Queues
  <1>2. Len(lsn[L].q) \in Nat \ {0} /\ h = lsn[L].q[1] /\ 1 \in 1..Len(lsn[L].q)
    BY <1>1
  <1>3. h \in Handles /\ conn[h].st \in {"open", "dead"} /\ conn[h].lsn = L /\ ForOwner(h, L) /\ lsn[L].used
    BY <1>1, <1>2 DEF QueueOK
  <1>4. Tail(lsn[L].q) \in Seq(Handles) /\ Len(Tail(lsn[L].q)) = Len(lsn[L].q) - 1
        /\ \A k \in 1..Len(Tail(lsn[L].q)) : Tail(lsn[L].q)[k] = lsn[L].q[k + 1]
    BY <1>1
  <1>5. \A k \in 1..Len(Tail(lsn[L].q)) : k + 1 \in 1..Len(lsn[L].q) /\ k + 1 # 1
    BY <1>2, <1>4
  <1>6. \A k \in 1..Len(Tail(lsn[L].q)) : Tail(lsn[L].q)[k] # h
    BY <1>1, <1>2, <1>4, <1>5 DEF QueueOK
  <1> QED
    BY <1>1, <1>2, <1>3, <1>4, <1>5, <1>6, SockAssumption DEF None

LEMMA DequeuedKeeps ==
    ASSUME TInv, NEW L \in Listeners, NEW h, NEW n, Dequeued(L, h, n)
    PROVE  TInv'
  <1> USE DEF Dequeued
  <1>1. /\ h \in Handles /\ conn[h].st \in {"open", "dead"} /\ conn[h].lsn = L /\ L # None
        /\ ForOwner(h, L) /\ lsn[L].used /\ h = lsn[L].q[1]
        /\ Len(lsn[L].q) \in Nat \ {0} /\ lsn[L].q \in Seq(Handles)
    BY QueueHead
  <1>2. PICK q : q = Tail(lsn[L].q)
    OBVIOUS
  <1>3. /\ q \in Seq(Handles) /\ Len(q) = Len(lsn[L].q) - 1 /\ lsn'[L].q = q
        /\ \A k \in 1..Len(q) : q[k] = lsn[L].q[k + 1] /\ k + 1 \in 1..Len(lsn[L].q) /\ q[k] # h
    BY <1>2, QueueHead
  <1>4. h # None
    BY <1>1, SockAssumption DEF None
  <1>5. ASSUME NEW j \in Slots, sk[j].used PROVE j # n /\ sk'[j] = sk[j] /\ sk[j].h # h
    BY <1>1, <1>4, <1>5 DEF TInv, Socks, SockOK
  <1>6. \A M \in Listeners : lsn'[M].used = lsn[M].used
    OBVIOUS
  <1>7. conn'[h].st \in {"free", "open", "dead"}
    BY <1>1 DEF NoConn
  <1>11. Socks'
    <2> SUFFICES ASSUME NEW j \in Slots, sk'[j].used PROVE SockOK(j)'
      BY DEF Socks
    <2>1. CASE j = n
      BY <2>1
    <2>2. CASE j # n
      <3>1. sk'[j] = sk[j] /\ SockOK(j) /\ sk[j] \in SockRec /\ sk[j].used
        BY <2>2 DEF TInv, Socks, Tables
      <3>2. sk[j].h # None => conn'[sk[j].h] = conn[sk[j].h]
        BY <3>1, <1>5 DEF SockRec
      <3>3. sk[j].state = "listen" => lsn'[sk[j].lsn].used = lsn[sk[j].lsn].used
        BY <3>1, <1>6 DEF SockOK, SockRec
      <3> QED
        BY <3>1, <3>2, <3>3 DEF SockOK
    <2> QED
      BY <2>1, <2>2
  <1>12. Apart'
    <2> SUFFICES ASSUME NEW k \in Slots, NEW j \in Slots, sk'[k].used, sk'[j].used, k # j
                 PROVE  /\ sk'[k].h # None => sk'[k].h # sk'[j].h
                        /\ sk'[k].u # None => sk'[k].u # sk'[j].u
                        /\ sk'[k].state = "listen" /\ sk'[j].state = "listen" => sk'[k].lsn # sk'[j].lsn
      BY DEF Apart
    <2>1. CASE k = n
      BY <2>1, <1>5
    <2>2. CASE j = n
      BY <2>2, <1>5
    <2>3. CASE k # n /\ j # n
      BY <2>3 DEF TInv, Apart
    <2> QED
      BY <2>1, <2>2, <2>3
  <1>13. ASSUME NEW g \in Handles, g # h, NEW M, ForOwner(g, M) PROVE ForOwner(g, M)'
    <2> SUFFICES ASSUME NEW j \in Slots, sk'[j].used, sk'[j].state = "listen", sk'[j].lsn = M
                 PROVE  conn'[g].by \subseteq {sk'[j].owner}
      BY DEF ForOwner
    <2>1. sk'[j] = sk[j] /\ conn'[g] = conn[g]
      BY <1>13
    <2> QED
      BY <2>1, <1>13 DEF ForOwner
  <1>14. Queues'
    <2> SUFFICES ASSUME NEW M \in Listeners PROVE QueueOK(M)'
      BY DEF Queues
    <2>1. QueueOK(M) /\ lsn[M].q \in Seq(Handles)
      BY DEF TInv, Queues, Tables, LsnRec
    <2>2. PICK p : p = lsn'[M].q
      OBVIOUS
    <2>3. p \in Seq(Handles) /\ Len(p) \in Nat
      BY <2>2 DEF Tables, LsnRec
    <2>4. ASSUME NEW k \in 1..Len(p)
          PROVE  \E m \in 1..Len(lsn[M].q) : p[k] = lsn[M].q[m] /\ p[k] # h /\ p[k] \in Handles
      <3>1. CASE M = L
        <4>1. p = q
          BY <3>1, <1>3, <2>2
        <4>2. k + 1 \in 1..Len(lsn[M].q) /\ p[k] = lsn[M].q[k + 1] /\ p[k] # h
          BY <3>1, <4>1, <1>3
        <4>3. p[k] \in Handles
          BY <2>3
        <4> QED
          BY <4>2, <4>3
      <3>2. CASE M # L
        <4>1. p = lsn[M].q
          BY <2>2, <3>2
        <4>2. p[k] \in Handles /\ conn[p[k]].lsn = M
          BY <4>1, <2>1, <2>3 DEF QueueOK
        <4> QED
          BY <4>1, <4>2, <3>2, <1>1
      <3> QED
        BY <3>1, <3>2
    <2>5. ASSUME NEW k \in 1..Len(p)
          PROVE  /\ conn'[p[k]].st \in {"open", "dead"} /\ conn'[p[k]].lsn = M /\ ForOwner(p[k], M)'
      <3>1. PICK m \in 1..Len(lsn[M].q) : p[k] = lsn[M].q[m] /\ p[k] # h /\ p[k] \in Handles
        BY <2>4
      <3>2. conn[p[k]].st \in {"open", "dead"} /\ conn[p[k]].lsn = M /\ ForOwner(p[k], M)
        BY <3>1, <2>1 DEF QueueOK
      <3>3. conn'[p[k]] = conn[p[k]]
        BY <3>1
      <3> QED
        BY <3>1, <3>2, <3>3, <1>13
    <2>6. ASSUME NEW k \in 1..Len(p), NEW m \in 1..Len(p), k # m PROVE p[k] # p[m]
      <3>1. CASE M = L
        <4>1. k + 1 \in 1..Len(lsn[L].q) /\ m + 1 \in 1..Len(lsn[L].q) /\ k + 1 # m + 1
              /\ p[k] = lsn[L].q[k + 1] /\ p[m] = lsn[L].q[m + 1]
          BY <3>1, <2>6, <1>3, <2>2
        <4> QED
          BY <4>1, <3>1, <2>1 DEF QueueOK
      <3>2. CASE M # L
        BY <3>2, <2>1, <2>2, <2>6 DEF QueueOK
      <3> QED
        BY <3>1, <3>2
    <2>7. ~lsn'[M].used => p = <<>>
      <3>1. CASE M = L
        BY <3>1, <1>1, <1>6
      <3>2. CASE M # L
        BY <3>2, <2>1, <2>2 DEF QueueOK
      <3> QED
        BY <3>1, <3>2
    <2> QED
      BY <2>2, <2>5, <2>6, <2>7 DEF QueueOK
  <1>15. Halves'
    <2> SUFFICES ASSUME NEW g \in Handles, conn'[g].st = "half" PROVE HalfOK(g)'
      BY DEF Halves, HalfOK
    <2>1. g # h /\ conn'[g] = conn[g] /\ HalfOK(g) /\ conn[g] \in ConnRec
      BY <1>7 DEF TInv, Halves, Tables
    <2>2. PICK M : M = conn[g].lsn
      OBVIOUS
    <2>3. ForOwner(g, M)'
      BY <2>1, <2>2, <1>13 DEF HalfOK
    <2> QED
      BY <2>1, <2>2, <2>3, <1>6 DEF HalfOK, ConnRec
  <1>16. AllHeld'
    <2>1. ASSUME NEW g \in Handles PROVE ConnHeld(g)'
      <3>1. CASE g = h
        <4>1. CASE n \in Slots
          BY <3>1, <4>1, <1>1 DEF ConnHeld
        <4>2. CASE n \notin Slots
          <5>1. conn'[g].st = "free"
            BY <3>1, <4>2 DEF NoConn
          <5> QED
            BY <5>1 DEF ConnHeld
        <4> QED
          BY <4>1, <4>2
      <3>2. CASE g # h
        <4>1. conn'[g] = conn[g] /\ ConnHeld(g) /\ conn[g] \in ConnRec
          BY <3>2 DEF TInv, AllHeld, Tables
        <4>2. ASSUME conn[g].st = "open", conn[g].lsn # None
              PROVE  \E k \in 1..Len(lsn'[conn[g].lsn].q) : lsn'[conn[g].lsn].q[k] = g
          <5>1. PICK k \in 1..Len(lsn[conn[g].lsn].q) : lsn[conn[g].lsn].q[k] = g
            BY <4>1, <4>2 DEF ConnHeld
          <5>2. conn[g].lsn \in Listeners
            BY <4>1, <4>2 DEF ConnRec
          <5>3. CASE conn[g].lsn = L
            <6>1. k # 1 /\ lsn[L].q[k] = g /\ k \in 1..Len(lsn[L].q)
              BY <5>1, <5>3, <3>2, <1>1
            <6>2. PICK m : m = k - 1
              OBVIOUS
            <6>3. m \in 1..Len(q) /\ m + 1 = k
              BY <6>1, <6>2, <1>1, <1>3
            <6>4. q[m] = g
              BY <6>1, <6>3, <1>3
            <6> QED
              BY <6>3, <6>4, <5>3, <1>3
          <5>4. CASE conn[g].lsn # L
            BY <5>1, <5>2, <5>4
          <5> QED
            BY <5>3, <5>4
        <4>3. ASSUME NEW j \in Slots, sk[j].used, sk[j].h = g PROVE sk'[j].used /\ sk'[j].h = g
          BY <4>3, <1>5
        <4> QED
          BY <4>1, <4>2, <4>3 DEF ConnHeld
      <3> QED
        BY <3>1, <3>2
    <2>2. ASSUME NEW M \in Listeners PROVE LsnHeld(M)'
      BY <1>5, <1>6 DEF LsnHeld, TInv, AllHeld
    <2>3. ASSUME NEW u \in Udps PROVE UdpHeld(u)'
      BY <1>5 DEF UdpHeld, TInv, AllHeld
    <2> QED
      BY <2>1, <2>2, <2>3 DEF AllHeld
  <1>17. Reasons'
    <2>1. conn'[h].err # "none" => conn'[h].st = "dead"
      BY <1>1 DEF Reasons, TInv, NoConn
    <2>2. conn'[h].st = "dead" => conn'[h].eof
      BY <1>1 DEF Reasons, TInv, NoConn
    <2> QED
      BY <2>1, <2>2 DEF Reasons, TInv
  <1>18. Room'
    <2> SUFFICES ASSUME NEW M \in Listeners PROVE (Len(lsn[M].q) + Cardinality(Half(M)) <= Backlog)'
      BY DEF Room
    <2>1. Half(M)' \subseteq Half(M)
      BY <1>7 DEF Half
    <2>2. Len(lsn[M].q) \in Nat /\ Len(lsn[M].q) + Cardinality(Half(M)) <= Backlog
      BY DEF TInv, Tables, LsnRec, Room
    <2>3. Len(lsn'[M].q) \in Nat /\ Len(lsn'[M].q) <= Len(lsn[M].q)
      <3>1. CASE M = L
        BY <3>1, <1>1, <1>3
      <3>2. CASE M # L
        BY <3>2, <2>2
      <3> QED
        BY <3>1, <3>2
    <2>4. /\ Cardinality(Half(M)') <= Cardinality(Half(M)) /\ Cardinality(Half(M)') \in Nat
          /\ Cardinality(Half(M)) \in Nat
      BY <2>1, HalfShrinks, HalfFinite
    <2> QED
      BY <2>2, <2>3, <2>4, RoomLeft, SockAssumption
  <1> QED
    BY <1>11, <1>12, <1>14, <1>15, <1>16, <1>17, <1>18 DEF TInv

\* An accept that finds a connection gives it to a new socket of the listener's
\* program, and it was for that program; or throws it away.
LEMMA AcceptDequeues ==
    ASSUME TInv, NEW t \in Threads, NEW i \in Slots, sk[i].used, sk[i].state = "listen", sk[i].owner = Main[t],
           AcceptNow(t, i), lsn[sk[i].lsn].q # <<>>
    PROVE  /\ TInv'
           /\ \/ sk' = sk /\ Returns(t)
              \/ /\ FreeSlot # {} /\ Lowest(FreeSlot) \in FreeSlot /\ sk'[Lowest(FreeSlot)].owner = Main[t]
                 /\ \A j \in Slots \ {Lowest(FreeSlot)} : sk'[j] = sk[j]
                 /\ \E who : who \subseteq {Main[t]} /\ From(t, who)
  <1>1. PICK L : L = sk[i].lsn
    OBVIOUS
  <1>2. L \in Listeners /\ L # None /\ lsn[L].q # <<>>
    BY <1>1 DEF TInv, Socks, SockOK, Tables, SockRec
  <1>3. PICK h : h = Head(lsn[L].q)
    OBVIOUS
  <1>4. /\ h \in Handles /\ conn[h].st \in {"open", "dead"} /\ conn[h].lsn = L
        /\ ForOwner(h, L) /\ Tail(lsn[L].q) \in Seq(Handles)
    BY <1>2, <1>3, QueueHead
  <1>5. /\ lsn' = [lsn EXCEPT ![L].q = Tail(lsn[L].q)] /\ usk' = usk
        /\ IF FreeSlot = {} THEN conn' = [conn EXCEPT ![h] = NoConn] /\ Returns(t) /\ sk' = sk
           ELSE /\ conn' = [conn EXCEPT ![h].lsn = None]
                /\ sk' = Opened(t, [NoSock EXCEPT !.h = h, !.state = "connected"])
                /\ From(t, conn[h].by)
    BY <1>1, <1>2, <1>3 DEF AcceptNow
  <1>6. lsn \in [Listeners -> LsnRec] /\ conn \in [Handles -> ConnRec] /\ sk \in [Slots -> SockRec]
        /\ usk \in [Udps -> UdpRec]
    BY DEF TInv, Tables
  <1>7. lsn' \in [Listeners -> LsnRec] /\ lsn'[L].used = lsn[L].used /\ lsn'[L].q = Tail(lsn[L].q)
        /\ \A M \in Listeners \ {L} : lsn'[M] = lsn[M]
    <2>1. PICK q \in Seq(Handles) : q = Tail(lsn[L].q)
      BY <1>4
    <2>2. PICK l : l = [lsn[L] EXCEPT !.q = q]
      OBVIOUS
    <2>3. lsn' = [lsn EXCEPT ![L] = l]
      BY <1>5, <2>1, <2>2
    <2>4. l \in LsnRec /\ l.used = lsn[L].used /\ l.q = q
      BY <1>2, <1>6, <2>2 DEF LsnRec
    <2> QED
      BY <1>2, <1>6, <2>1, <2>3, <2>4
  <1>8. conn[h].by \subseteq {Main[t]}
    BY <1>1, <1>4 DEF ForOwner
  <1>9. CASE FreeSlot = {}
    <2>1. conn' = [conn EXCEPT ![h] = NoConn] /\ Returns(t) /\ sk' = sk
      BY <1>5, <1>9
    <2>2. Tables'
      BY <2>1, <1>5, <1>6, <1>7, NoConnIs DEF Tables
    <2>3. conn'[h] = NoConn /\ \A g \in Handles \ {h} : conn'[g] = conn[g]
      BY <2>1, <1>4, <1>6
    <2>4. None \notin Slots
      BY SockAssumption DEF None
    <2>5. Dequeued(L, h, None)
      BY <2>1, <2>2, <2>3, <2>4, <1>2, <1>3, <1>5, <1>7 DEF Dequeued
    <2> QED
      BY <2>1, <2>5, <1>2, DequeuedKeeps
  <1>10. CASE FreeSlot # {}
    <2>1. PICK n : n = Lowest(FreeSlot)
      OBVIOUS
    <2>2. n \in FreeSlot
      <3>1. FreeSlot \subseteq Nat
        BY SockAssumption DEF FreeSlot
      <3> QED
        BY <3>1, <1>10, <2>1, LowestIn
    <2>3. n \in Slots /\ ~sk[n].used
      BY <2>2 DEF FreeSlot
    <2>4. PICK r : r = [[NoSock EXCEPT !.h = h, !.state = "connected"] EXCEPT !.used = TRUE, !.owner = Main[t]]
      OBVIOUS
    <2>5. PICK c : c = [conn[h] EXCEPT !.lsn = None]
      OBVIOUS
    <2>6. sk' = [sk EXCEPT ![n] = r] /\ conn' = [conn EXCEPT ![h] = c] /\ From(t, conn[h].by)
      BY <1>5, <1>6, <1>10, <2>1, <2>4, <2>5 DEF Opened
    <2>7. h # None
      BY <1>4, SockAssumption DEF None
    <2>8. r \in SockRec /\ r.used /\ r.owner = Main[t] /\ r.type = "stream" /\ r.state = "connected" /\ r.h = h
          /\ r.u = None /\ r.lsn = None
      BY <2>4, <1>4, MainFacts, NoSockIs DEF NoSock, SockRec, None
    <2>9. c \in ConnRec /\ c.st = conn[h].st /\ c.lsn = None /\ c.by = conn[h].by /\ c.err = conn[h].err
          /\ c.eof = conn[h].eof
      BY <2>5, <1>4, <1>6 DEF ConnRec
    <2>10. sk'[n] = r /\ \A j \in Slots \ {n} : sk'[j] = sk[j]
      BY <2>3, <2>6, <1>6
    <2>11. conn'[h] = c /\ \A g \in Handles \ {h} : conn'[g] = conn[g]
      BY <2>6, <1>4, <1>6
    <2>12. Tables'
      BY <2>3, <2>6, <2>8, <2>9, <1>4, <1>5, <1>6, <1>7 DEF Tables
    <2>13. SockOK(n)'
      BY <2>7, <2>8, <2>9, <2>10, <2>11, <1>4, <1>8, MainFacts DEF SockOK
    <2>14. Dequeued(L, h, n)
      BY <2>3, <2>8, <2>9, <2>10, <2>11, <2>12, <2>13, <1>2, <1>3, <1>5, <1>7 DEF Dequeued
    <2>15. sk'[n].owner = Main[t]
      BY <2>8, <2>10
    <2> QED
      BY <2>1, <2>2, <2>6, <2>10, <2>14, <2>15, <1>2, <1>8, <1>10, DequeuedKeeps
  <1> QED
    BY <1>9, <1>10

\* Sockets are closed, one or all of a program: what they have, and what waits to
\* be accepted on them, goes with them, and nothing else does.
LEMMA FreedKeeps ==
    ASSUME TInv, NEW S \in SUBSET Slots, \A i \in S : sk[i].used, Freed(S)
    PROVE  TInv' /\ \A i \in Slots : IF i \in S THEN ~sk'[i].used ELSE sk'[i] = sk[i]
  <1>1. PICK Ls : Ls = {sk[i].lsn : i \in {j \in {i \in S : sk[i].type = "stream"} : sk[j].state = "listen"}}
    OBVIOUS
  <1>2. PICK hs : hs = {sk[i].h : i \in {i \in S : sk[i].type = "stream"}} \ {None}
    OBVIOUS
  <1>3. PICK us : us = {sk[i].u : i \in S \ {i \in S : sk[i].type = "stream"}} \ {None}
    OBVIOUS
  <1>4. PICK ab : ab = UNION {Aborted(L) : L \in Ls}
    OBVIOUS
  <1>5. /\ conn' = [h \in Handles |-> IF h \in ab THEN NoConn
                                      ELSE IF h \in hs THEN Released(conn[h]) ELSE conn[h]]
        /\ lsn' = [L \in Listeners |-> IF L \in Ls THEN NoLsn ELSE lsn[L]]
        /\ usk' = [u \in Udps |-> IF u \in us THEN NoUdp ELSE usk[u]]
        /\ sk' = [i \in Slots |-> IF i \in S THEN [sk[i] EXCEPT !.used = FALSE, !.state = "free"] ELSE sk[i]]
    BY <1>1, <1>2, <1>3, <1>4 DEF Freed
  <1>6. Tables
    BY DEF TInv
  <1>7. \A i \in Slots : sk[i] \in SockRec /\ (sk[i].used => SockOK(i))
    BY <1>6 DEF TInv, Socks, Tables
  <1>8. \A i \in S : /\ sk[i].state = "listen" => sk[i].lsn \in Ls
                     /\ sk[i].h # None => sk[i].h \in hs
                     /\ sk[i].u # None => sk[i].u \in us
    <2> SUFFICES ASSUME NEW i \in S
                 PROVE  /\ sk[i].state = "listen" => sk[i].lsn \in Ls
                        /\ sk[i].h # None => sk[i].h \in hs
                        /\ sk[i].u # None => sk[i].u \in us
      OBVIOUS
    <2>1. sk[i] \in SockRec /\ SockOK(i) /\ sk[i].type \in {"stream", "dgram"}
      BY <1>7 DEF SockRec
    <2>2. sk[i].state = "listen" => sk[i].lsn \in Ls
      BY <2>1, <1>1 DEF SockOK
    <2>3. sk[i].h # None => sk[i].h \in hs
      BY <2>1, <1>2 DEF SockOK
    <2>4. sk[i].u # None => sk[i].u \in us
      BY <2>1, <1>3 DEF SockOK
    <2> QED
      BY <2>2, <2>3, <2>4
  <1>9. /\ \A L \in Ls : L \in Listeners /\ \E i \in S : sk[i].state = "listen" /\ sk[i].lsn = L
        /\ \A h \in hs : h \in Handles /\ h # None /\ \E i \in S : sk[i].h = h
        /\ \A u \in us : u \in Udps /\ u # None /\ \E i \in S : sk[i].u = u
    <2>1. \A L \in Ls : L \in Listeners /\ \E i \in S : sk[i].state = "listen" /\ sk[i].lsn = L
      BY <1>1, <1>7 DEF SockOK, SockRec
    <2>2. \A h \in hs : h \in Handles /\ h # None /\ \E i \in S : sk[i].h = h
      BY <1>2, <1>7 DEF SockRec
    <2>3. \A u \in us : u \in Udps /\ u # None /\ \E i \in S : sk[i].u = u
      BY <1>3, <1>7 DEF SockRec
    <2> QED
      BY <2>1, <2>2, <2>3
  <1>10. \A h \in ab : \E L \in Ls : h \in Aborted(L)
    BY <1>4
  <1>11. \A h \in hs : conn[h].st \in {"syn", "open", "dead"} /\ conn[h].lsn = None
    BY <1>7, <1>9 DEF SockOK
  <1>12. ASSUME NEW h \in ab PROVE h \in Handles /\ conn[h].lsn \in Ls /\ conn[h].lsn # None
    <2>1. PICK L \in Ls : h \in Aborted(L)
      BY <1>10
    <2>2. L \in Listeners /\ L # None /\ QueueOK(L) /\ lsn[L].q \in Seq(Handles)
      BY <1>6, <1>9, SockAssumption DEF TInv, Queues, Tables, LsnRec, None
    <2>3. CASE h \in Half(L)
      BY <2>2, <2>3 DEF Half
    <2>4. CASE h \in {lsn[L].q[k] : k \in 1..Len(lsn[L].q)}
      <3>1. PICK k \in 1..Len(lsn[L].q) : h = lsn[L].q[k]
        BY <2>4
      <3> QED
        BY <2>2, <3>1 DEF QueueOK
    <2> QED
      BY <2>1, <2>3, <2>4 DEF Aborted
  <1>13. ASSUME NEW h \in Handles, conn[h].lsn \in Ls,
                \/ conn[h].st = "half"
                \/ \E k \in 1..Len(lsn[conn[h].lsn].q) : lsn[conn[h].lsn].q[k] = h
         PROVE  h \in ab
    BY <1>4, <1>13 DEF Aborted, Half
  <1>14. \A h \in Handles : Released(conn[h]) \in ConnRec /\ Released(conn[h]).st \in {"orphan", "free"}
                            /\ (conn[h].err = "none" \/ conn[h].st # "open" => Released(conn[h]).err = "none")
    <2> SUFFICES ASSUME NEW h \in Handles
                 PROVE  Released(conn[h]) \in ConnRec /\ Released(conn[h]).st \in {"orphan", "free"}
                        /\ (conn[h].err = "none" \/ conn[h].st # "open" => Released(conn[h]).err = "none")
      OBVIOUS
    <2>1. conn[h] \in ConnRec
      BY <1>6 DEF Tables
    <2>2. CASE conn[h].st = "open"
      <3>1. PICK c \in ConnRec : c = conn[h]
        BY <2>1
      <3>2. PICK d : d = [c EXCEPT !.st = "orphan", !.fin = TRUE, !.rx = 0, !.by = {}]
        OBVIOUS
      <3>3. d = Released(conn[h])
        BY <2>2, <3>1, <3>2 DEF Released
      <3>4. d.st = "orphan" /\ d.err = c.err
        BY <3>2 DEF ConnRec
      <3>5. d \in ConnRec
        <4>1. 0 \in 0..1 /\ {} \in SUBSET Programs
          OBVIOUS
        <4>2. [[c EXCEPT !.st = "orphan", !.fin = TRUE] EXCEPT !.rx = 0] \in ConnRec
          BY <4>1 DEF ConnRec
        <4>3. d = [[[c EXCEPT !.st = "orphan", !.fin = TRUE] EXCEPT !.rx = 0] EXCEPT !.by = {}]
          BY <3>2
        <4> QED
          BY <4>1, <4>2, <4>3 DEF ConnRec
      <3> QED
        BY <2>2, <3>1, <3>3, <3>4, <3>5
    <2>3. CASE conn[h].st # "open"
      BY <2>3, NoConnIs DEF Released, NoConn
    <2> QED
      BY <2>2, <2>3
  <1>15. ASSUME NEW h \in Handles
         PROVE  /\ conn'[h].st \in {"free", "orphan"} \/ (h \notin ab /\ h \notin hs /\ conn'[h] = conn[h])
                /\ h \notin ab /\ h \notin hs => conn'[h] = conn[h]
                /\ conn'[h].err = "none" \/ conn'[h] = conn[h]
    <2>1. conn'[h] = IF h \in ab THEN NoConn ELSE IF h \in hs THEN Released(conn[h]) ELSE conn[h]
      BY <1>5
    <2>2. conn[h].err = "none" \/ conn[h].st # "open"
      BY DEF TInv, Reasons
    <2>3. Released(conn[h]).st \in {"orphan", "free"} /\ Released(conn[h]).err = "none"
      BY <2>2, <1>14
    <2>4. NoConn.st = "free" /\ NoConn.err = "none"
      BY DEF NoConn
    <2> QED
      BY <2>1, <2>3, <2>4
  <1>16. \A i \in Slots : IF i \in S THEN ~sk'[i].used ELSE sk'[i] = sk[i]
    <2>1. \A i \in S : sk'[i] = [sk[i] EXCEPT !.used = FALSE, !.state = "free"]
      BY <1>5
    <2>3. \A s \in SockRec : ~[s EXCEPT !.used = FALSE, !.state = "free"].used
      BY DEF SockRec
    <2>2. \A i \in S : ~sk'[i].used
      BY <2>1, <2>3, <1>7
    <2> QED
      BY <2>2, <1>5
  <1>17. ASSUME NEW i \in Slots, sk'[i].used
         PROVE  /\ i \notin S /\ sk[i].used /\ sk'[i] = sk[i] /\ SockOK(i) /\ sk[i] \in SockRec
                /\ sk[i].h # None => sk[i].h \in Handles /\ conn'[sk[i].h] = conn[sk[i].h]
                /\ sk[i].state = "listen" => sk[i].lsn \notin Ls /\ lsn'[sk[i].lsn] = lsn[sk[i].lsn]
                /\ sk[i].u # None => usk'[sk[i].u] = usk[sk[i].u]
    <2>1. i \notin S /\ sk[i].used /\ sk'[i] = sk[i] /\ SockOK(i) /\ sk[i] \in SockRec
      BY <1>7, <1>16, <1>17
    <2>2. sk[i].h # None => sk[i].h \in Handles /\ sk[i].h \notin hs /\ sk[i].h \notin ab
      BY <2>1, <1>9, <1>12 DEF TInv, Apart, SockOK, SockRec
    <2>3. sk[i].state = "listen" => sk[i].lsn \in Listeners /\ sk[i].lsn \notin Ls
      BY <2>1, <1>9 DEF TInv, Apart, SockOK, SockRec
    <2>4. sk[i].u # None => sk[i].u \in Udps /\ sk[i].u \notin us
      BY <2>1, <1>9 DEF TInv, Apart, SockRec
    <2> QED
      BY <2>1, <2>2, <2>3, <2>4, <1>5, <1>15
  <1>18. ASSUME NEW i \in Slots, sk[i].used, i \notin S PROVE sk'[i] = sk[i]
    BY <1>16, <1>18
  <1>21. Tables'
    <2>1. sk' \in [Slots -> SockRec]
      <3>1. \A i \in Slots : [sk[i] EXCEPT !.used = FALSE, !.state = "free"] \in SockRec
        <4> SUFFICES ASSUME NEW i \in Slots
                     PROVE  [sk[i] EXCEPT !.used = FALSE, !.state = "free"] \in SockRec
          OBVIOUS
        <4>1. PICK s \in SockRec : s = sk[i]
          BY <1>7
        <4>2. [s EXCEPT !.used = FALSE, !.state = "free"] \in SockRec
          BY DEF SockRec
        <4> QED
          BY <4>1, <4>2
      <3> QED
        BY <3>1, <1>5, <1>7
    <2>2. conn' \in [Handles -> ConnRec]
      BY <1>5, <1>6, <1>14, NoConnIs DEF Tables
    <2>3. lsn' \in [Listeners -> LsnRec]
      <3>1. NoLsn \in LsnRec
        BY DEF NoLsn, LsnRec
      <3> QED
        BY <3>1, <1>5, <1>6 DEF Tables
    <2>4. usk' \in [Udps -> UdpRec]
      <3>1. NoUdp \in UdpRec
        BY DEF NoUdp, UdpRec
      <3> QED
        BY <3>1, <1>5, <1>6 DEF Tables
    <2> QED
      BY <2>1, <2>2, <2>3, <2>4 DEF Tables
  <1>22. Socks'
    <2> SUFFICES ASSUME NEW i \in Slots, sk'[i].used PROVE SockOK(i)'
      BY DEF Socks
    <2> QED
      BY <1>17 DEF SockOK
  <1>23. Apart'
    <2> SUFFICES ASSUME NEW k \in Slots, NEW j \in Slots, sk'[k].used, sk'[j].used, k # j
                 PROVE  /\ sk'[k].h # None => sk'[k].h # sk'[j].h
                        /\ sk'[k].u # None => sk'[k].u # sk'[j].u
                        /\ sk'[k].state = "listen" /\ sk'[j].state = "listen" => sk'[k].lsn # sk'[j].lsn
      BY DEF Apart
    <2>1. sk'[k] = sk[k] /\ sk'[j] = sk[j]
      BY <1>17
    <2> QED
      BY <2>1 DEF TInv, Apart
  <1>24. ASSUME NEW g \in Handles, conn'[g] = conn[g], NEW M, ForOwner(g, M) PROVE ForOwner(g, M)'
    <2> SUFFICES ASSUME NEW j \in Slots, sk'[j].used, sk'[j].state = "listen", sk'[j].lsn = M
                 PROVE  conn'[g].by \subseteq {sk'[j].owner}
      BY DEF ForOwner
    <2>1. sk'[j] = sk[j]
      BY <1>17
    <2> QED
      BY <2>1, <1>24 DEF ForOwner
  <1>25. Queues'
    <2> SUFFICES ASSUME NEW M \in Listeners PROVE QueueOK(M)'
      BY DEF Queues
    <2>1. QueueOK(M) /\ lsn[M].q \in Seq(Handles) /\ M # None
      BY <1>6, SockAssumption DEF TInv, Queues, Tables, LsnRec, None
    <2>2. CASE M \in Ls
      <3>1. lsn'[M].q = <<>>
        BY <2>2, <1>5 DEF NoLsn
      <3> QED
        BY <3>1 DEF QueueOK
    <2>3. CASE M \notin Ls
      <3>1. lsn'[M] = lsn[M]
        BY <2>3, <1>5
      <3>2. PICK q : q = lsn[M].q
        OBVIOUS
      <3>3. ASSUME NEW k \in 1..Len(q)
            PROVE  q[k] \in Handles /\ conn'[q[k]] = conn[q[k]] /\ ForOwner(q[k], M)'
        <4>1. q[k] \in Handles /\ conn[q[k]].lsn = M /\ ForOwner(q[k], M)
          BY <3>2, <2>1 DEF QueueOK
        <4>2. q[k] \notin ab /\ q[k] \notin hs
          BY <4>1, <2>1, <2>3, <1>11, <1>12
        <4> QED
          BY <4>1, <4>2, <1>15, <1>24
      <3> QED
        BY <3>1, <3>2, <3>3, <2>1 DEF QueueOK
    <2> QED
      BY <2>2, <2>3
  <1>26. Halves'
    <2> SUFFICES ASSUME NEW g \in Handles, conn'[g].st = "half" PROVE HalfOK(g)'
      BY DEF Halves, HalfOK
    <2>1. g \notin ab /\ conn'[g] = conn[g] /\ HalfOK(g) /\ conn[g] \in ConnRec
      BY <1>6, <1>15 DEF TInv, Halves, Tables
    <2>2. PICK M : M = conn[g].lsn
      OBVIOUS
    <2>3. M \in Listeners /\ M # None /\ lsn[M].used /\ ForOwner(g, M) /\ M \notin Ls
      BY <2>1, <2>2, <1>13 DEF HalfOK, ConnRec
    <2>4. ForOwner(g, M)' /\ lsn'[M] = lsn[M]
      BY <2>1, <2>3, <1>5, <1>24
    <2> QED
      BY <2>1, <2>2, <2>3, <2>4 DEF HalfOK
  <1>27. AllHeld'
    <2>1. ASSUME NEW g \in Handles PROVE ConnHeld(g)'
      <3>1. CASE conn'[g].st \in {"free", "orphan"}
        BY <3>1 DEF ConnHeld
      <3>2. CASE g \notin ab /\ g \notin hs /\ conn'[g] = conn[g]
        <4>1. ConnHeld(g) /\ conn[g] \in ConnRec /\ g # None
          BY <1>6, SockAssumption DEF TInv, AllHeld, Tables, None
        <4>2. ASSUME NEW j \in Slots, sk[j].used, sk[j].h = g PROVE sk'[j].used /\ sk'[j].h = g
          BY <4>1, <4>2, <3>2, <1>8, <1>18
        <4>3. ASSUME conn[g].st = "open", conn[g].lsn # None
              PROVE  \E k \in 1..Len(lsn'[conn[g].lsn].q) : lsn'[conn[g].lsn].q[k] = g
          <5>1. PICK k \in 1..Len(lsn[conn[g].lsn].q) : lsn[conn[g].lsn].q[k] = g
            BY <4>1, <4>3 DEF ConnHeld
          <5>2. conn[g].lsn \in Listeners /\ conn[g].lsn \notin Ls
            BY <4>1, <4>3, <5>1, <3>2, <1>13 DEF ConnRec
          <5>3. lsn'[conn[g].lsn] = lsn[conn[g].lsn]
            BY <5>2, <1>5
          <5> QED
            BY <5>1, <5>3
        <4> QED
          BY <4>1, <4>2, <4>3, <3>2 DEF ConnHeld
      <3> QED
        BY <3>1, <3>2, <1>15
    <2>2. ASSUME NEW M \in Listeners PROVE LsnHeld(M)'
      <3> SUFFICES ASSUME lsn'[M].used
                   PROVE  \E i \in Slots : sk'[i].used /\ sk'[i].state = "listen" /\ sk'[i].lsn = M
        BY DEF LsnHeld
      <3>1. M \notin Ls /\ lsn[M].used
        BY <1>5 DEF NoLsn
      <3>2. PICK i \in Slots : sk[i].used /\ sk[i].state = "listen" /\ sk[i].lsn = M
        BY <3>1 DEF TInv, AllHeld, LsnHeld
      <3> QED
        BY <3>1, <3>2, <1>8, <1>18
    <2>3. ASSUME NEW u \in Udps PROVE UdpHeld(u)'
      <3> SUFFICES ASSUME usk'[u].used
                   PROVE  \E i \in Slots : sk'[i].used /\ sk'[i].u = u
        BY DEF UdpHeld
      <3>1. u \notin us /\ usk[u].used /\ u # None
        BY <1>5, SockAssumption DEF NoUdp, None
      <3>2. PICK i \in Slots : sk[i].used /\ sk[i].u = u
        BY <3>1 DEF TInv, AllHeld, UdpHeld
      <3> QED
        BY <3>1, <3>2, <1>8, <1>18
    <2> QED
      BY <2>1, <2>2, <2>3 DEF AllHeld
  <1>28. Reasons'
    <2> SUFFICES ASSUME NEW h \in Handles
                 PROVE  /\ conn'[h].err # "none" => conn'[h].st = "dead"
                        /\ conn'[h].st = "dead" => conn'[h].eof
      BY DEF Reasons
    <2> QED
      BY <1>15 DEF TInv, Reasons
  <1>29. Room'
    <2> SUFFICES ASSUME NEW M \in Listeners PROVE (Len(lsn[M].q) + Cardinality(Half(M)) <= Backlog)'
      BY DEF Room
    <2>1. Half(M)' \subseteq Half(M)
      BY <1>15 DEF Half
    <2>2. Len(lsn[M].q) \in Nat /\ Len(lsn[M].q) + Cardinality(Half(M)) <= Backlog
      BY DEF TInv, Tables, LsnRec, Room
    <2>3. Len(lsn'[M].q) \in Nat /\ Len(lsn'[M].q) <= Len(lsn[M].q)
      <3>1. CASE M \in Ls
        <4>1. lsn'[M].q = <<>>
          BY <3>1, <1>5 DEF NoLsn
        <4> QED
          BY <4>1, <2>2
      <3>2. CASE M \notin Ls
        <4>1. lsn'[M] = lsn[M]
          BY <3>2, <1>5
        <4> QED
          BY <4>1, <2>2
      <3> QED
        BY <3>1, <3>2
    <2>4. /\ Cardinality(Half(M)') <= Cardinality(Half(M)) /\ Cardinality(Half(M)') \in Nat
          /\ Cardinality(Half(M)) \in Nat
      BY <2>1, HalfShrinks, HalfFinite
    <2> QED
      BY <2>2, <2>3, <2>4, RoomLeft, SockAssumption
  <1> QED
    BY <1>16, <1>21, <1>22, <1>23, <1>25, <1>26, <1>27, <1>28, <1>29 DEF TInv

----------------------------------------------------------------------------
(* The threads.                                                            *)

\* A socket stays what a call that sleeps on it needs it to be.
Follows(s, r) ==
    /\ r.owner = s.owner /\ r.type = s.type
    /\ s.state = "listen" => r.state = "listen"
    /\ s.state \in {"connecting", "connected", "dead"} => r.state \in {"connecting", "connected", "dead"}
    /\ s.state = "connected" => r.state = "connected"
SlotsStep ==
    \A i \in Slots : sk'[i].used =>
        \/ sk[i].used /\ Follows(sk[i], sk'[i])
        \/ ~Waited(i) /\ sk'[i].owner \in Programs /\ Alive(sk'[i].owner)

\* A thread is left alone, or has returned or gone to sleep.
Calm(t) ==
    \/ th'[t] = th[t]
    \/ Alive(t) /\ th'[t].at # "ended" /\ th'[t].from \subseteq {Main[t]} /\ SleepOK(t)'

\* Who is told of the end is told of it, or of the reason.
Told(t) == \A i \in Slots : th'[t].end /\ ~th[t].end /\ th'[t].i = i => Explained(i)'

ThreadsOK == th' \in [Threads -> ThreadRec] /\ \A x \in Threads : Calm(x) /\ Told(x)
Good == TInv' /\ SlotsStep /\ ThreadsOK

LEMMA GoodKeeps ==
    ASSUME SInv, Good, setup' = setup, calls' \in 0..setup.calls
    PROVE  SInv'
  <1>1. Sleepers'
    <2> SUFFICES ASSUME NEW t \in Threads, th'[t].at = "wait" PROVE SleepOK(t)'
      BY DEF Sleepers, SleepOK
    <2>1. CASE th'[t] = th[t]
      <3>1. SleepOK(t) /\ th[t].at = "wait" /\ th[t].i \in Slots /\ Waited(th[t].i)
        BY <2>1 DEF SInv, Sleepers, SleepOK, Waited
      <3>2. ASSUME sk'[th[t].i].used PROVE Fits(sk'[th[t].i], t, th[t].k, th[t].for)
        <4>1. sk[th[t].i].used /\ Follows(sk[th[t].i], sk'[th[t].i])
          BY <3>1, <3>2 DEF Good, SlotsStep
        <4> QED
          BY <3>1, <4>1 DEF SleepOK, Follows, Fits
      <3> QED
        BY <2>1, <3>1, <3>2 DEF SleepOK
    <2>2. CASE th'[t] # th[t]
      BY <2>2 DEF Good, ThreadsOK, Calm
    <2> QED
      BY <2>1, <2>2
  <1>2. ActsOnOwn'
    BY DEF SInv, ActsOnOwn, Good, ThreadsOK, Calm
  <1>3. ClosedWithProgram'
    <2> SUFFICES ASSUME NEW i \in Slots, sk'[i].used PROVE th'[Main[sk'[i].owner]].at # "ended"
      BY DEF ClosedWithProgram, Alive
    <2>1. sk'[i].owner \in Programs
      BY DEF Good, TInv, Socks, SockOK
    <2>2. Main[sk'[i].owner] = sk'[i].owner /\ sk'[i].owner \in Threads
      BY <2>1, MainFacts
    <2>3. Alive(sk'[i].owner)
      BY <2>2 DEF Good, SlotsStep, SInv, ClosedWithProgram, Follows
    <2> QED
      BY <2>2, <2>3 DEF Good, ThreadsOK, Calm, Alive
  <1> QED
    BY <1>1, <1>2, <1>3 DEF SInv, Good, ThreadsOK

LEMMA RunningIs == Running \in ThreadRec
  BY SockAssumption DEF Running, ThreadRec, None

\* How a call ends.
LEMMA ReturnsOK ==
    ASSUME SInv, NEW t \in Threads, Alive(t), Returns(t)
    PROVE  ThreadsOK
  <1>1. th \in [Threads -> ThreadRec] /\ th' = [th EXCEPT ![t] = Running]
    BY DEF SInv, Returns
  <1>2. th' \in [Threads -> ThreadRec] /\ th'[t] = Running /\ \A x \in Threads \ {t} : th'[x] = th[x]
    BY <1>1, RunningIs
  <1>3. Calm(t) /\ Told(t)
    BY <1>2 DEF Calm, Told, Running, SleepOK
  <1>4. \A x \in Threads \ {t} : Calm(x) /\ Told(x)
    BY <1>2 DEF Calm, Told
  <1> QED
    BY <1>2, <1>3, <1>4 DEF ThreadsOK

LEMMA FromOK ==
    ASSUME SInv, NEW t \in Threads, Alive(t), NEW who, who \subseteq {Main[t]}, From(t, who)
    PROVE  ThreadsOK
  <1>1. PICK r : r = [Running EXCEPT !.from = who]
    OBVIOUS
  <1>2. r \in ThreadRec /\ r.at = "user" /\ r.end = FALSE /\ r.from = who
    BY <1>1, RunningIs, MainFacts DEF Running, ThreadRec
  <1>3. th \in [Threads -> ThreadRec] /\ th' = [th EXCEPT ![t] = r]
    BY <1>1 DEF SInv, From
  <1>4. th' \in [Threads -> ThreadRec] /\ th'[t] = r /\ \A x \in Threads \ {t} : th'[x] = th[x]
    BY <1>2, <1>3
  <1>5. Calm(t) /\ Told(t)
    BY <1>2, <1>4 DEF Calm, Told, SleepOK
  <1>6. \A x \in Threads \ {t} : Calm(x) /\ Told(x)
    BY <1>4 DEF Calm, Told
  <1> QED
    BY <1>4, <1>5, <1>6 DEF ThreadsOK

\* The end is in order, or is to be explained: the socket has stopped reading, is
\* dead, has the reason, or finds it at its next look at the connection.
LEMMA Excused ==
    ASSUME NEW i \in Slots, sk'[i].rd \/ sk'[i].state = "dead"
    PROVE  Explained(i)'
  BY DEF Explained

LEMMA Explains ==
    ASSUME NEW i \in Slots, NEW h \in Handles, sk'[i].h = h, NEW c, conn'[h] = c,
           c.st \in {"syn", "open", "dead"}, c.rx = 0,
           \/ c.err = "none" /\ c.eof
           \/ sk'[i].err # "none"
           \/ /\ c.err = "other" /\ c.st = "dead" /\ sk'[i] \in SockRec
              /\ sk'[i].type = "stream" /\ sk'[i].state = "connected" /\ sk'[i].err = "none"
    PROVE  Explained(i)'
  <1>1. Conn(sk[i].h)' = c
    BY SockAssumption DEF Conn, None
  <1>2. CASE (c.err = "none" /\ c.eof) \/ sk'[i].err # "none"
    BY <1>1, <1>2 DEF Explained
  <1>3. CASE /\ c.err = "other" /\ c.st = "dead" /\ sk'[i] \in SockRec
             /\ sk'[i].type = "stream" /\ sk'[i].state = "connected" /\ sk'[i].err = "none"
    <2>1. PICK s : s = sk'[i]
      OBVIOUS
    <2>2. Refresh(sk[i])' = [s EXCEPT !.err = c.err]
      BY <1>1, <1>3, <2>1 DEF Refresh
    <2>3. Refresh(sk[i]).err' = "other"
      BY <1>3, <2>1, <2>2 DEF SockRec
    <2> QED
      BY <1>1, <1>3, <2>3 DEF Explained
  <1> QED
    BY <1>2, <1>3

LEMMA EndsOK ==
    ASSUME SInv, NEW t \in Threads, Alive(t), NEW i \in Slots, Explained(i)', Ends(t, i)
    PROVE  ThreadsOK
  <1>1. PICK r : r = [Running EXCEPT !.end = TRUE, !.i = i]
    OBVIOUS
  <1>2. r \in ThreadRec /\ r.at = "user" /\ r.i = i /\ r.from = {}
    BY <1>1, RunningIs DEF Running, ThreadRec
  <1>3. th \in [Threads -> ThreadRec] /\ th' = [th EXCEPT ![t] = r]
    BY <1>1 DEF SInv, Ends
  <1>4. th' \in [Threads -> ThreadRec] /\ th'[t] = r /\ \A x \in Threads \ {t} : th'[x] = th[x]
    BY <1>2, <1>3
  <1>5. Calm(t)
    BY <1>2, <1>4 DEF Calm, SleepOK
  <1>6. Told(t)
    BY <1>2, <1>4 DEF Told
  <1>7. \A x \in Threads \ {t} : Calm(x) /\ Told(x)
    BY <1>4 DEF Calm, Told
  <1> QED
    BY <1>4, <1>5, <1>6, <1>7 DEF ThreadsOK

LEMMA SleepsOK ==
    ASSUME SInv, NEW t \in Threads, Alive(t), NEW i \in Slots,
           NEW k \in {"accept", "connect", "send", "recv", "recvfrom", "poll"},
           NEW for \in {"in", "out", "conn"}, k = "recv" => for \in {"in", "conn"},
           NEW left \in 0..(TxCap + 1), Fits(sk'[i], t, k, for), Sleeps(t, k, i, for, left)
    PROVE  ThreadsOK
  <1>1. PICK r : r = [Running EXCEPT !.at = "wait", !.k = k, !.i = i, !.for = for, !.left = left]
    OBVIOUS
  <1>2. r \in ThreadRec /\ r.at = "wait" /\ r.i = i /\ r.k = k /\ r.for = for /\ r.from = {} /\ r.end = FALSE
    BY <1>1, RunningIs DEF Running, ThreadRec
  <1>3. th \in [Threads -> ThreadRec] /\ th' = [th EXCEPT ![t] = r]
    BY <1>1 DEF SInv, Sleeps
  <1>4. th' \in [Threads -> ThreadRec] /\ th'[t] = r /\ \A x \in Threads \ {t} : th'[x] = th[x]
    BY <1>2, <1>3
  <1>5. SleepOK(t)'
    BY <1>2, <1>4 DEF SleepOK
  <1>6. Calm(t) /\ Told(t)
    BY <1>2, <1>4, <1>5 DEF Calm, Told
  <1>7. \A x \in Threads \ {t} : Calm(x) /\ Told(x)
    BY <1>4 DEF Calm, Told
  <1> QED
    BY <1>4, <1>6, <1>7 DEF ThreadsOK

LEMMA NobodyMoves ==
    ASSUME SInv, th' = th
    PROVE  ThreadsOK
  BY DEF SInv, ThreadsOK, Calm, Told

----------------------------------------------------------------------------
(* One lemma per action.                                                   *)

LEMMA SameConns ==
    ASSUME TInv
    PROVE  \A h \in Handles : Carried(conn[h], conn[h])
  BY DEF TInv, Reasons, Carried

LEMMA TouchedSelf ==
    ASSUME NEW s
    PROVE  Touched(s, s)
  BY DEF Touched

\* A socket, a connection or both are written without anybody getting anything.
LEMMA WriteTouches ==
    ASSUME TInv, NEW i \in Slots, NEW r \in SockRec, Touched(sk[i], r),
           sk' = [sk EXCEPT ![i] = r], conn' = conn, lsn' = lsn, usk' = usk
    PROVE  Touch
  <1>1. sk'[i] = r /\ \A j \in Slots \ {i} : sk'[j] = sk[j]
    BY DEF TInv, Tables
  <1>2. \A j \in Slots : Touched(sk[j], sk'[j])
    BY <1>1, TouchedSelf
  <1>3. Tables'
    BY DEF TInv, Tables
  <1> QED
    BY <1>2, <1>3, SameConns DEF Touch

LEMMA CarryTouches ==
    ASSUME TInv, NEW h \in Handles, NEW d \in ConnRec, Carried(conn[h], d),
           \A i \in Slots : Touched(sk[i], sk'[i]), sk' \in [Slots -> SockRec],
           conn' = [conn EXCEPT ![h] = d], lsn' = lsn, usk' = usk
    PROVE  Touch
  <1>1. conn'[h] = d /\ \A g \in Handles \ {h} : conn'[g] = conn[g]
    BY DEF TInv, Tables
  <1>2. \A g \in Handles : Carried(conn[g], conn'[g])
    BY <1>1, SameConns
  <1>3. Tables'
    BY DEF TInv, Tables
  <1> QED
    BY <1>2, <1>3 DEF Touch

LEMMA TouchSteps ==
    ASSUME Touch
    PROVE  SlotsStep
  <1> SUFFICES ASSUME NEW i \in Slots, sk'[i].used PROVE sk[i].used /\ Follows(sk[i], sk'[i])
    BY DEF SlotsStep
  <1> QED
    BY DEF Touch, Touched, Follows

LEMMA TouchGood ==
    ASSUME SInv, Touch, ThreadsOK
    PROVE  Good
  BY TouchKeeps, TouchSteps DEF SInv, Good

LEMMA SameSocks ==
    ASSUME TInv, sk' = sk
    PROVE  SlotsStep /\ sk' \in [Slots -> SockRec] /\ \A i \in Slots : Touched(sk[i], sk'[i])
  BY DEF SlotsStep, Follows, TInv, Tables, Touched

LEMMA SameTables ==
    ASSUME SInv, ThreadsOK, UNCHANGED tables
    PROVE  Good
  <1>1. \A u \in Udps : usk'[u].used = usk[u].used
    BY DEF tables
  <1>2. Tables'
    BY DEF SInv, TInv, Tables, tables
  <1>3. Touch
    BY <1>1, <1>2, SameSocks, SameConns DEF SInv, Touch, tables
  <1> QED
    BY <1>3, TouchGood

LEMMA DeadIs ==
    ASSUME NEW c \in ConnRec, NEW e \in {"reset", "other"}, c.st \in {"syn", "open"}
    PROVE  Dead(c, e) \in ConnRec /\ Carried(c, Dead(c, e))
  <1>1. PICK d : d = [c EXCEPT !.st = "dead", !.eof = TRUE, !.err = IF c.err = "none" THEN e ELSE c.err]
    OBVIOUS
  <1>2. d = Dead(c, e)
    BY <1>1 DEF Dead
  <1>3. d \in ConnRec /\ d.lsn = c.lsn /\ d.by = c.by /\ d.st = "dead" /\ d.eof
    BY <1>1 DEF ConnRec
  <1> QED
    BY <1>2, <1>3 DEF Carried

LEMMA AnsweredGood ==
    ASSUME SInv, NEW h \in Handles, Answered(h)
    PROVE  Good
  <1>1. TInv /\ conn[h] \in ConnRec /\ conn[h].st = "syn" /\ ThreadsOK
        /\ (conn[h].err # "none" => conn[h].st = "dead")
    BY NobodyMoves DEF SInv, TInv, Tables, Answered, Reasons
  <1>2. sk' \in [Slots -> SockRec] /\ \A i \in Slots : Touched(sk[i], sk'[i])
    BY <1>1, SameSocks DEF Answered
  <1>3. CASE conn' = [conn EXCEPT ![h].st = "open"]
    <2>1. PICK d : d = [conn[h] EXCEPT !.st = "open"]
      OBVIOUS
    <2>2. d \in ConnRec /\ Carried(conn[h], d)
      BY <2>1, <1>1 DEF ConnRec, Carried
    <2>3. conn' = [conn EXCEPT ![h] = d]
      BY <2>1, <1>3
    <2>4. Touch
      BY <2>2, <2>3, <1>1, <1>2, CarryTouches DEF Answered
    <2> QED
      BY <2>4, <1>1, TouchGood
  <1>4. CASE conn' = [conn EXCEPT ![h] = Dead(conn[h], "other")]
    <2>1. PICK d : d = Dead(conn[h], "other")
      OBVIOUS
    <2>2. d \in ConnRec /\ Carried(conn[h], d)
      BY <2>1, <1>1, DeadIs
    <2>3. conn' = [conn EXCEPT ![h] = d]
      BY <2>1, <1>4
    <2>4. Touch
      BY <2>2, <2>3, <1>1, <1>2, CarryTouches DEF Answered
    <2> QED
      BY <2>4, <1>1, TouchGood
  <1> QED
    BY <1>3, <1>4 DEF Answered

LEMMA CarriesGood ==
    ASSUME SInv, NEW h \in Handles, Carries(h)
    PROVE  Good
  <1>1. TInv /\ conn[h] \in ConnRec /\ conn[h].st = "open" /\ ThreadsOK
        /\ (conn[h].err # "none" => conn[h].st = "dead")
    BY NobodyMoves DEF SInv, TInv, Tables, Carries, Reasons
  <1>2. sk' \in [Slots -> SockRec] /\ \A i \in Slots : Touched(sk[i], sk'[i])
    BY <1>1, SameSocks DEF Carries
  <1>3. PICK d : /\ conn' = [conn EXCEPT ![h] = d]
                 /\ \/ d = [conn[h] EXCEPT !.rx = 1]
                    \/ d = [conn[h] EXCEPT !.eof = TRUE]
                    \/ d = [conn[h] EXCEPT !.tx = 0]
                    \/ \E e \in {"reset", "other"} : d = Dead(conn[h], e)
    BY DEF Carries
  <1>4. d \in ConnRec /\ Carried(conn[h], d)
    <2>1. CASE d = [conn[h] EXCEPT !.rx = 1]
      BY <2>1, <1>1 DEF ConnRec, Carried
    <2>2. CASE d = [conn[h] EXCEPT !.eof = TRUE]
      BY <2>2, <1>1 DEF ConnRec, Carried
    <2>3. CASE d = [conn[h] EXCEPT !.tx = 0]
      <3>1. 0 \in 0..TxCap
        BY SockAssumption
      <3> QED
        BY <2>3, <3>1, <1>1 DEF ConnRec, Carried
    <2>4. CASE \E e \in {"reset", "other"} : d = Dead(conn[h], e)
      BY <2>4, <1>1, DeadIs
    <2> QED
      BY <2>1, <2>2, <2>3, <2>4, <1>3
  <1>5. Touch
    BY <1>1, <1>2, <1>3, <1>4, CarryTouches DEF Carries
  <1> QED
    BY <1>5, <1>1, TouchGood

LEMMA DatagramGood ==
    ASSUME SInv, NEW u \in Udps, NEW m \in 0..1, usk' = [usk EXCEPT ![u].n = m],
           sk' = sk, conn' = conn, lsn' = lsn, ThreadsOK
    PROVE  Good
  <1>1. TInv /\ usk \in [Udps -> UdpRec]
    BY DEF SInv, TInv, Tables
  <1>2. usk' \in [Udps -> UdpRec] /\ \A v \in Udps : usk'[v].used = usk[v].used
    BY <1>1 DEF UdpRec
  <1>3. Tables'
    BY <1>1, <1>2 DEF TInv, Tables
  <1>4. Touch
    BY <1>1, <1>2, <1>3, SameSocks, SameConns DEF Touch
  <1> QED
    BY <1>4, TouchGood

LEMMA NetworkGood ==
    ASSUME SInv, Network
    PROVE  Good
  <1>1. TInv
    BY DEF SInv
  <1>2. ASSUME NEW h \in Handles, Answered(h) \/ Carries(h) \/ LetGo(h) \/ Completes(h) \/ FailsHalfway(h)
        PROVE  Good
    <2>1. CASE Answered(h)
      BY <2>1, AnsweredGood
    <2>2. CASE Carries(h)
      BY <2>2, CarriesGood
    <2>3. CASE LetGo(h)
      BY <1>1, <2>3, LetGoKeeps, SameSocks, NobodyMoves DEF LetGo, Good
    <2>4. CASE Completes(h)
      BY <1>1, <2>4, CompletesKeeps, SameSocks, NobodyMoves DEF Completes, Good
    <2>5. CASE FailsHalfway(h)
      BY <1>1, <2>5, FailsHalfwayKeeps, SameSocks, NobodyMoves DEF FailsHalfway, Good
    <2> QED
      BY <1>2, <2>1, <2>2, <2>3, <2>4, <2>5
  <1>3. ASSUME NEW L \in Listeners, Syn(L) PROVE Good
    BY <1>1, <1>3, SynKeeps, SameSocks, NobodyMoves DEF Syn, Good
  <1>4. ASSUME NEW u \in Udps, Datagram(u) PROVE Good
    <2>1. 1 \in 0..1
      OBVIOUS
    <2> QED
      BY <1>4, <2>1, DatagramGood, NobodyMoves DEF Datagram
  <1> QED
    BY <1>2, <1>3, <1>4 DEF Network

LEMMA WriteGood ==
    ASSUME SInv, NEW i \in Slots, NEW r \in SockRec, Touched(sk[i], r),
           sk' = [sk EXCEPT ![i] = r], conn' = conn, lsn' = lsn, usk' = usk, ThreadsOK
    PROVE  Good
  BY WriteTouches, TouchGood DEF SInv

LEMMA Written ==
    ASSUME SInv, NEW i \in Slots, NEW r, sk' = [sk EXCEPT ![i] = r]
    PROVE  sk'[i] = r
  BY DEF SInv, TInv, Tables

\* wait_for: the call returns, or sleeps on a socket that fits it.
LEMMA WaitForGood ==
    ASSUME SInv, NEW t \in Threads, Alive(t), NEW i \in Slots, NEW r \in SockRec, Touched(sk[i], r),
           NEW k \in {"accept", "connect", "send", "recv", "recvfrom", "poll"},
           NEW for \in {"in", "out", "conn"}, k = "recv" => for \in {"in", "conn"},
           NEW left \in 0..(TxCap + 1), Fits(r, t, k, for), WaitFor(t, k, i, r, for, left)
    PROVE  Good
  <1>1. sk' = [sk EXCEPT ![i] = r] /\ conn' = conn /\ lsn' = lsn /\ usk' = usk
    BY DEF WaitFor
  <1>2. sk'[i] = r
    BY <1>1, Written
  <1>3. CASE Returns(t)
    BY <1>1, <1>3, ReturnsOK, WriteGood
  <1>4. CASE Sleeps(t, k, i, for, left)
    <2>1. ThreadsOK
      BY <1>2, <1>4, SleepsOK
    <2> QED
      BY <1>1, <2>1, WriteGood
  <1> QED
    BY <1>3, <1>4 DEF WaitFor

\* What get finds.
LEMMA MineIs ==
    ASSUME SInv, NEW t \in Threads, NEW i \in Slots, InUser(t), Mine(t, i)
    PROVE  /\ TInv /\ Alive(t) /\ sk[i].used /\ sk[i].owner = Main[t] /\ sk[i] \in SockRec /\ SockOK(i)
           /\ Refresh(sk[i]) \in SockRec /\ Touched(sk[i], Refresh(sk[i]))
  <1>1. TInv /\ Alive(t) /\ sk[i].used /\ sk[i].owner = Main[t] /\ sk[i] \in SockRec /\ SockOK(i) /\ Tables
    BY DEF SInv, TInv, Tables, Socks, InUser, Alive, Mine
  <1> QED
    BY <1>1, RefreshTouches

LEMMA SeatSteps ==
    ASSUME TInv, NEW i \in Slots, Seat(i), sk[i].used, sk[i].state = "new"
    PROVE  SlotsStep
  <1> SUFFICES ASSUME NEW j \in Slots, sk'[j].used PROVE sk[j].used /\ Follows(sk[j], sk'[j])
    BY DEF SlotsStep
  <1> QED
    BY DEF Seat, Keeps, Follows

LEMMA OpenGood ==
    ASSUME Risky = {}, SInv, NEW t \in Threads, NEW type \in {"stream", "dgram"}, Open(t, type)
    PROVE  Good
  <1>1. PICK i : i = Lowest(FreeSlot)
    OBVIOUS
  <1>2. i \in FreeSlot /\ Seat(i) /\ TInv' /\ sk'[i].owner = Main[t]
    BY <1>1, OpenSeats DEF SInv
  <1>3. ThreadsOK
    BY ReturnsOK DEF Open, InUser, Alive
  <1>4. ~Waited(i) /\ Alive(Main[t]) /\ Main[t] \in Programs
    BY <1>1, MainFacts DEF Open, MayOpen
  <1>5. SlotsStep
    <2> SUFFICES ASSUME NEW j \in Slots, sk'[j].used, j # i PROVE sk[j].used /\ Follows(sk[j], sk'[j])
      BY <1>2, <1>4 DEF SlotsStep
    <2> QED
      BY <1>2 DEF Seat, Follows
  <1> QED
    BY <1>2, <1>3, <1>5 DEF Good

LEMMA ListenGood ==
    ASSUME SInv, NEW t \in Threads, NEW i \in Slots, Listen(t, i)
    PROVE  Good
  <1>1. TInv /\ Alive(t) /\ sk[i].used /\ sk[i].state = "new" /\ Returns(t)
    BY MineIs DEF Listen
  <1> QED
    BY <1>1, ListenSeats, SeatSteps, ReturnsOK DEF Good

LEMMA BindGood ==
    ASSUME SInv, NEW t \in Threads, NEW i \in Slots, NEW port \in Ports, Bind(t, i, port)
    PROVE  Good
  <1>1. TInv /\ Alive(t) /\ sk[i].used /\ sk[i].state = "new" /\ sk[i].u = None /\ sk[i] \in SockRec
    BY MineIs DEF Bind
  <1>2. ThreadsOK
    BY <1>1, ReturnsOK DEF Bind
  <1>3. CASE sk[i].type = "dgram"
    <2>1. Bound(i, port) /\ conn' = conn /\ lsn' = lsn
      BY <1>3 DEF Bind
    <2>2. Seat(i) /\ TInv'
      BY <1>1, <1>3, <2>1, BoundSeats
    <2> QED
      BY <1>1, <1>2, <2>2, SeatSteps DEF Good
  <1>4. CASE sk[i].type # "dgram"
    <2>1. PICK r : r = [sk[i] EXCEPT !.port = port]
      OBVIOUS
    <2>2. port \in Nat
      BY SockAssumption
    <2>3. r \in SockRec /\ Touched(sk[i], r)
      BY <1>1, <2>1, <2>2 DEF SockRec, Touched
    <2>4. sk' = [sk EXCEPT ![i] = r] /\ conn' = conn /\ lsn' = lsn /\ usk' = usk
      BY <1>4, <2>1 DEF Bind
    <2> QED
      BY <1>2, <2>3, <2>4, WriteGood
  <1> QED
    BY <1>3, <1>4

LEMMA AcceptNowGood ==
    ASSUME Risky = {}, SInv, NEW t \in Threads, Alive(t), NEW i \in Slots, sk[i].used, sk[i].state = "listen",
           sk[i].owner = Main[t], MayOpen, AcceptNow(t, i)
    PROVE  Good
  <1>1. TInv /\ SockOK(i)
    BY DEF SInv, TInv, Socks
  <1>2. CASE lsn[sk[i].lsn].q = <<>>
    <2>1. Returns(t) /\ UNCHANGED tables
      BY <1>2 DEF AcceptNow
    <2> QED
      BY <2>1, ReturnsOK, SameTables
  <1>3. CASE lsn[sk[i].lsn].q # <<>>
    <2>1. CASE sk' = sk /\ Returns(t)
      BY <1>1, <1>3, <2>1, AcceptDequeues, SameSocks, ReturnsOK DEF Good
    <2>2. CASE /\ FreeSlot # {} /\ Lowest(FreeSlot) \in FreeSlot /\ sk'[Lowest(FreeSlot)].owner = Main[t]
               /\ \A j \in Slots \ {Lowest(FreeSlot)} : sk'[j] = sk[j]
               /\ \E who : who \subseteq {Main[t]} /\ From(t, who)
      <3>1. PICK n : n = Lowest(FreeSlot)
        OBVIOUS
      <3>2. n \in FreeSlot /\ sk'[n].owner = Main[t] /\ \A j \in Slots \ {n} : sk'[j] = sk[j]
        BY <2>2, <3>1
      <3>3. ~Waited(n)
        BY <2>2, <3>1 DEF MayOpen
      <3>4. Alive(Main[t]) /\ Main[t] \in Programs
        <4>1. Alive(Main[sk[i].owner])
          BY DEF SInv, ClosedWithProgram
        <4> QED
          BY <4>1, MainFacts
      <3>5. SlotsStep
        <4> SUFFICES ASSUME NEW j \in Slots, sk'[j].used, j # n PROVE sk[j].used /\ Follows(sk[j], sk'[j])
          BY <3>2, <3>3, <3>4 DEF SlotsStep
        <4> QED
          BY <3>2 DEF Follows
      <3>6. ThreadsOK
        BY <2>2, FromOK
      <3> QED
        BY <3>5, <3>6, <1>1, <1>3, AcceptDequeues DEF Good
    <2> QED
      BY <1>1, <1>3, <2>1, <2>2, AcceptDequeues
  <1> QED
    BY <1>2, <1>3

LEMMA AcceptGood ==
    ASSUME Risky = {}, SInv, NEW t \in Threads, NEW i \in Slots, Accept(t, i)
    PROVE  Good
  <1>1. /\ Alive(t) /\ sk[i].used /\ sk[i].state = "listen" /\ sk[i] \in SockRec
        /\ sk[i].owner = Main[t]
    BY MineIs DEF Accept
  <1>2. CASE WaitFor(t, "accept", i, sk[i], "in", 0)
    <2>1. PICK r : r = sk[i]
      OBVIOUS
    <2>2. Fits(r, t, "accept", "in") /\ Touched(sk[i], r) /\ r \in SockRec
      BY <1>1, <2>1, TouchedSelf DEF Fits
    <2>3. 0 \in 0..(TxCap + 1)
      BY SockAssumption
    <2>4. WaitFor(t, "accept", i, r, "in", 0)
      BY <1>2, <2>1
    <2> QED
      BY <1>1, <2>2, <2>3, <2>4, WaitForGood
  <1>3. CASE MayOpen /\ AcceptNow(t, i)
    BY <1>1, <1>3, AcceptNowGood
  <1> QED
    BY <1>2, <1>3 DEF Accept

LEMMA ClearsError ==
    ASSUME NEW s, NEW r \in SockRec, Touched(s, r)
    PROVE  [r EXCEPT !.err = "none"] \in SockRec /\ Touched(s, [r EXCEPT !.err = "none"])
  BY DEF SockRec, Touched

LEMMA ConnectToldGood ==
    ASSUME SInv, NEW t \in Threads, Alive(t), NEW i \in Slots, NEW r \in SockRec, Touched(sk[i], r),
           ConnectTold(t, i, r)
    PROVE  Good
  <1>1. PICK q : q = IF r.state = "connected" THEN r ELSE [r EXCEPT !.err = "none"]
    OBVIOUS
  <1>2. q \in SockRec /\ Touched(sk[i], q)
    BY <1>1, ClearsError
  <1>3. sk' = [sk EXCEPT ![i] = q] /\ conn' = conn /\ lsn' = lsn /\ usk' = usk /\ Returns(t)
    BY <1>1 DEF ConnectTold
  <1> QED
    BY <1>2, <1>3, ReturnsOK, WriteGood

LEMMA ConnectGood ==
    ASSUME SInv, NEW t \in Threads, NEW i \in Slots, Connect(t, i)
    PROVE  Good
  <1>1. PICK s : s = Refresh(sk[i])
    OBVIOUS
  <1>2. /\ TInv /\ Alive(t) /\ sk[i].used /\ sk[i].owner = Main[t] /\ sk[i] \in SockRec /\ SockOK(i)
        /\ s \in SockRec /\ Touched(sk[i], s) /\ s.type = "stream"
    BY <1>1, MineIs DEF Connect
  <1>3. CASE /\ s.state # "new" /\ sk' = [sk EXCEPT ![i] = s]
             /\ Returns(t) /\ UNCHANGED <<conn, lsn, usk>>
    BY <1>2, <1>3, ReturnsOK, WriteGood
  <1>4. CASE s.state = "connecting" /\ WaitFor(t, "connect", i, s, "conn", 0)
    <2>1. Fits(s, t, "connect", "conn")
      BY <1>2, <1>4 DEF Fits, Touched
    <2>2. 0 \in 0..(TxCap + 1)
      BY SockAssumption
    <2> QED
      BY <1>2, <1>4, <2>1, <2>2, WaitForGood
  <1>5. CASE /\ s.state = "new" /\ FreeHandles # {}
             /\ conn' = [conn EXCEPT ![Lowest(FreeHandles)] = [NoConn EXCEPT !.st = "syn", !.by = {Main[t]}]]
             /\ sk' = [sk EXCEPT ![i] = [s EXCEPT !.h = Lowest(FreeHandles), !.state = "connecting"]]
             /\ IF "nonblock" \in s.opts THEN Returns(t) ELSE Sleeps(t, "connect", i, "conn", 0)
             /\ UNCHANGED <<lsn, usk>>
    <2>1. sk[i].state = "new" /\ sk[i].type = "stream"
      BY <1>2, <1>5 DEF Touched
    <2>2. s = sk[i]
      BY <1>1, <2>1 DEF Refresh
    <2>3. Seat(i) /\ TInv'
      BY <1>2, <1>5, <2>1, <2>2, ConnectSeats
    <2>4. sk'[i] = [s EXCEPT !.h = Lowest(FreeHandles), !.state = "connecting"]
      BY <1>5, Written
    <2>5. Fits(sk'[i], t, "connect", "conn")
      BY <2>4, <1>2 DEF Fits, SockRec, Touched
    <2>6. 0 \in 0..(TxCap + 1)
      BY SockAssumption
    <2>7. ThreadsOK
      BY <1>2, <1>5, <2>5, <2>6, ReturnsOK, SleepsOK
    <2> QED
      BY <1>2, <2>1, <2>3, <2>7, SeatSteps DEF Good
  <1> QED
    BY <1>1, <1>3, <1>4, <1>5 DEF Connect

LEMMA ConnectUdpGood ==
    ASSUME SInv, NEW t \in Threads, NEW i \in Slots, ConnectUdp(t, i)
    PROVE  Good
  <1>1. TInv /\ Alive(t) /\ sk[i].used /\ sk[i].type = "dgram" /\ sk[i].u = None /\ SockOK(i)
    BY MineIs DEF ConnectUdp
  <1>2. Seat(i) /\ TInv'
    BY <1>1, BoundSeats DEF ConnectUdp
  <1>3. sk[i].state = "new"
    BY <1>1 DEF SockOK
  <1> QED
    BY <1>1, <1>2, <1>3, SeatSteps, ReturnsOK DEF ConnectUdp, Good

LEMMA TouchedTwice ==
    ASSUME NEW s, NEW r, NEW q, Touched(s, r), Touched(r, q)
    PROVE  Touched(s, q)
  BY DEF Touched

\* What a call sees of the connection of its socket.
LEMMA SeenConn ==
    ASSUME SInv, NEW i \in Slots, sk[i].used, NEW s, Touched(sk[i], s),
           s.state \in {"connecting", "connected", "dead"}
    PROVE  /\ s.h \in Handles /\ Conn(s.h) = conn[s.h] /\ conn[s.h] \in ConnRec
           /\ conn[s.h].st \in {"syn", "open", "dead"} /\ conn[s.h].by \subseteq {sk[i].owner}
           /\ conn[s.h].err # "none" => conn[s.h].st = "dead"
           /\ conn[s.h].st = "dead" => conn[s.h].eof
  <1>1. TInv /\ Tables /\ SockOK(i) /\ s.h = sk[i].h
    BY DEF SInv, TInv, Socks, Touched
  <1>2. sk[i].h # None
    BY <1>1 DEF SockOK, Touched
  <1>3. s.h \in Handles /\ Conn(s.h) = conn[s.h]
    BY <1>1, <1>2, ConnIs
  <1> QED
    BY <1>1, <1>2, <1>3 DEF Tables, TInv, Reasons, SockOK

\* As much as there is room for.
LEMMA Fitting ==
    ASSUME NEW a \in 0..TxCap, NEW left \in 0..(TxCap + 1), NEW n,
           n = IF left < TxCap - a THEN left ELSE TxCap - a
    PROVE  a + n \in 0..TxCap /\ (n < left => left - n \in 0..(TxCap + 1))
  BY SockAssumption

LEMMA SendOnGood ==
    ASSUME SInv, NEW t \in Threads, Alive(t), NEW i \in Slots, sk[i].used, sk[i].owner = Main[t],
           sk[i].type = "stream", NEW s \in SockRec, Touched(sk[i], s), NEW left \in 0..(TxCap + 1),
           SendOn(t, i, s, left)
    PROVE  Good
  <1>1. TInv /\ Tables
    BY DEF SInv, TInv
  <1>2. CASE /\ sk' = [sk EXCEPT ![i] = Refresh(s)] /\ Returns(t) /\ UNCHANGED <<conn, lsn, usk>>
    <2>1. PICK r : r = Refresh(s)
      OBVIOUS
    <2>2. r \in SockRec /\ Touched(sk[i], r)
      BY <1>1, <2>1, RefreshTouches, TouchedTwice
    <2> QED
      BY <1>2, <2>1, <2>2, ReturnsOK, WriteGood
  <1>3. ASSUME ~(s.state # "connected" \/ s.wr \/ Conn(s.h).st # "open" \/ Conn(s.h).fin)
        PROVE  Good
    <2>1. PICK c : c = Conn(s.h)
      OBVIOUS
    <2>2. s.h \in Handles /\ c = conn[s.h] /\ c \in ConnRec /\ c.st = "open" /\ c.err = "none"
          /\ c.by \subseteq {Main[t]}
      BY <1>3, <2>1, SeenConn
    <2>3. PICK n : n = IF left < TxCap - c.tx THEN left ELSE TxCap - c.tx
      OBVIOUS
    <2>4. c.tx \in 0..TxCap
      BY <2>2 DEF ConnRec
    <2>5. c.tx + n \in 0..TxCap /\ (n < left => left - n \in 0..(TxCap + 1))
      BY <2>3, <2>4, Fitting
    <2>6. PICK d : d = [c EXCEPT !.tx = c.tx + n]
      OBVIOUS
    <2>7. d \in ConnRec /\ Carried(conn[s.h], d)
      BY <2>2, <2>5, <2>6 DEF ConnRec, Carried
    <2>8. /\ conn' = [conn EXCEPT ![s.h] = d] /\ sk' = [sk EXCEPT ![i] = s] /\ lsn' = lsn /\ usk' = usk
          /\ IF n < left /\ "nonblock" \notin s.opts
             THEN Sleeps(t, "send", i, "out", left - n) ELSE From(t, c.by)
      BY <1>3, <2>1, <2>2, <2>3, <2>6 DEF SendOn
    <2>9. sk' \in [Slots -> SockRec] /\ sk'[i] = s /\ \A j \in Slots : Touched(sk[j], sk'[j])
      BY <2>8, <1>1, TouchedSelf DEF Tables
    <2>10. Touch
      BY <1>1, <2>2, <2>7, <2>8, <2>9, CarryTouches
    <2>11. Fits(sk'[i], t, "send", "out")
      BY <2>9, <1>3 DEF Fits, Touched
    <2>12. ThreadsOK
      <3>1. CASE Sleeps(t, "send", i, "out", left - n) /\ n < left
        <4>1. PICK m \in 0..(TxCap + 1) : m = left - n
          BY <3>1, <2>5
        <4>2. Sleeps(t, "send", i, "out", m)
          BY <3>1, <4>1
        <4> QED
          BY <4>2, <2>11, SleepsOK
      <3>2. CASE From(t, c.by)
        BY <3>2, <2>2, FromOK
      <3> QED
        BY <2>8, <3>1, <3>2
    <2> QED
      BY <2>10, <2>12, TouchGood
  <1> QED
    BY <1>2, <1>3 DEF SendOn

LEMMA SendGood ==
    ASSUME SInv, NEW t \in Threads, NEW i \in Slots, NEW len \in 1..(TxCap + 1), Send(t, i, len)
    PROVE  Good
  <1>1. PICK s : s = Refresh(sk[i])
    OBVIOUS
  <1>2. /\ Alive(t) /\ sk[i].used /\ sk[i].owner = Main[t] /\ s \in SockRec /\ Touched(sk[i], s)
        /\ s.type = "stream" /\ sk[i].type = "stream"
    BY <1>1, MineIs DEF Send, Touched
  <1>3. len \in 0..(TxCap + 1)
    BY SockAssumption
  <1>4. CASE s.state = "connecting" /\ WaitFor(t, "send", i, s, "conn", len)
    <2>1. Fits(s, t, "send", "conn")
      BY <1>2, <1>4 DEF Fits, Touched
    <2> QED
      BY <1>2, <1>3, <1>4, <2>1, WaitForGood
  <1>5. CASE SendOn(t, i, s, len)
    BY <1>2, <1>3, <1>5, SendOnGood
  <1> QED
    BY <1>1, <1>4, <1>5 DEF Send

\* A connection that died for a reason has left it with the socket, once looked at.
LEMMA ReasonKept ==
    ASSUME SInv, NEW i \in Slots, sk[i].used, sk[i].type = "stream",
           NEW s, s = Refresh(sk[i]), s.state = "connected", conn[s.h].err # "none"
    PROVE  s.err # "none"
  <1>1. sk[i] \in SockRec /\ Tables
    BY DEF SInv, TInv, Tables
  <1>2. Touched(sk[i], s)
    BY <1>1, RefreshTouches
  <1>3. Conn(s.h) = conn[s.h] /\ conn[s.h].st = "dead" /\ s.h = sk[i].h
    BY <1>2, SeenConn DEF Touched
  <1>4. PICK c : c = Conn(sk[i].h)
    OBVIOUS
  <1>5. c.st = "dead" /\ c.err # "none"
    BY <1>3, <1>4
  <1>6. s = IF sk[i].state = "connecting" THEN [sk[i] EXCEPT !.state = "dead", !.err = c.err]
            ELSE IF sk[i].state = "connected" /\ sk[i].err = "none" THEN [sk[i] EXCEPT !.err = c.err]
            ELSE sk[i]
    BY <1>4, <1>5 DEF Refresh
  <1>7. sk[i].state # "connecting"
    BY <1>1, <1>6 DEF SockRec
  <1>8. CASE sk[i].err = "none"
    <2>1. sk[i].state = "connected"
      BY <1>2, <1>7 DEF Touched
    <2>2. s = [sk[i] EXCEPT !.err = c.err]
      BY <1>6, <1>7, <1>8, <2>1
    <2> QED
      BY <1>1, <1>5, <2>2 DEF SockRec
  <1>9. CASE sk[i].err # "none"
    BY <1>6, <1>7, <1>9
  <1> QED
    BY <1>8, <1>9

LEMMA TakeGood ==
    ASSUME SInv, NEW t \in Threads, Alive(t), NEW i \in Slots, sk[i].used, sk[i].owner = Main[t],
           sk[i].type = "stream", NEW s, s = Refresh(sk[i]), s.state = "connected",
           Conn(s.h).rx > 0 \/ Conn(s.h).eof \/ s.rd, Take(t, i, s)
    PROVE  Good
  <1>1. TInv /\ Tables /\ sk[i] \in SockRec
    BY DEF SInv, TInv, Tables
  <1>2. s \in SockRec /\ Touched(sk[i], s)
    BY <1>1, RefreshTouches
  <1>3. PICK c : c = Conn(s.h)
    OBVIOUS
  <1>4. s.h \in Handles /\ c = conn[s.h] /\ c \in ConnRec /\ c.by \subseteq {Main[t]} /\ c.rx \in 0..1
        /\ (c.err # "none" => c.st = "dead") /\ (c.st = "dead" => c.eof)
    BY <1>2, <1>3, SeenConn DEF ConnRec
  <1>5. sk' = [sk EXCEPT ![i] = s] /\ lsn' = lsn /\ usk' = usk
    BY DEF Take
  <1>6. sk' \in [Slots -> SockRec] /\ sk'[i] = s /\ \A j \in Slots : Touched(sk[j], sk'[j])
    BY <1>1, <1>2, <1>5, TouchedSelf DEF Tables
  <1>7. CASE c.rx > 0
    <2>1. PICK d : d = [c EXCEPT !.rx = 0]
      OBVIOUS
    <2>2. d \in ConnRec /\ Carried(conn[s.h], d)
      BY <1>4, <2>1 DEF ConnRec, Carried
    <2>3. conn' = [conn EXCEPT ![s.h] = d] /\ From(t, c.by)
      BY <1>3, <1>4, <1>7, <2>1 DEF Take
    <2>4. Touch
      BY <1>1, <1>4, <1>5, <1>6, <2>2, <2>3, CarryTouches
    <2> QED
      BY <1>4, <2>3, <2>4, FromOK, TouchGood
  <1>8. CASE ~(c.rx > 0)
    <2>1. conn' = conn
      BY <1>3, <1>8 DEF Take
    <2>2. CASE Returns(t)
      BY <1>2, <1>5, <2>1, <2>2, ReturnsOK, WriteGood
    <2>3. CASE Ends(t, i) /\ ~(c.err = "reset" /\ s.err = "none")
      <3>1. c.rx = 0
        BY <1>4, <1>8
      <3>2. c.err # "none" => s.err # "none"
        BY <1>4, ReasonKept
      <3>3. s.rd \/ c.eof
        BY <1>3, <3>1
      <3>4. Explained(i)'
        <4>1. CASE s.rd
          BY <1>6, <4>1, Excused
        <4>2. CASE c.eof
          <5>1. (c.err = "none" /\ c.eof) \/ sk'[i].err # "none"
            BY <1>6, <3>2, <4>2
          <5>2. PICK h \in Handles : h = s.h
            BY <1>4
          <5>3. sk'[i].h = h /\ conn'[h] = c /\ c.st \in {"syn", "open", "dead"}
            BY <1>2, <1>4, <1>6, <2>1, <5>2, SeenConn
          <5> QED
            BY <3>1, <5>1, <5>3, Explains
        <4> QED
          BY <3>3, <4>1, <4>2
      <3>5. ThreadsOK
        BY <2>3, <3>4, EndsOK
      <3> QED
        BY <1>2, <1>5, <2>1, <3>5, WriteGood
    <2> QED
      BY <1>3, <1>8, <2>2, <2>3 DEF Take
  <1> QED
    BY <1>7, <1>8

LEMMA RecvOnGood ==
    ASSUME SInv, NEW t \in Threads, Alive(t), NEW i \in Slots, sk[i].used, sk[i].owner = Main[t],
           sk[i].type = "stream", NEW s, s = Refresh(sk[i]), RecvOn(t, i, s)
    PROVE  Good
  <1>1. TInv /\ Tables /\ sk[i] \in SockRec
    BY DEF SInv, TInv, Tables
  <1>2. s \in SockRec /\ Touched(sk[i], s)
    BY <1>1, RefreshTouches
  <1>3. CASE /\ s.state = "dead" /\ sk' = [sk EXCEPT ![i] = [s EXCEPT !.err = "none"]]
             /\ IF s.err = "none" THEN Ends(t, i) ELSE Returns(t)
             /\ UNCHANGED <<conn, lsn, usk>>
    <2>1. PICK r : r = [s EXCEPT !.err = "none"]
      OBVIOUS
    <2>2. r \in SockRec /\ Touched(sk[i], r)
      BY <1>2, <2>1, ClearsError
    <2>3. sk' = [sk EXCEPT ![i] = r]
      BY <1>3, <2>1
    <2>4. sk'[i].state = "dead"
      <3>1. r.state = "dead"
        BY <1>2, <1>3, <2>1 DEF SockRec
      <3> QED
        BY <2>3, <3>1, Written
    <2>5. ThreadsOK
      BY <1>3, <2>4, Excused, EndsOK, ReturnsOK
    <2> QED
      BY <1>3, <2>2, <2>3, <2>5, WriteGood
  <1>4. CASE /\ s.state \notin {"dead", "connected"} \/ (s.state = "connected" /\ s.rd)
             /\ sk' = [sk EXCEPT ![i] = s]
             /\ IF s.state = "connected" THEN Ends(t, i) ELSE Returns(t)
             /\ UNCHANGED <<conn, lsn, usk>>
    <2>1. sk'[i] = s
      BY <1>4, Written
    <2>2. ThreadsOK
      BY <1>4, <2>1, Excused, EndsOK, ReturnsOK
    <2> QED
      BY <1>2, <1>4, <2>2, WriteGood
  <1>5. CASE s.state = "connected" /\ (Conn(s.h).rx > 0 \/ Conn(s.h).eof) /\ Take(t, i, s)
    BY <1>5, TakeGood
  <1>6. CASE s.state = "connected" /\ WaitFor(t, "recv", i, s, "in", 0)
    <2>1. Fits(s, t, "recv", "in")
      BY <1>2, <1>6 DEF Fits, Touched
    <2>2. 0 \in 0..(TxCap + 1)
      BY SockAssumption
    <2> QED
      BY <1>2, <1>6, <2>1, <2>2, WaitForGood
  <1> QED
    BY <1>3, <1>4, <1>5, <1>6 DEF RecvOn

LEMMA RecvGood ==
    ASSUME SInv, NEW t \in Threads, NEW i \in Slots, Recv(t, i)
    PROVE  Good
  <1>1. PICK s : s = Refresh(sk[i])
    OBVIOUS
  <1>2. /\ Alive(t) /\ sk[i].used /\ sk[i].owner = Main[t] /\ s \in SockRec /\ Touched(sk[i], s)
        /\ s.type = "stream" /\ sk[i].type = "stream"
    BY <1>1, MineIs DEF Recv, Touched
  <1>3. 0 \in 0..(TxCap + 1)
    BY SockAssumption
  <1>4. CASE s.state = "connecting" /\ WaitFor(t, "recv", i, s, "conn", 0)
    <2>1. Fits(s, t, "recv", "conn")
      BY <1>2, <1>4 DEF Fits, Touched
    <2> QED
      BY <1>2, <1>3, <1>4, <2>1, WaitForGood
  <1>5. CASE RecvOn(t, i, s)
    BY <1>1, <1>2, <1>5, RecvOnGood
  <1> QED
    BY <1>1, <1>4, <1>5 DEF Recv

LEMMA RecvDiesGood ==
    ASSUME SInv, NEW t \in Threads, NEW i \in Slots, NEW e \in {"reset", "other"}, RecvDies(t, i, e)
    PROVE  Good
  <1>1. PICK s : s = Refresh(sk[i])
    OBVIOUS
  <1>2. /\ TInv /\ Alive(t) /\ sk[i].used /\ s \in SockRec /\ Touched(sk[i], s)
        /\ s.type = "stream" /\ s.state = "connected" /\ Conn(s.h).st = "open" /\ Conn(s.h).rx = 0
    BY <1>1, MineIs DEF RecvDies
  <1>3. s.h \in Handles /\ conn[s.h] \in ConnRec /\ conn[s.h].st = "open" /\ Conn(s.h) = conn[s.h]
        /\ conn[s.h].err = "none"
    BY <1>2, SeenConn
  <1>4. PICK d : d = Dead(conn[s.h], e)
    OBVIOUS
  <1>5. d \in ConnRec /\ Carried(conn[s.h], d)
    BY <1>3, <1>4, DeadIs
  <1>6. conn' = [conn EXCEPT ![s.h] = d] /\ sk' = [sk EXCEPT ![i] = s] /\ lsn' = lsn /\ usk' = usk
        /\ IF d.err = "reset" /\ s.err = "none" THEN Returns(t) ELSE Ends(t, i)
    BY <1>1, <1>4 DEF RecvDies
  <1>7. sk' \in [Slots -> SockRec] /\ sk'[i] = s /\ \A j \in Slots : Touched(sk[j], sk'[j])
    BY <1>2, <1>6, TouchedSelf DEF TInv, Tables
  <1>8. Touch
    BY <1>2, <1>3, <1>5, <1>6, <1>7, CarryTouches
  <1>9. ~(d.err = "reset" /\ s.err = "none") => Explained(i)'
    <2>1. PICK h \in Handles : h = s.h
      BY <1>3
    <2>2. d.st = "dead" /\ d.rx = 0 /\ d.err = e
      BY <1>2, <1>3, <1>4 DEF Dead, ConnRec
    <2>3. conn'[h] = d /\ sk'[i].h = h
      BY <1>2, <1>6, <1>7, <2>1 DEF TInv, Tables
    <2>4. CASE s.err # "none"
      BY <1>7, <2>2, <2>3, <2>4, Explains
    <2>5. CASE e = "other" /\ s.err = "none"
      BY <1>2, <1>7, <2>2, <2>3, <2>5, Explains
    <2> QED
      BY <2>2, <2>4, <2>5
  <1>10. ThreadsOK
    BY <1>2, <1>6, <1>9, EndsOK, ReturnsOK
  <1> QED
    BY <1>8, <1>10, TouchGood

LEMMA TakeDatagramGood ==
    ASSUME SInv, NEW t \in Threads, Alive(t), NEW i \in Slots, sk[i].used, sk[i].owner = Main[t],
           TakeDatagram(t, i)
    PROVE  Good
  <1>1. CASE sk[i].u = None
    BY <1>1, ReturnsOK, SameTables DEF TakeDatagram
  <1>2. CASE sk[i].u # None
    <2>1. PICK u : u = sk[i].u
      OBVIOUS
    <2>2. u \in Udps
      BY <1>2, <2>1 DEF SInv, TInv, Tables, SockRec
    <2>3. usk' = [usk EXCEPT ![u].n = 0] /\ From(t, {sk[i].owner}) /\ sk' = sk /\ conn' = conn /\ lsn' = lsn
      BY <1>2, <2>1 DEF TakeDatagram
    <2>4. ThreadsOK
      <3>1. PICK who : who = {sk[i].owner}
        OBVIOUS
      <3>2. who \subseteq {Main[t]} /\ From(t, who)
        BY <2>3, <3>1
      <3> QED
        BY <3>2, FromOK
    <2>5. 0 \in 0..1
      OBVIOUS
    <2> QED
      BY <2>2, <2>3, <2>4, <2>5, DatagramGood
  <1> QED
    BY <1>1, <1>2

LEMMA RecvUdpGood ==
    ASSUME SInv, NEW t \in Threads, NEW i \in Slots, RecvUdp(t, i)
    PROVE  Good
  <1>1. /\ TInv /\ Alive(t) /\ sk[i].used /\ sk[i].type = "dgram" /\ sk[i].owner = Main[t]
        /\ SockOK(i) /\ sk[i] \in SockRec
    BY MineIs DEF RecvUdp
  <1>2. sk[i].state = "new"
    BY <1>1 DEF SockOK
  <1>3. 0 \in 0..(TxCap + 1)
    BY SockAssumption
  <1>4. CASE sk[i].u = None
    <2>1. Bound(i, 0) /\ conn' = conn /\ lsn' = lsn
          /\ IF "nonblock" \in sk[i].opts THEN Returns(t) ELSE Sleeps(t, "recvfrom", i, "in", 0)
      BY <1>4 DEF RecvUdp
    <2>2. Seat(i) /\ TInv' /\ sk'[i].type = "dgram"
      BY <1>1, <1>4, <2>1, BoundSeats
    <2>3. Fits(sk'[i], t, "recvfrom", "in")
      BY <1>1, <2>2 DEF Fits, Seat, Keeps
    <2>4. ThreadsOK
      BY <1>1, <1>3, <2>1, <2>3, ReturnsOK, SleepsOK
    <2> QED
      BY <1>1, <1>2, <2>2, <2>4, SeatSteps DEF Good
  <1>5. CASE TakeDatagram(t, i)
    BY <1>1, <1>5, TakeDatagramGood
  <1>6. CASE WaitFor(t, "recvfrom", i, sk[i], "in", 0)
    <2>1. PICK r : r = sk[i]
      OBVIOUS
    <2>2. Fits(r, t, "recvfrom", "in") /\ r \in SockRec /\ Touched(sk[i], r)
      BY <1>1, <2>1, TouchedSelf DEF Fits
    <2>3. WaitFor(t, "recvfrom", i, r, "in", 0)
      BY <1>6, <2>1
    <2> QED
      BY <1>1, <1>3, <2>2, <2>3, WaitForGood
  <1> QED
    BY <1>4, <1>5, <1>6 DEF RecvUdp

LEMMA ShutdownGood ==
    ASSUME SInv, NEW t \in Threads, NEW i \in Slots, NEW rd \in BOOLEAN, NEW wr \in BOOLEAN,
           Shutdown(t, i, rd, wr)
    PROVE  Good
  <1>1. PICK s : s = sk[i]
    OBVIOUS
  <1>2. TInv /\ Alive(t) /\ sk[i].used /\ s \in SockRec /\ s.state = "connected" /\ Touched(sk[i], s)
    BY <1>1, MineIs, TouchedSelf DEF Shutdown
  <1>3. PICK a \in BOOLEAN : a = (s.rd \/ rd)
    OBVIOUS
  <1>4. PICK b \in BOOLEAN : b = (s.wr \/ wr)
    OBVIOUS
  <1>5. PICK r : r = [s EXCEPT !.rd = a, !.wr = b]
    OBVIOUS
  <1>6. r \in SockRec /\ Touched(s, r)
    BY <1>2, <1>5 DEF SockRec, Touched
  <1>7. sk' = [sk EXCEPT ![i] = r] /\ lsn' = lsn /\ usk' = usk
    BY <1>1, <1>2, <1>3, <1>4, <1>5 DEF Shutdown, TInv, Tables, SockRec
  <1>8. ThreadsOK
    BY <1>2, ReturnsOK DEF Shutdown
  <1>9. CASE conn' = conn
    BY <1>1, <1>6, <1>7, <1>8, <1>9, WriteGood
  <1>10. CASE Conn(s.h).st = "open" /\ conn' = [conn EXCEPT ![s.h].fin = TRUE]
    <2>1. s.h \in Handles /\ conn[s.h] \in ConnRec /\ conn[s.h].st = "open" /\ conn[s.h].err = "none"
      BY <1>2, <1>10, SeenConn
    <2>2. PICK d : d = [conn[s.h] EXCEPT !.fin = TRUE]
      OBVIOUS
    <2>3. d \in ConnRec /\ Carried(conn[s.h], d)
      BY <2>1, <2>2 DEF ConnRec, Carried
    <2>4. conn' = [conn EXCEPT ![s.h] = d]
      BY <1>10, <2>2
    <2>5. sk' \in [Slots -> SockRec] /\ \A j \in Slots : Touched(sk[j], sk'[j])
      BY <1>1, <1>2, <1>6, <1>7, TouchedSelf DEF TInv, Tables
    <2>6. Touch
      BY <1>2, <1>7, <2>1, <2>3, <2>4, <2>5, CarryTouches
    <2> QED
      BY <1>8, <2>6, TouchGood
  <1> QED
    BY <1>1, <1>9, <1>10 DEF Shutdown

LEMMA CloseGood ==
    ASSUME SInv, NEW t \in Threads, NEW i \in Slots, Close(t, i)
    PROVE  Good
  <1>1. TInv /\ Alive(t) /\ sk[i].used
    BY MineIs DEF Close
  <1>2. TInv' /\ \A j \in Slots : IF j \in {i} THEN ~sk'[j].used ELSE sk'[j] = sk[j]
    BY <1>1, FreedKeeps DEF Close
  <1>3. SlotsStep
    BY <1>2 DEF SlotsStep, Follows
  <1> QED
    BY <1>1, <1>2, <1>3, ReturnsOK DEF Close, Good

LEMMA SetOptGood ==
    ASSUME SInv, NEW t \in Threads, NEW i \in Slots, NEW o \in {"nonblock", "timeout"}, SetOpt(t, i, o)
    PROVE  Good
  <1>1. Alive(t) /\ sk[i] \in SockRec
    BY MineIs DEF SetOpt
  <1>2. PICK r : r = [sk[i] EXCEPT !.opts = sk[i].opts \cup {o}]
    OBVIOUS
  <1>3. r \in SockRec /\ Touched(sk[i], r)
    BY <1>1, <1>2 DEF SockRec, Touched
  <1>4. sk' = [sk EXCEPT ![i] = r] /\ conn' = conn /\ lsn' = lsn /\ usk' = usk
    BY <1>2 DEF SetOpt
  <1> QED
    BY <1>1, <1>3, <1>4, ReturnsOK, WriteGood DEF SetOpt

LEMMA SoErrorGood ==
    ASSUME SInv, NEW t \in Threads, NEW i \in Slots, SoError(t, i)
    PROVE  Good
  <1>1. Alive(t) /\ Refresh(sk[i]) \in SockRec /\ Touched(sk[i], Refresh(sk[i]))
    BY MineIs DEF SoError
  <1>2. PICK r : r = [Refresh(sk[i]) EXCEPT !.err = "none"]
    OBVIOUS
  <1>3. r \in SockRec /\ Touched(sk[i], r)
    BY <1>1, <1>2, ClearsError
  <1>4. sk' = [sk EXCEPT ![i] = r] /\ conn' = conn /\ lsn' = lsn /\ usk' = usk
    BY <1>2 DEF SoError
  <1> QED
    BY <1>1, <1>3, <1>4, ReturnsOK, WriteGood DEF SoError

\* sock_poll goes by the number of the socket, whoever has it now.
LEMMA LookedGood ==
    ASSUME SInv, NEW t \in Threads, NEW i \in Slots, sk' = Looked(t, i), UNCHANGED <<conn, lsn, usk>>, ThreadsOK
    PROVE  Good
  <1>1. CASE Mine(t, i)
    <2>1. PICK r : r = Refresh(sk[i])
      OBVIOUS
    <2>2. sk[i] \in SockRec /\ Tables
      BY DEF SInv, TInv, Tables
    <2>3. r \in SockRec /\ Touched(sk[i], r)
      BY <2>1, <2>2, RefreshTouches
    <2>4. sk' = [sk EXCEPT ![i] = r]
      BY <1>1, <2>1 DEF Looked
    <2> QED
      BY <2>3, <2>4, WriteGood
  <1>2. CASE ~Mine(t, i)
    <2>1. sk' = sk
      BY <1>2 DEF Looked
    <2> QED
      BY <2>1, SameTables DEF tables
  <1> QED
    BY <1>1, <1>2

LEMMA PollGood ==
    ASSUME SInv, NEW t \in Threads, NEW i \in Slots, Poll(t, i)
    PROVE  Good
  <1>1. PICK r : r = Refresh(sk[i])
    OBVIOUS
  <1>2. Alive(t) /\ sk[i].owner = Main[t] /\ Touched(sk[i], r)
    BY <1>1, MineIs DEF Poll
  <1>3. sk' = [sk EXCEPT ![i] = r]
    BY <1>1 DEF Poll, Looked
  <1>4. Fits(sk'[i], t, "poll", "in")
    BY <1>2, <1>3, Written DEF Fits, Touched
  <1>5. 0 \in 0..(TxCap + 1)
    BY SockAssumption
  <1>6. ThreadsOK
    BY <1>2, <1>4, <1>5, ReturnsOK, SleepsOK DEF Poll
  <1> QED
    BY <1>6, LookedGood DEF Poll

\* What a call that slept finds when its socket is still there.
LEMMA AsleepIs ==
    ASSUME SInv, NEW t \in Threads, Asleep(t)
    PROVE  /\ Alive(t) /\ th[t].i \in Slots /\ th[t] \in ThreadRec /\ th[t].k # "none"
           /\ th[t].k = "recv" => th[t].for \in {"in", "conn"}
           /\ sk[th[t].i].used => Fits(sk[th[t].i], t, th[t].k, th[t].for)
  BY DEF SInv, Asleep, Alive, Sleepers, SleepOK

LEMMA WakeLateGood ==
    ASSUME SInv, NEW t \in Threads, WakeLate(t)
    PROVE  Good
  <1>1. PICK i : i = th[t].i
    OBVIOUS
  <1>2. Alive(t) /\ i \in Slots
    BY <1>1, AsleepIs DEF WakeLate
  <1>3. ThreadsOK
    BY <1>2, ReturnsOK DEF WakeLate
  <1>4. CASE th[t].k = "poll"
    BY <1>1, <1>2, <1>3, <1>4, LookedGood DEF WakeLate
  <1>5. CASE th[t].k # "poll"
    <2>1. PICK r : r = Refresh(sk[i])
      OBVIOUS
    <2>2. sk[i] \in SockRec /\ Tables
      BY <1>2 DEF SInv, TInv, Tables
    <2>3. r \in SockRec /\ Touched(sk[i], r)
      BY <2>1, <2>2, RefreshTouches
    <2>4. sk' = [sk EXCEPT ![i] = r] /\ conn' = conn /\ lsn' = lsn /\ usk' = usk
      BY <1>1, <1>5, <2>1 DEF WakeLate
    <2> QED
      BY <1>2, <1>3, <2>3, <2>4, WriteGood
  <1> QED
    BY <1>4, <1>5

\* A receiver that is woken has bytes to take, or nothing more will come.
LEMMA ReadyToTake ==
    ASSUME SInv, NEW i \in Slots, sk[i].used, sk[i].type = "stream", NEW s, Touched(sk[i], s),
           s.state = "connected", Ready(s, "in")
    PROVE  Conn(s.h).rx > 0 \/ Conn(s.h).eof \/ s.rd
  <1>1. Conn(s.h).st = "dead" => Conn(s.h).eof
    BY SeenConn
  <1>2. s.type = "stream"
    BY DEF Touched
  <1>3. In(s) \/ Hup(s)
    BY DEF Ready
  <1>4. In(s) => Conn(s.h).rx > 0 \/ Conn(s.h).eof \/ s.rd
    BY <1>2 DEF In
  <1>5. Hup(s) => Conn(s.h).st = "dead"
    BY DEF Hup
  <1> QED
    BY <1>1, <1>3, <1>4, <1>5

LEMMA WakeReadyGood ==
    ASSUME Risky = {}, SInv, NEW t \in Threads, WakeReady(t)
    PROVE  Good
  <1>1. PICK i : i = th[t].i
    OBVIOUS
  <1>2. PICK s : s = Refresh(sk[i])
    OBVIOUS
  <1>3. PICK k : k = th[t].k
    OBVIOUS
  <1>4. /\ Alive(t) /\ i \in Slots /\ th[t] \in ThreadRec /\ k # "none"
        /\ k = "recv" => th[t].for \in {"in", "conn"}
        /\ sk[i].used => Fits(sk[i], t, k, th[t].for)
    BY <1>1, <1>3, AsleepIs DEF WakeReady
  <1>5. k \in {"accept", "connect", "send", "recv", "recvfrom", "poll"} /\ th[t].left \in 0..(TxCap + 1)
    BY <1>3, <1>4 DEF ThreadRec
  <1>6. sk[i] \in SockRec /\ Tables /\ TInv
    BY <1>4 DEF SInv, TInv, Tables
  <1>7. s \in SockRec /\ Touched(sk[i], s)
    BY <1>2, <1>6, RefreshTouches
  <1>8. k # "poll" => sk[i].used /\ Fits(sk[i], t, k, th[t].for) /\ Ready(s, th[t].for)
    BY <1>1, <1>2, <1>3, <1>4 DEF WakeReady, FoundClosed
  <1>9. CASE k = "poll"
    <2>1. sk' = Looked(t, i) /\ Returns(t) /\ UNCHANGED <<conn, lsn, usk>>
      BY <1>1, <1>3, <1>9 DEF WakeReady
    <2> QED
      BY <1>4, <2>1, ReturnsOK, LookedGood
  <1>10. CASE k = "accept"
    <2>1. MayOpen /\ AcceptNow(t, i)
      BY <1>1, <1>3, <1>10 DEF WakeReady
    <2>2. sk[i].used /\ sk[i].state = "listen" /\ sk[i].owner = Main[t]
      BY <1>8, <1>10 DEF Fits
    <2> QED
      BY <1>4, <2>1, <2>2, AcceptNowGood
  <1>11. CASE k = "connect"
    <2>1. ConnectTold(t, i, s)
      BY <1>1, <1>2, <1>3, <1>11 DEF WakeReady
    <2> QED
      BY <1>4, <1>7, <2>1, ConnectToldGood
  <1>12. CASE k = "send"
    <2>1. SendOn(t, i, s, th[t].left)
      BY <1>1, <1>2, <1>3, <1>12 DEF WakeReady
    <2>2. sk[i].used /\ sk[i].type = "stream" /\ sk[i].owner = Main[t]
      BY <1>8, <1>12 DEF Fits
    <2> QED
      BY <1>4, <1>5, <1>7, <2>1, <2>2, SendOnGood
  <1>13. CASE k = "recvfrom"
    <2>1. TakeDatagram(t, i)
      BY <1>1, <1>3, <1>13 DEF WakeReady
    <2>2. sk[i].used /\ sk[i].owner = Main[t]
      BY <1>8, <1>13 DEF Fits
    <2> QED
      BY <1>4, <2>1, <2>2, TakeDatagramGood
  <1>14. CASE k = "recv" /\ th[t].for = "conn"
    <2>1. RecvOn(t, i, s)
      BY <1>1, <1>2, <1>3, <1>14 DEF WakeReady
    <2>2. sk[i].used /\ sk[i].type = "stream" /\ sk[i].owner = Main[t]
      BY <1>8, <1>14 DEF Fits
    <2> QED
      BY <1>2, <1>4, <2>1, <2>2, RecvOnGood
  <1>15. CASE k = "recv" /\ th[t].for = "in"
    <2>1. Take(t, i, s)
      BY <1>1, <1>2, <1>3, <1>15 DEF WakeReady
    <2>2. sk[i].used /\ sk[i].type = "stream" /\ sk[i].owner = Main[t] /\ sk[i].state = "connected"
      BY <1>8, <1>15 DEF Fits
    <2>3. s.state = "connected"
      BY <1>7, <2>2 DEF Touched
    <2>4. Conn(s.h).rx > 0 \/ Conn(s.h).eof \/ s.rd
      BY <1>4, <1>7, <1>8, <1>15, <2>2, <2>3, ReadyToTake
    <2> QED
      BY <1>2, <1>4, <2>1, <2>2, <2>3, <2>4, TakeGood
  <1> QED
    BY <1>4, <1>5, <1>9, <1>10, <1>11, <1>12, <1>13, <1>14, <1>15

LEMMA WakesGood ==
    ASSUME Risky = {}, SInv, NEW t \in Threads, Interrupted(t) \/ Wakes(t)
    PROVE  Good
  <1>1. CASE Interrupted(t)
    BY <1>1, AsleepIs, ReturnsOK, SameTables DEF Interrupted
  <1>2. CASE WakeClosed(t)
    BY <1>2, AsleepIs, ReturnsOK, SameTables DEF WakeClosed
  <1> QED
    BY <1>1, <1>2, WakeLateGood, WakeReadyGood DEF Wakes

LEMMA CallsGood ==
    ASSUME Risky = {}, SInv, NEW t \in Threads, Calls(t)
    PROVE  Good
  <1>1. CASE Open(t, setup.type)
    <2>1. setup.type \in {"stream", "dgram"}
      BY SockAssumption DEF SInv
    <2> QED
      BY <1>1, <2>1, OpenGood
  <1>2. ASSUME NEW i \in Slots,
               \/ Listen(t, i) \/ Accept(t, i) \/ Connect(t, i) \/ ConnectUdp(t, i)
               \/ Recv(t, i) \/ RecvUdp(t, i)
               \/ Close(t, i) \/ SoError(t, i) \/ Poll(t, i)
        PROVE  Good
    BY <1>2, ListenGood, AcceptGood, ConnectGood, ConnectUdpGood, RecvGood,
       RecvUdpGood, CloseGood, SoErrorGood, PollGood
  <1>3. ASSUME NEW i \in Slots, NEW p \in Ports, Bind(t, i, p) PROVE Good
    BY <1>3, BindGood
  <1>4. ASSUME NEW i \in Slots, NEW n \in 1..(TxCap + 1), Send(t, i, n) PROVE Good
    BY <1>4, SendGood
  <1>5. ASSUME NEW i \in Slots, NEW rd \in BOOLEAN, NEW wr \in BOOLEAN, Shutdown(t, i, rd, wr) PROVE Good
    BY <1>5, ShutdownGood
  <1>6. ASSUME NEW i \in Slots, NEW o \in {"nonblock", "timeout"}, SetOpt(t, i, o) PROVE Good
    BY <1>6, SetOptGood
  <1>7. ASSUME NEW i \in Slots, NEW e \in {"reset", "other"}, RecvDies(t, i, e) PROVE Good
    BY <1>7, RecvDiesGood
  <1> QED
    BY <1>1, <1>2, <1>3, <1>4, <1>5, <1>6, <1>7 DEF Calls

\* The end of a program takes its sockets with it; that of a thread none.
LEMMA ExitKeeps ==
    ASSUME SInv, NEW t \in Threads, Exit(t), setup' = setup, calls' = calls
    PROVE  SInv' /\ \A x \in Threads : Told(x)
  <1>1. PICK r : r = [Running EXCEPT !.at = "ended"]
    OBVIOUS
  <1>2. r \in ThreadRec /\ r.at = "ended" /\ r.from = {} /\ r.end = FALSE
    BY <1>1, RunningIs DEF Running, ThreadRec
  <1>3. th \in [Threads -> ThreadRec] /\ th' = [th EXCEPT ![t] = r] /\ TInv
    BY <1>1 DEF SInv, Exit
  <1>4. th' \in [Threads -> ThreadRec] /\ th'[t] = r /\ \A x \in Threads \ {t} : th'[x] = th[x]
    BY <1>2, <1>3
  <1>5. TInv' /\ \A i \in Slots : sk'[i].used => sk'[i] = sk[i] /\ sk[i].owner # t
    <2>1. CASE t = Main[t]
      <3>1. PICK S : S = {i \in Slots : sk[i].used /\ sk[i].owner = t}
        OBVIOUS
      <3>2. S \in SUBSET Slots /\ (\A i \in S : sk[i].used) /\ Freed(S)
        BY <2>1, <3>1 DEF Exit
      <3>3. TInv' /\ \A i \in Slots : IF i \in S THEN ~sk'[i].used ELSE sk'[i] = sk[i]
        BY <1>3, <3>2, FreedKeeps
      <3> QED
        BY <3>1, <3>3
    <2>2. CASE t # Main[t]
      <3>1. UNCHANGED tables
        BY <2>2 DEF Exit
      <3>2. TInv'
        <4>1. Touch
          BY <1>3, <3>1, SameSocks, SameConns DEF Touch, TInv, Tables, tables
        <4> QED
          BY <1>3, <4>1, TouchKeeps
      <3>3. \A i \in Slots : sk[i].used => sk[i].owner \in Programs
        BY <1>3 DEF TInv, Socks, SockOK
      <3>4. t \notin Programs
        BY <2>2, MainFacts
      <3> QED
        BY <3>1, <3>2, <3>3, <3>4 DEF tables
    <2> QED
      BY <2>1, <2>2
  <1>6. Sleepers'
    <2> SUFFICES ASSUME NEW x \in Threads, th'[x].at = "wait" PROVE SleepOK(x)'
      BY DEF Sleepers, SleepOK
    <2>1. th'[x] = th[x] /\ SleepOK(x)
      BY <1>2, <1>4 DEF SInv, Sleepers
    <2> QED
      BY <2>1, <1>5 DEF SleepOK
  <1>7. ActsOnOwn'
    BY <1>2, <1>4 DEF SInv, ActsOnOwn
  <1>8. ClosedWithProgram'
    <2> SUFFICES ASSUME NEW i \in Slots, sk'[i].used PROVE th'[Main[sk'[i].owner]].at # "ended"
      BY DEF ClosedWithProgram, Alive
    <2>1. sk'[i] = sk[i] /\ sk[i].used /\ sk[i].owner # t /\ sk[i].owner \in Programs
      BY <1>3, <1>5 DEF TInv, Socks, SockOK
    <2>2. Main[sk[i].owner] = sk[i].owner /\ sk[i].owner \in Threads
      BY <2>1, MainFacts
    <2> QED
      BY <1>4, <2>1, <2>2 DEF SInv, ClosedWithProgram, Alive
  <1>9. \A x \in Threads : Told(x)
    BY <1>2, <1>4 DEF Told
  <1> QED
    BY <1>4, <1>5, <1>6, <1>7, <1>8, <1>9 DEF SInv

LEMMA NextKeeps ==
    ASSUME Risky = {}, SInv, Next
    PROVE  SInv' /\ \A x \in Threads : Told(x)
  <1>1. setup' = setup /\ calls \in 0..setup.calls /\ setup.calls \in Nat
    BY SockAssumption DEF Next, SInv
  <1>2. CASE UNCHANGED calls /\ Network
    BY <1>1, <1>2, NetworkGood, GoodKeeps DEF Good, ThreadsOK
  <1>3. CASE UNCHANGED calls /\ \E t \in Threads : Interrupted(t) \/ Wakes(t)
    BY <1>1, <1>3, WakesGood, GoodKeeps DEF Good, ThreadsOK
  <1>4. CASE UNCHANGED calls /\ \E t \in Threads : Exit(t)
    BY <1>1, <1>4, ExitKeeps
  <1>5. CASE calls < setup.calls /\ calls' = calls + 1 /\ \E t \in Threads : Calls(t)
    <2>1. calls' \in 0..setup.calls
      BY <1>1, <1>5
    <2> QED
      BY <1>1, <1>5, <2>1, CallsGood, GoodKeeps DEF Good, ThreadsOK
  <1> QED
    BY <1>2, <1>3, <1>4, <1>5 DEF Next

LEMMA StutterKeeps ==
    ASSUME SInv, UNCHANGED <<setup, vars>>
    PROVE  SInv'
  <1>1. UNCHANGED tables /\ th' = th /\ setup' = setup /\ calls' = calls
    BY DEF vars
  <1>2. Good
    BY <1>1, NobodyMoves, SameTables
  <1> QED
    BY <1>1, <1>2, GoodKeeps DEF SInv

LEMMA InitHolds ==
    ASSUME Init
    PROVE  SInv
  <1>1. NoSock \in SockRec /\ NoSock.owner \in Programs
    BY NoSockIs, SockAssumption
  <1>2. setup \in Setups /\ calls = 0 /\ setup.calls \in Nat /\ setup.open \in Seq(Programs)
        /\ setup.type \in {"stream", "dgram"}
    BY SockAssumption DEF Init, Programs
  <1>3. ASSUME NEW i \in Slots
        PROVE  /\ sk[i] \in SockRec /\ sk[i].state \in {"free", "new"} /\ sk[i].h = None /\ sk[i].u = None
               /\ sk[i].used => sk[i].state = "new" /\ sk[i].owner \in Programs
    <2>1. i \in Nat \ {0}
      BY SockAssumption
    <2>2. CASE i > Len(setup.open)
      <3>1. sk[i] = NoSock
        BY <2>2 DEF Init
      <3> QED
        BY <3>1, <1>1 DEF NoSock
    <2>3. CASE ~(i > Len(setup.open))
      <3>1. setup.open[i] \in Programs
        BY <1>2, <2>1, <2>3
      <3>2. PICK p : p = setup.open[i]
        OBVIOUS
      <3>3. PICK y : y = setup.type
        OBVIOUS
      <3>4. sk[i] = [NoSock EXCEPT !.used = TRUE, !.state = "new", !.type = y, !.owner = p]
        BY <2>3, <3>2, <3>3 DEF Init
      <3>5. p \in Programs /\ p \in Threads /\ y \in {"stream", "dgram"}
        BY <1>2, <3>1, <3>2, <3>3, MainFacts
      <3>6. sk[i] \in SockRec /\ sk[i].state = "new" /\ sk[i].owner = p
        BY <1>1, <3>4, <3>5 DEF SockRec
      <3>7. sk[i].h = NoSock.h /\ sk[i].u = NoSock.u
        BY <1>1, <3>4 DEF SockRec
      <3> QED
        BY <3>5, <3>6, <3>7 DEF NoSock
    <2> QED
      BY <2>2, <2>3
  <1>4. sk = [i \in Slots |-> sk[i]] /\ conn = [h \in Handles |-> NoConn]
        /\ lsn = [L \in Listeners |-> NoLsn] /\ usk = [u \in Udps |-> NoUdp]
    BY DEF Init
  <1>5. /\ \A h \in Handles : conn[h].st = "free" /\ conn[h].err = "none"
        /\ \A L \in Listeners : lsn[L].q = <<>> /\ ~lsn[L].used
        /\ \A u \in Udps : ~usk[u].used
    BY <1>4 DEF NoConn, NoLsn, NoUdp
  <1>6. Tables
    <2>1. sk \in [Slots -> SockRec]
      BY <1>3, <1>4
    <2>2. NoLsn \in LsnRec /\ NoUdp \in UdpRec
      BY DEF NoLsn, LsnRec, NoUdp, UdpRec
    <2> QED
      BY <2>1, <2>2, <1>4, NoConnIs DEF Tables
  <1>7. Socks
    BY <1>3 DEF Socks, SockOK
  <1>8. Apart
    BY <1>3 DEF Apart
  <1>9. Queues
    BY <1>5 DEF Queues, QueueOK
  <1>10. Halves /\ AllHeld /\ Reasons
    BY <1>5 DEF Halves, HalfOK, AllHeld, ConnHeld, LsnHeld, UdpHeld, Reasons
  <1>11. Room
    <2> SUFFICES ASSUME NEW L \in Listeners PROVE Len(lsn[L].q) + Cardinality(Half(L)) <= Backlog
      BY DEF Room
    <2>1. Half(L) = {}
      BY <1>5 DEF Half
    <2>2. Cardinality(Half(L)) = 0
      BY <2>1, FS_EmptySet
    <2>3. Len(lsn[L].q) = 0
      BY <1>5
    <2> QED
      BY <2>2, <2>3, SockAssumption
  <1>12. th = [t \in Threads |-> Running]
    BY DEF Init
  <1>13. th \in [Threads -> ThreadRec] /\ \A t \in Threads : th[t].at = "user" /\ th[t].from = {}
    BY <1>12, RunningIs DEF Running
  <1>14. ClosedWithProgram
    BY <1>3, <1>13, MainFacts DEF ClosedWithProgram, Alive
  <1> QED
    BY <1>2, <1>6, <1>7, <1>8, <1>9, <1>10, <1>11, <1>13, <1>14 DEF SInv, TInv, Sleepers, SleepOK, ActsOnOwn

----------------------------------------------------------------------------
(* What follows of it.                                                     *)

LEMMA TypesHold ==
    ASSUME SInv
    PROVE  TypeOK
  <1>1. sk \in [Slots -> SockRec] /\ conn \in [Handles -> ConnRec] /\ usk \in [Udps -> UdpRec]
        /\ th \in [Threads -> ThreadRec] /\ setup \in Setups /\ calls \in 0..setup.calls
    BY DEF SInv, TInv, Tables
  <1>2. ASSUME NEW L \in Listeners
        PROVE  /\ lsn[L].used \in BOOLEAN /\ lsn[L].port \in Nat
               /\ lsn[L].q \in Seq(Handles) /\ Len(lsn[L].q) <= Backlog
    <2>1. lsn[L] \in LsnRec /\ Len(lsn[L].q) + Cardinality(Half(L)) <= Backlog
      BY DEF SInv, TInv, Tables, Room
    <2>2. lsn[L].used \in BOOLEAN /\ lsn[L].port \in Nat /\ lsn[L].q \in Seq(Handles)
      BY <2>1 DEF LsnRec
    <2>3. Len(lsn[L].q) \in Nat
      BY <2>2
    <2> QED
      BY <2>1, <2>2, <2>3, HalfFinite, SockAssumption
  <1> QED
    BY <1>1, <1>2 DEF TypeOK, SockRec, ConnRec, UdpRec, ThreadRec

SocketsOf(h) == {<<"socket", i>> : i \in {j \in Slots : sk[j].used /\ sk[j].type = "stream" /\ sk[j].h = h}}
PlacesOf(h) == {e \in {"queue"} \X Listeners \X (1..Backlog) :
                  e[3] <= Len(lsn[e[2]].q) /\ lsn[e[2]].q[e[3]] = h}
StageOf(h) == {<<st>> : st \in {conn[h].st} \cap {"half", "orphan"}}

LEMMA HoldersAre ==
    ASSUME NEW h
    PROVE  HoldersOf(h) = SocketsOf(h) \cup PlacesOf(h) \cup StageOf(h)
  BY DEF HoldersOf, SocketsOf, PlacesOf, StageOf

\* Only a connection that is up or was, and came from no listener, is a socket's.
LEMMA SocketsNone ==
    ASSUME TInv, NEW h \in Handles, conn[h].st \in {"free", "half", "orphan"} \/ conn[h].lsn # None
    PROVE  SocketsOf(h) = {}
  <1> SUFFICES ASSUME NEW i \in Slots, sk[i].used, sk[i].h = h PROVE FALSE
    BY DEF SocketsOf
  <1>1. h # None
    BY SockAssumption DEF None
  <1> QED
    BY <1>1 DEF TInv, Socks, SockOK

LEMMA PlaceIs ==
    ASSUME TInv, NEW h \in Handles, NEW e \in PlacesOf(h)
    PROVE  /\ e = <<"queue", conn[h].lsn, e[3]>> /\ conn[h].lsn \in Listeners /\ conn[h].lsn # None
           /\ conn[h].st \in {"open", "dead"}
           /\ e[3] \in 1..Len(lsn[conn[h].lsn].q) /\ lsn[conn[h].lsn].q[e[3]] = h
  <1>1. PICK L \in Listeners, k \in 1..Backlog : e = <<"queue", L, k>>
    BY DEF PlacesOf
  <1>2. k <= Len(lsn[L].q) /\ lsn[L].q[k] = h
    BY <1>1 DEF PlacesOf
  <1>3. lsn[L].q \in Seq(Handles) /\ QueueOK(L)
    BY DEF TInv, Tables, LsnRec, Queues
  <1>4. k \in 1..Len(lsn[L].q)
    BY <1>2, <1>3, SockAssumption
  <1>5. conn[h].st \in {"open", "dead"} /\ conn[h].lsn = L
    BY <1>2, <1>3, <1>4 DEF QueueOK
  <1> QED
    BY <1>1, <1>2, <1>4, <1>5, SockAssumption DEF None

LEMMA HeldOnce ==
    ASSUME TInv, NEW h \in Handles
    PROVE  IF conn[h].st = "free" \/ Forgotten(h) THEN HoldersOf(h) = {} ELSE Cardinality(HoldersOf(h)) = 1
  <1>1. conn[h] \in ConnRec /\ conn[h].st \in {"free", "syn", "half", "open", "orphan", "dead"} /\ h # None
    BY SockAssumption DEF TInv, Tables, ConnRec, None
  <1>2. CASE conn[h].st = "free"
    <2>1. SocketsOf(h) = {} /\ PlacesOf(h) = {} /\ StageOf(h) = {}
      BY <1>2, SocketsNone, PlaceIs DEF StageOf
    <2> QED
      BY <1>2, <2>1, HoldersAre
  <1>3. CASE conn[h].st \in {"half", "orphan"}
    <2>1. SocketsOf(h) = {} /\ PlacesOf(h) = {}
      BY <1>3, SocketsNone, PlaceIs
    <2>2. StageOf(h) = {<<conn[h].st>>}
      BY <1>3 DEF StageOf
    <2>3. HoldersOf(h) = {<<conn[h].st>>}
      BY <2>1, <2>2, HoldersAre
    <2>4. Cardinality(HoldersOf(h)) = 1
      BY <2>3, FS_Singleton
    <2> QED
      BY <1>3, <2>4 DEF Forgotten
  <1>4. CASE conn[h].st \in {"syn", "open", "dead"} /\ conn[h].lsn = None
    <2>1. PlacesOf(h) = {} /\ StageOf(h) = {}
      BY <1>4, PlaceIs DEF StageOf
    <2>2. PICK i \in Slots : sk[i].used /\ sk[i].h = h
      BY <1>4 DEF TInv, AllHeld, ConnHeld
    <2>3. sk[i].type = "stream"
      BY <1>1, <2>2 DEF TInv, Socks, SockOK, Tables, SockRec
    <2>4. \A j \in Slots : sk[j].used /\ sk[j].h = h => j = i
      BY <1>1, <2>2 DEF TInv, Apart
    <2>5. SocketsOf(h) = {<<"socket", i>>}
      BY <2>2, <2>3, <2>4 DEF SocketsOf
    <2>6. HoldersOf(h) = {<<"socket", i>>}
      BY <2>1, <2>5, HoldersAre
    <2>7. Cardinality(HoldersOf(h)) = 1
      BY <2>6, FS_Singleton
    <2> QED
      BY <1>4, <2>7 DEF Forgotten
  <1>5. CASE conn[h].st \in {"open", "dead"} /\ conn[h].lsn # None
    <2>1. SocketsOf(h) = {} /\ StageOf(h) = {}
      BY <1>5, SocketsNone DEF StageOf
    <2>2. HoldersOf(h) = PlacesOf(h)
      BY <2>1, HoldersAre
    <2>3. CASE PlacesOf(h) = {}
      <3>1. conn[h].st # "open"
        <4> SUFFICES ASSUME conn[h].st = "open" PROVE FALSE
          OBVIOUS
        <4>1. PICK L : L = conn[h].lsn
          OBVIOUS
        <4>2. L \in Listeners
          BY <1>1, <1>5, <4>1 DEF ConnRec
        <4>3. PICK k \in 1..Len(lsn[L].q) : lsn[L].q[k] = h
          BY <1>5, <4>1 DEF TInv, AllHeld, ConnHeld
        <4>4. Len(lsn[L].q) \in Nat /\ Len(lsn[L].q) + Cardinality(Half(L)) <= Backlog
          BY <4>2 DEF TInv, Tables, LsnRec, Room
        <4>5. k \in 1..Backlog /\ k <= Len(lsn[L].q)
          BY <4>4, HalfFinite, SockAssumption
        <4>6. <<"queue", L, k>> \in PlacesOf(h)
          BY <4>2, <4>3, <4>5 DEF PlacesOf
        <4> QED
          BY <2>3, <4>6
      <3>2. Forgotten(h)
        BY <1>5, <2>2, <2>3, <3>1 DEF Forgotten
      <3> QED
        BY <2>2, <2>3, <3>2
    <2>4. CASE PlacesOf(h) # {}
      <3>1. PICK e : e \in PlacesOf(h)
        BY <2>4
      <3>2. \A d \in PlacesOf(h) : d = e
        <4> SUFFICES ASSUME NEW d \in PlacesOf(h) PROVE d = e
          OBVIOUS
        <4>1. PICK L : L = conn[h].lsn
          OBVIOUS
        <4>2. /\ e = <<"queue", L, e[3]>> /\ e[3] \in 1..Len(lsn[L].q) /\ lsn[L].q[e[3]] = h
              /\ d = <<"queue", L, d[3]>> /\ d[3] \in 1..Len(lsn[L].q) /\ lsn[L].q[d[3]] = h
              /\ L \in Listeners
          BY <3>1, <4>1, PlaceIs
        <4>3. QueueOK(L)
          BY <4>2 DEF TInv, Queues
        <4>4. e[3] = d[3]
          BY <4>2, <4>3 DEF QueueOK
        <4> QED
          BY <4>2, <4>4
      <3>3. HoldersOf(h) = {e}
        BY <2>2, <3>1, <3>2
      <3>4. Cardinality(HoldersOf(h)) = 1
        BY <3>3, FS_Singleton
      <3> QED
        BY <1>5, <2>2, <2>4, <3>4 DEF Forgotten
    <2> QED
      BY <2>3, <2>4
  <1> QED
    BY <1>1, <1>2, <1>3, <1>4, <1>5 DEF TInv, AllHeld, ConnHeld

LEMMA OneHolderHolds ==
    ASSUME TInv
    PROVE  OneHolder
  <1>1. ASSUME NEW L \in Listeners
        PROVE  lsn[L].used <=>
                 Cardinality({i \in Slots : sk[i].used /\ sk[i].state = "listen" /\ sk[i].lsn = L}) = 1
    <2> DEFINE S == {i \in Slots : sk[i].used /\ sk[i].state = "listen" /\ sk[i].lsn = L}
    <2>1. CASE lsn[L].used
      <3>1. PICK i \in Slots : sk[i].used /\ sk[i].state = "listen" /\ sk[i].lsn = L
        BY <2>1 DEF TInv, AllHeld, LsnHeld
      <3>2. S = {i}
        BY <3>1 DEF TInv, Apart
      <3> QED
        BY <2>1, <3>2, FS_Singleton
    <2>2. CASE ~lsn[L].used
      <3>1. S = {}
        BY <2>2 DEF TInv, Socks, SockOK
      <3>2. Cardinality(S) = 0
        BY <3>1, FS_EmptySet
      <3> QED
        BY <2>2, <3>2
    <2> QED
      BY <2>1, <2>2
  <1>2. ASSUME NEW u \in Udps
        PROVE  usk[u].used <=>
                 Cardinality({i \in Slots : sk[i].used /\ sk[i].type = "dgram" /\ sk[i].u = u}) = 1
    <2> DEFINE S == {i \in Slots : sk[i].used /\ sk[i].type = "dgram" /\ sk[i].u = u}
    <2>0. u # None
      BY SockAssumption DEF None
    <2>1. CASE usk[u].used
      <3>1. PICK i \in Slots : sk[i].used /\ sk[i].u = u
        BY <2>1 DEF TInv, AllHeld, UdpHeld
      <3>2. sk[i].type = "dgram"
        BY <2>0, <3>1 DEF TInv, Socks, SockOK, Tables, SockRec
      <3>3. S = {i}
        BY <2>0, <3>1, <3>2 DEF TInv, Apart
      <3> QED
        BY <2>1, <3>3, FS_Singleton
    <2>2. CASE ~usk[u].used
      <3>1. S = {}
        BY <2>0, <2>2 DEF TInv, Socks, SockOK
      <3>2. Cardinality(S) = 0
        BY <3>1, FS_EmptySet
      <3> QED
        BY <2>2, <3>2
    <2> QED
      BY <2>1, <2>2
  <1> QED
    BY <1>1, <1>2, HeldOnce DEF OneHolder

----------------------------------------------------------------------------
(* The theorems.  Risky = {}: no slot is given out again while a call sleeps *)
(* on it, and no thread opens a socket after its program has ended.          *)

\* The tables and the sleeping calls stay sound, whatever the network and the
\* programs do.
THEOREM SockInvariant ==
    ASSUME Risky = {}
    PROVE  Spec => []SInv
  <1>1. Init => SInv
    BY InitHolds
  <1>2. SInv /\ [Next]_<<setup, vars>> => SInv'
    BY NextKeeps, StutterKeeps
  <1> QED
    BY <1>1, <1>2, PTL DEF Spec

\* A connection in use has one holder and is given back with it, and no socket is
\* left of a program that is gone (sock_free, net_tcp_unlisten,
\* process_notify_exit).
THEOREM SockAccounted ==
    ASSUME Risky = {}
    PROVE  Spec => []Accounted
  <1>1. SInv => Accounted
    BY TypesHold, OneHolderHolds DEF SInv, Accounted
  <1> QED
    BY <1>1, SockInvariant, PTL

\* What a call reads, sends on or accepts is its own program's, also after it has
\* slept (wait_until).
THEOREM SockActsOnOwn ==
    ASSUME Risky = {}
    PROVE  Spec => []ActsOnOwn
  <1>1. SInv => ActsOnOwn
    BY DEF SInv
  <1> QED
    BY <1>1, SockInvariant, PTL

\* Who is told of the end of a stream has had all of it, and the reason it ended
\* for, if there was one, is with the socket or found at its next look at the
\* connection, a reset always before (sock_recv, refresh).
THEOREM SockEndOrReason ==
    ASSUME Risky = {}
    PROVE  Spec => EndOrReason
  <1>1. SInv /\ [Next]_<<setup, vars>> =>
          [\A t \in Threads, i \in Slots :
             th'[t].end /\ ~th[t].end /\ th'[t].i = i => Explained(i)']_vars
    <2> SUFFICES ASSUME SInv, [Next]_<<setup, vars>>, ~(UNCHANGED vars)
                 PROVE  \A t \in Threads : Told(t)
      BY DEF Told
    <2>1. Next
      OBVIOUS
    <2> QED
      BY <2>1, NextKeeps
  <1> QED
    BY <1>1, SockInvariant, PTL DEF Spec, EndOrReason

=============================================================================
