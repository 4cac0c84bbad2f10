-------------------------------- MODULE Sock --------------------------------
(***************************************************************************)
(* The sockets of programs (kernel/net/sock.c) over the tables of net.c:   *)
(* TCP connections, listeners and UDP ports.  A call runs under the kernel *)
(* lock until it returns or sleeps; a sleeping one keeps a pointer to the  *)
(* slot of its socket, and goes on with whatever the slot holds when it    *)
(* wakes.  The threads of a program share its sockets.                     *)
(*                                                                         *)
(* Module Tcp has what a connection does on the wire.  Here it is what the *)
(* socket sees of it: whether it is up, bytes to read, room to write, the  *)
(* end of the stream, the reason it died.                                  *)
(***************************************************************************)
EXTENDS Naturals, FiniteSets, Sequences

CONSTANTS
  Threads,
  Main,       \* Main[t]: the main thread of t's program, which names it
  Slots,      \* SOCK_MAX, numbers from 1
  Handles,    \* TCP_CONNS
  Listeners,  \* TCP_LISTENERS
  Udps,       \* UDP_SOCKS
  Ports,      \* ports a program binds to
  TxCap,      \* TCP_TX_CAP
  Backlog,    \* of every sock_listen
  Setups,     \* what the programs do: the type of their sockets, the owners of
              \* those already open, the calls they make and (a bound) how many
  Risky       \* situations the environment may bring about, see below

(* Situations in which the code is known not to keep its word.             *)
(*   "reuse"    the slot of a socket closed under a wait is given out      *)
(*              before the waiting thread has looked                       *)
(*   "outlive"  a thread opens a socket after its program has ended        *)
ASSUME SockAssumption ==
  /\ Threads # {} /\ Main \in [Threads -> Threads] /\ \A t \in Threads : Main[Main[t]] = Main[t]
  /\ Slots \subseteq Nat \ {0} /\ Handles \subseteq Nat \ {0}
  /\ Listeners \subseteq Nat \ {0} /\ Udps \subseteq Nat \ {0}
  /\ IsFiniteSet(Handles) /\ IsFiniteSet(Udps) /\ IsFiniteSet(Ports)
  /\ Ports \subseteq Nat \ {0} /\ TxCap \in Nat \ {0} /\ Backlog \in Nat \ {0}
  /\ \A s \in Setups : /\ s.type \in {"stream", "dgram"} /\ s.calls \in Nat
                       /\ s.open \in Seq({Main[t] : t \in Threads}) /\ 1..Len(s.open) \subseteq Slots
                       /\ s.does \subseteq {"open", "bind", "listen", "accept", "connect", "send", "recv",
                                          "shutdown", "close", "error", "poll", "nonblock", "timeout"}
  /\ Risky \subseteq {"reuse", "outlive"}

VARIABLES
  sk,         \* the socket table
  conn,       \* conns
  lsn,        \* the listeners: q is the queue of those to be accepted
  usk,        \* the UDP ports
  th,         \* th[t]: what the thread is doing
  setup,      \* what the programs do
  calls       \* how many calls there have been

tables == <<sk, conn, lsn, usk>>
vars == <<tables, th, calls>>

None == 0
Lowest(S) == CHOOSE x \in S : \A y \in S : x <= y
Programs == {Main[t] : t \in Threads}

NoSock == [used |-> FALSE, type |-> "stream", owner |-> CHOOSE p \in Programs : TRUE,
           state |-> "free", port |-> 0, h |-> None, lsn |-> None, u |-> None,
           opts |-> {}, rd |-> FALSE, wr |-> FALSE, err |-> "none"]
\* `by` is the program a connection is for (it is only written).
NoConn == [st |-> "free", fin |-> FALSE, rx |-> 0, eof |-> FALSE, tx |-> 0, err |-> "none",
           lsn |-> None, by |-> {}]
NoLsn == [used |-> FALSE, port |-> 0, q |-> <<>>]
NoUdp == [used |-> FALSE, port |-> 0, n |-> 0]

\* `from` is the program whose connection or port the last call had to do with,
\* `end` whether it was told of the end of the stream (both only written).
Running == [at |-> "user", k |-> "none", i |-> None, for |-> "none", left |-> 0,
            end |-> FALSE, from |-> {}]

-----------------------------------------------------------------------------
(* The network below.                                                       *)

FreeHandles == {h \in Handles : conn[h].st = "free"}

\* conn_of: a handle given back leads nowhere.
Conn(h) == IF h = None THEN [NoConn EXCEPT !.st = "dead", !.eof = TRUE]
           ELSE IF conn[h].st \in {"free", "orphan"} THEN [NoConn EXCEPT !.st = "dead", !.eof = TRUE]
           ELSE conn[h]

\* tcp_dead
Dead(c, err) == [c EXCEPT !.st = "dead", !.eof = TRUE, !.err = IF @ = "none" THEN err ELSE @]

\* net_tcp_release: what is still to be sent goes first.
Released(c) == IF c.st = "open" THEN [c EXCEPT !.st = "orphan", !.fin = TRUE, !.rx = 0, !.by = {}] ELSE NoConn

\* The handshake of a connection we began ends; an established one brings data,
\* its end, room to write, or a reset; an orphan is let go of.
Answered(h) ==
  /\ conn[h].st = "syn"
  /\ \/ conn' = [conn EXCEPT ![h].st = "open"]
     \/ conn' = [conn EXCEPT ![h] = Dead(@, "other")]
  /\ UNCHANGED <<sk, lsn, usk, th>>
Carries(h) ==
  LET c == conn[h]
  IN  /\ c.st = "open"
      /\ \/ ~c.eof /\ c.rx = 0 /\ conn' = [conn EXCEPT ![h].rx = 1]
         \/ ~c.eof /\ conn' = [conn EXCEPT ![h].eof = TRUE]
         \/ c.tx > 0 /\ conn' = [conn EXCEPT ![h].tx = 0]
         \/ \E e \in {"reset", "other"} : conn' = [conn EXCEPT ![h] = Dead(@, e)]
      /\ UNCHANGED <<sk, lsn, usk, th>>
LetGo(h) ==
  /\ conn[h].st = "orphan"
  /\ conn' = [conn EXCEPT ![h] = NoConn]
  /\ UNCHANGED <<sk, lsn, usk, th>>

\* tcp_passive: a SYN for a listener; then the rest of the handshake.
Half(L) == {h \in Handles : conn[h].st = "half" /\ conn[h].lsn = L}
Owners(L) == {sk[i].owner : i \in {j \in Slots : sk[j].used /\ sk[j].state = "listen" /\ sk[j].lsn = L}}
Syn(L) ==
  /\ lsn[L].used
  /\ Len(lsn[L].q) + Cardinality(Half(L)) < Backlog
  /\ FreeHandles # {}
  /\ conn' = [conn EXCEPT ![Lowest(FreeHandles)] =
                [NoConn EXCEPT !.st = "half", !.lsn = L, !.by = Owners(L)]]
  /\ UNCHANGED <<sk, lsn, usk, th>>
\* It is queued; or it gives up, and nobody has its handle any more.
Completes(h) ==
  /\ conn[h].st = "half"
  /\ conn' = [conn EXCEPT ![h].st = "open"]
  /\ lsn' = [lsn EXCEPT ![conn[h].lsn].q = Append(@, h)]
  /\ UNCHANGED <<sk, usk, th>>
FailsHalfway(h) ==
  /\ conn[h].st = "half"
  /\ conn' = [conn EXCEPT ![h] = Dead(@, "other")]
  /\ UNCHANGED <<sk, lsn, usk, th>>

\* udp_deliver: one that finds the queue full is lost.
Datagram(u) ==
  /\ usk[u].used /\ usk[u].n = 0
  /\ usk' = [usk EXCEPT ![u].n = 1]
  /\ UNCHANGED <<sk, conn, lsn, th>>

\* net_udp_open, with a port or (0) any that is free; None when there is none.
UdpOpen(port) ==
  LET free == {u \in Udps : ~usk[u].used}
      taken == {usk[u].port : u \in {v \in Udps : usk[v].used}}
  IN  IF free = {} \/ (port # 0 /\ port \in taken) THEN None ELSE Lowest(free)
AnyPort == Lowest({p \in 1..(Cardinality(Udps) + Cardinality(Ports) + 1) :
                     p \notin Ports /\ \A u \in Udps : usk[u].used => usk[u].port # p})

-----------------------------------------------------------------------------
(* Sockets.                                                                 *)

\* Mutant: whose it is, is not looked at.
AnyonesMine(t, i) == sk[i].used

\* get
Mine(t, i) == sk[i].used /\ sk[i].owner = Main[t]

\* Mutants: the reason an established connection died is not kept; a connect
\* that failed is not seen.
ForgetfulRefresh(s) ==
  LET c == Conn(s.h)
  IN  IF s.type = "dgram" \/ s.state # "connecting" THEN s
      ELSE CASE c.st = "open" -> [s EXCEPT !.state = "connected"]
             [] c.st = "dead" -> [s EXCEPT !.state = "dead", !.err = IF c.err = "none" THEN "reset" ELSE c.err]
             [] OTHER -> s
HopefulRefresh(s) ==
  LET c == Conn(s.h)
  IN  IF s.type = "dgram" THEN s
      ELSE IF s.state = "connecting" /\ c.st = "open" THEN [s EXCEPT !.state = "connected"]
      ELSE IF s.state = "connected" /\ c.st = "dead" /\ s.err = "none" THEN [s EXCEPT !.err = c.err]
      ELSE s

\* refresh: a connection under way, or one that died.
Refresh(s) ==
  LET c == Conn(s.h)
  IN  IF s.type = "dgram" THEN s
      ELSE IF s.state = "connecting" /\ c.st = "open" THEN [s EXCEPT !.state = "connected"]
      ELSE IF s.state = "connecting" /\ c.st = "dead"
        THEN [s EXCEPT !.state = "dead", !.err = IF c.err = "none" THEN "reset" ELSE c.err]
      ELSE IF s.state = "connected" /\ c.st = "dead" /\ s.err = "none" THEN [s EXCEPT !.err = c.err]
      ELSE s

\* revents_of, on a socket that has been refreshed.
Hup(s) == /\ s.type = "stream"
          /\ \/ s.state \notin {"listen", "connecting", "connected"}
             \/ s.state = "connected" /\ Conn(s.h).st = "dead"
In(s) ==
  IF s.type = "dgram" THEN s.u # None /\ usk[s.u].n > 0
  ELSE CASE s.state = "listen" -> lsn[s.lsn].q # <<>>
         [] s.state = "connected" -> Conn(s.h).rx > 0 \/ Conn(s.h).eof \/ s.rd
         [] OTHER -> s.state = "dead"
Out(s) ==
  IF s.type = "dgram" THEN TRUE
  ELSE IF s.state = "connected" THEN Conn(s.h).st # "dead" /\ ~s.wr /\ Conn(s.h).tx < TxCap
  ELSE s.state \notin {"listen", "connecting"}

\* ready_in, ready_out, ready_conn
Ready(s, for) ==
  CASE for = "in" -> In(s) \/ Hup(s)
    [] for = "out" -> Out(s) \/ Hup(s)
    [] for = "conn" -> s.state # "connecting"

-----------------------------------------------------------------------------
(* How a call ends, and how it sleeps.                                      *)

Returns(t) == th' = [th EXCEPT ![t] = Running]
From(t, who) == th' = [th EXCEPT ![t] = [Running EXCEPT !.from = who]]
Ends(t, i) == th' = [th EXCEPT ![t] = [Running EXCEPT !.end = TRUE, !.i = i]]
Sleeps(t, k, i, for, left) ==
  th' = [th EXCEPT ![t] = [Running EXCEPT !.at = "wait", !.k = k, !.i = i, !.for = for, !.left = left]]

\* wait_for, the first time round: not at all where the socket or the call may
\* not block.
WaitFor(t, k, i, s, for, left) ==
  /\ IF "nonblock" \in s.opts /\ for # "conn" THEN Returns(t) ELSE Sleeps(t, k, i, for, left)
  /\ sk' = [sk EXCEPT ![i] = s]
  /\ UNCHANGED <<conn, lsn, usk>>

\* sock_open: the first slot free.
FreeSlot == {i \in Slots : ~sk[i].used}
Waited(i) == \E t \in Threads : th[t].at = "wait" /\ th[t].i = i
MayOpen == FreeSlot # {} => ("reuse" \in Risky \/ ~Waited(Lowest(FreeSlot)))

Opened(t, s) == [sk EXCEPT ![Lowest(FreeSlot)] = [s EXCEPT !.used = TRUE, !.owner = Main[t]]]

\* net_tcp_unlisten, net_tcp_release and net_udp_close for the sockets in S.
Aborted(L) == {lsn[L].q[k] : k \in 1..Len(lsn[L].q)} \cup Half(L)

\* Mutant: the connections nobody has accepted stay.
LeakyFreed(S) ==
  LET streams == {i \in S : sk[i].type = "stream"}
      Ls == {sk[i].lsn : i \in {j \in streams : sk[j].state = "listen"}}
      hs == {sk[i].h : i \in streams} \ {None}
      us == {sk[i].u : i \in S \ streams} \ {None}
  IN  /\ conn' = [h \in Handles |-> IF h \in hs THEN Released(conn[h]) ELSE conn[h]]
      /\ lsn' = [L \in Listeners |-> IF L \in Ls THEN NoLsn ELSE lsn[L]]
      /\ usk' = [u \in Udps |-> IF u \in us THEN NoUdp ELSE usk[u]]
      /\ sk' = [i \in Slots |-> IF i \in S THEN [sk[i] EXCEPT !.used = FALSE, !.state = "free"] ELSE sk[i]]

\* sock_free; the slot keeps what else was in it.
Freed(S) ==
  LET streams == {i \in S : sk[i].type = "stream"}
      Ls == {sk[i].lsn : i \in {j \in streams : sk[j].state = "listen"}}
      hs == {sk[i].h : i \in streams} \ {None}
      us == {sk[i].u : i \in S \ streams} \ {None}
      aborted == UNION {Aborted(L) : L \in Ls}
  IN  /\ conn' = [h \in Handles |-> IF h \in aborted THEN NoConn
                                    ELSE IF h \in hs THEN Released(conn[h]) ELSE conn[h]]
      /\ lsn' = [L \in Listeners |-> IF L \in Ls THEN NoLsn ELSE lsn[L]]
      /\ usk' = [u \in Udps |-> IF u \in us THEN NoUdp ELSE usk[u]]
      /\ sk' = [i \in Slots |-> IF i \in S THEN [sk[i] EXCEPT !.used = FALSE, !.state = "free"] ELSE sk[i]]

-----------------------------------------------------------------------------
(* The calls.  A sleeping call goes on in Wake with the same parts.         *)

InUser(t) == th[t].at = "user"
Alive(t) == th[t].at # "ended"

Open(t, type) ==
  /\ InUser(t) /\ FreeSlot # {} /\ MayOpen
  /\ "outlive" \in Risky \/ Alive(Main[t])
  /\ sk' = Opened(t, [NoSock EXCEPT !.type = type, !.state = "new"])
  /\ Returns(t)
  /\ UNCHANGED <<conn, lsn, usk>>

\* sock_bind; a datagram socket takes its port at once.
Bound(i, port) ==
  LET u == UdpOpen(port)
      p == IF port = 0 THEN AnyPort ELSE port
  IN  /\ u # None
      /\ usk' = [usk EXCEPT ![u] = [used |-> TRUE, port |-> p, n |-> 0]]
      /\ sk' = [sk EXCEPT ![i].u = u, ![i].port = p]
Bind(t, i, port) ==
  /\ InUser(t) /\ Mine(t, i)
  /\ sk[i].state = "new" /\ sk[i].port = 0 /\ sk[i].u = None
  /\ IF sk[i].type = "dgram" THEN Bound(i, port)
     ELSE sk' = [sk EXCEPT ![i].port = port] /\ UNCHANGED usk
  /\ Returns(t)
  /\ UNCHANGED <<conn, lsn>>

\* sock_listen, net_tcp_listen
Listen(t, i) ==
  LET free == {L \in Listeners : ~lsn[L].used}
  IN  /\ InUser(t) /\ Mine(t, i)
      /\ sk[i].type = "stream" /\ sk[i].state = "new" /\ sk[i].port # 0
      /\ \A L \in Listeners : lsn[L].used => lsn[L].port # sk[i].port
      /\ free # {}
      /\ lsn' = [lsn EXCEPT ![Lowest(free)] = [NoLsn EXCEPT !.used = TRUE, !.port = sk[i].port]]
      /\ sk' = [sk EXCEPT ![i].lsn = Lowest(free), ![i].state = "listen"]
      /\ Returns(t)
      /\ UNCHANGED <<conn, usk>>

\* The rest of sock_accept: a socket for the oldest connection, or it is thrown
\* away when there is none.
AcceptNow(t, i) ==
  LET L == sk[i].lsn
      h == Head(lsn[L].q)
  IN  IF L = None \/ lsn[L].q = <<>> THEN Returns(t) /\ UNCHANGED tables ELSE
      /\ lsn' = [lsn EXCEPT ![L].q = Tail(@)]
      /\ IF FreeSlot = {} THEN /\ conn' = [conn EXCEPT ![h] = NoConn]
                               /\ Returns(t)
                               /\ UNCHANGED sk
         ELSE /\ conn' = [conn EXCEPT ![h].lsn = None]
              /\ sk' = Opened(t, [NoSock EXCEPT !.h = h, !.state = "connected"])
              /\ From(t, conn[h].by)
      /\ UNCHANGED usk
Accept(t, i) ==
  /\ InUser(t) /\ Mine(t, i) /\ sk[i].state = "listen"
  /\ IF lsn[sk[i].lsn].q = <<>> THEN WaitFor(t, "accept", i, sk[i], "in", 0)
     ELSE MayOpen /\ AcceptNow(t, i)

\* sock_connect.  A datagram socket only notes a peer, and gets a port for the
\* answers.
ConnectTold(t, i, s) ==
  /\ sk' = [sk EXCEPT ![i] = IF s.state = "connected" THEN s ELSE [s EXCEPT !.err = "none"]]
  /\ Returns(t)
  /\ UNCHANGED <<conn, lsn, usk>>
Connect(t, i) ==
  LET s == Refresh(sk[i])
      h == Lowest(FreeHandles)
      begun == [s EXCEPT !.h = h, !.state = "connecting"]
  IN  /\ InUser(t) /\ Mine(t, i) /\ s.type = "stream"
      /\ \/ /\ s.state # "new" /\ (s.state = "connecting" => "nonblock" \in s.opts)
            /\ sk' = [sk EXCEPT ![i] = s]
            /\ Returns(t)
            /\ UNCHANGED <<conn, lsn, usk>>
         \/ s.state = "connecting" /\ "nonblock" \notin s.opts /\ WaitFor(t, "connect", i, s, "conn", 0)
         \/ /\ s.state = "new" /\ FreeHandles # {}
            /\ conn' = [conn EXCEPT ![h] = [NoConn EXCEPT !.st = "syn", !.by = {Main[t]}]]
            /\ sk' = [sk EXCEPT ![i] = begun]
            /\ IF "nonblock" \in s.opts THEN Returns(t) ELSE Sleeps(t, "connect", i, "conn", 0)
            /\ UNCHANGED <<lsn, usk>>
ConnectUdp(t, i) ==
  /\ InUser(t) /\ Mine(t, i) /\ sk[i].type = "dgram" /\ sk[i].u = None
  /\ Bound(i, 0)
  /\ Returns(t)
  /\ UNCHANGED <<conn, lsn>>

\* The loop of sock_send with `left` bytes to go, on the socket s in slot i.
SendOn(t, i, s, left) ==
  LET c == Conn(s.h)
      n == IF left < TxCap - c.tx THEN left ELSE TxCap - c.tx
  IN  IF s.state # "connected" \/ s.wr \/ c.st # "open" \/ c.fin
        THEN /\ sk' = [sk EXCEPT ![i] = Refresh(s)]
             /\ Returns(t)
             /\ UNCHANGED <<conn, lsn, usk>>
        ELSE /\ conn' = [conn EXCEPT ![s.h].tx = @ + n]
             /\ sk' = [sk EXCEPT ![i] = s]
             /\ IF n < left /\ "nonblock" \notin s.opts
                THEN Sleeps(t, "send", i, "out", left - n)
                ELSE From(t, c.by)
             /\ UNCHANGED <<lsn, usk>>
Send(t, i, len) ==
  LET s == Refresh(sk[i])
  IN  /\ InUser(t) /\ Mine(t, i) /\ s.type = "stream"
      /\ IF s.state = "connecting" /\ "nonblock" \notin s.opts
         THEN WaitFor(t, "send", i, s, "conn", len)
         ELSE SendOn(t, i, s, len)

\* The rest of sock_recv once there is something, or nothing more to come.
Take(t, i, s) ==
  LET c == Conn(s.h)
  IN  /\ sk' = [sk EXCEPT ![i] = s]
      /\ IF c.rx > 0
         THEN conn' = [conn EXCEPT ![s.h].rx = 0] /\ From(t, c.by)
         ELSE /\ IF c.err = "reset" /\ s.err = "none" THEN Returns(t) ELSE Ends(t, i)
              /\ UNCHANGED conn
      /\ UNCHANGED <<lsn, usk>>

\* The middle of it, on a socket whose handshake is over.
RecvOn(t, i, s) ==
  \/ /\ s.state = "dead"
     /\ sk' = [sk EXCEPT ![i] = [s EXCEPT !.err = "none"]]
     /\ IF s.err = "none" THEN Ends(t, i) ELSE Returns(t)
     /\ UNCHANGED <<conn, lsn, usk>>
  \/ /\ s.state \notin {"dead", "connected"} \/ (s.state = "connected" /\ s.rd)
     /\ sk' = [sk EXCEPT ![i] = s]
     /\ IF s.state = "connected" THEN Ends(t, i) ELSE Returns(t)
     /\ UNCHANGED <<conn, lsn, usk>>
  \/ /\ s.state = "connected" /\ ~s.rd
     /\ IF Conn(s.h).rx > 0 \/ Conn(s.h).eof THEN Take(t, i, s) ELSE WaitFor(t, "recv", i, s, "in", 0)
Recv(t, i) ==
  LET s == Refresh(sk[i])
  IN  /\ InUser(t) /\ Mine(t, i) /\ s.type = "stream"
      /\ IF s.state = "connecting" /\ "nonblock" \notin s.opts
         THEN WaitFor(t, "recv", i, s, "conn", 0)
         ELSE RecvOn(t, i, s)

\* The connection dies in the net_poll between the look at the socket and the
\* look at it: a reset comes in, or its timer gives up (tcp_timers).
RecvDies(t, i, e) ==
  LET s == Refresh(sk[i])
      c == Dead(conn[s.h], e)
  IN  /\ InUser(t) /\ Mine(t, i) /\ s.type = "stream" /\ s.state = "connected" /\ ~s.rd
      /\ Conn(s.h).st = "open" /\ Conn(s.h).rx = 0
      /\ conn' = [conn EXCEPT ![s.h] = c]
      /\ sk' = [sk EXCEPT ![i] = s]
      /\ IF c.err = "reset" /\ s.err = "none" THEN Returns(t) ELSE Ends(t, i)
      /\ UNCHANGED <<lsn, usk>>

TakeDatagram(t, i) ==
  IF sk[i].u = None THEN Returns(t) /\ UNCHANGED tables ELSE
  /\ usk' = [usk EXCEPT ![sk[i].u].n = 0]
  /\ From(t, {sk[i].owner})
  /\ UNCHANGED <<sk, conn, lsn>>
RecvUdp(t, i) ==
  /\ InUser(t) /\ Mine(t, i) /\ sk[i].type = "dgram"
  /\ IF sk[i].u = None
     THEN /\ Bound(i, 0)
          /\ IF "nonblock" \in sk[i].opts THEN Returns(t) ELSE Sleeps(t, "recvfrom", i, "in", 0)
          /\ UNCHANGED <<conn, lsn>>
     ELSE IF usk[sk[i].u].n > 0 THEN TakeDatagram(t, i)
     ELSE WaitFor(t, "recvfrom", i, sk[i], "in", 0)

\* sock_shutdown: of reading, of writing.
Shutdown(t, i, rd, wr) ==
  LET s == sk[i]
  IN  /\ InUser(t) /\ Mine(t, i) /\ s.type = "stream" /\ s.state = "connected"
      /\ sk' = [sk EXCEPT ![i].rd = @ \/ rd, ![i].wr = @ \/ wr]
      /\ IF wr /\ ~s.wr /\ Conn(s.h).st = "open"
         THEN conn' = [conn EXCEPT ![s.h].fin = TRUE] ELSE UNCHANGED conn
      /\ Returns(t)
      /\ UNCHANGED <<lsn, usk>>

Close(t, i) ==
  /\ InUser(t) /\ Mine(t, i)
  /\ Freed({i})
  /\ Returns(t)

SetOpt(t, i, o) ==
  /\ InUser(t) /\ Mine(t, i) /\ o \notin sk[i].opts
  /\ sk' = [sk EXCEPT ![i].opts = @ \cup {o}]
  /\ Returns(t)
  /\ UNCHANGED <<conn, lsn, usk>>

\* sock_getopt(SKO_ERROR): the error that is waiting is told.
SoError(t, i) ==
  LET s == Refresh(sk[i])
  IN  /\ InUser(t) /\ Mine(t, i)
      /\ sk' = [sk EXCEPT ![i] = [s EXCEPT !.err = "none"]]
      /\ Returns(t)
      /\ UNCHANGED <<conn, lsn, usk>>

\* sock_poll of one socket, for reading; every look goes by its number again.
Scan(t, i) == Mine(t, i) => In(Refresh(sk[i])) \/ Hup(Refresh(sk[i]))
Looked(t, i) == IF Mine(t, i) THEN [sk EXCEPT ![i] = Refresh(@)] ELSE sk
Poll(t, i) ==
  /\ InUser(t) /\ Mine(t, i)
  /\ sk' = Looked(t, i)
  /\ IF Scan(t, i) THEN Returns(t) ELSE Sleeps(t, "poll", i, "in", 0)
  /\ UNCHANGED <<conn, lsn, usk>>

\* process_notify_exit, on its own or by a signal: the sockets go with the
\* program, whose other threads go on.
Exit(t) ==
  /\ Alive(t)
  /\ IF t = Main[t] THEN Freed({i \in Slots : sk[i].used /\ sk[i].owner = t}) ELSE UNCHANGED tables
  /\ th' = [th EXCEPT ![t] = [Running EXCEPT !.at = "ended"]]

-----------------------------------------------------------------------------
(* A thread in wait_until wakes from its tick of sleep.                     *)

Asleep(t) == th[t].at = "wait"

\* A signal with a handler; or the socket was closed.
Interrupted(t) ==
  /\ Asleep(t)
  /\ Returns(t)
  /\ UNCHANGED tables

\* "closed meanwhile (by another thread of the program) is -EBADF"
FoundClosed(t) == th[t].k # "poll" /\ ~sk[th[t].i].used

WakeClosed(t) ==
  /\ Asleep(t) /\ FoundClosed(t)
  /\ Returns(t)
  /\ UNCHANGED tables

\* Not ready yet, and its time is up.
WakeLate(t) ==
  LET i == th[t].i
      s == Refresh(sk[i])
  IN  /\ Asleep(t) /\ ~FoundClosed(t)
      /\ IF th[t].k = "poll" THEN ~Scan(t, i) /\ sk' = Looked(t, i)
         ELSE "timeout" \in s.opts /\ th[t].for # "conn" /\ ~Ready(s, th[t].for) /\ sk' = [sk EXCEPT ![i] = s]
      /\ Returns(t)
      /\ UNCHANGED <<conn, lsn, usk>>

\* Ready: the call goes on where it slept.
WakeReady(t) ==
  LET i == th[t].i
      s == Refresh(sk[i])
  IN  /\ Asleep(t) /\ ~FoundClosed(t)
      /\ IF th[t].k = "poll" THEN Scan(t, i) ELSE Ready(s, th[t].for)
      /\ CASE th[t].k = "poll" -> sk' = Looked(t, i) /\ Returns(t) /\ UNCHANGED <<conn, lsn, usk>>
           [] th[t].k = "accept" -> MayOpen /\ AcceptNow(t, i)
           [] th[t].k = "connect" -> ConnectTold(t, i, s)
           [] th[t].k = "send" -> SendOn(t, i, s, th[t].left)
           [] th[t].k = "recvfrom" -> TakeDatagram(t, i)
           [] th[t].k = "recv" /\ th[t].for = "conn" -> RecvOn(t, i, s)
           [] th[t].k = "recv" /\ th[t].for = "in" -> Take(t, i, s)

Wakes(t) == WakeClosed(t) \/ WakeReady(t) \/ WakeLate(t)

-----------------------------------------------------------------------------
Init ==
  /\ setup \in Setups /\ calls = 0
  /\ sk = [i \in Slots |-> IF i > Len(setup.open) THEN NoSock
                           ELSE [NoSock EXCEPT !.used = TRUE, !.state = "new", !.type = setup.type,
                                               !.owner = setup.open[i]]]
  /\ conn = [h \in Handles |-> NoConn]
  /\ lsn = [L \in Listeners |-> NoLsn]
  /\ usk = [u \in Udps |-> NoUdp]
  /\ th = [t \in Threads |-> Running]

Network ==
  \/ \E h \in Handles : Answered(h) \/ Carries(h) \/ LetGo(h) \/ Completes(h) \/ FailsHalfway(h)
  \/ \E L \in Listeners : Syn(L)
  \/ \E u \in Udps : Datagram(u)

Does(call) == call \in setup.does
Calls(t) ==
  \/ Does("open") /\ Open(t, setup.type)
  \/ \E i \in Slots :
       \/ Does("listen") /\ Listen(t, i)
       \/ Does("accept") /\ Accept(t, i)
       \/ Does("connect") /\ (Connect(t, i) \/ ConnectUdp(t, i))
       \/ Does("recv") /\ (Recv(t, i) \/ RecvUdp(t, i) \/ \E e \in {"reset", "other"} : RecvDies(t, i, e))
       \/ Does("close") /\ Close(t, i)
       \/ Does("error") /\ SoError(t, i)
       \/ Does("poll") /\ Poll(t, i)
       \/ Does("bind") /\ \E p \in Ports : Bind(t, i, p)
       \/ Does("send") /\ \E n \in 1..(TxCap + 1) : Send(t, i, n)
       \/ Does("shutdown") /\ \E rd, wr \in BOOLEAN : Shutdown(t, i, rd, wr)
       \/ \E o \in {"nonblock", "timeout"} : Does(o) /\ SetOpt(t, i, o)

Next ==
  /\ UNCHANGED setup
  /\ \/ UNCHANGED calls /\ (Network \/ \E t \in Threads : Exit(t) \/ Interrupted(t) \/ Wakes(t))
     \/ calls < setup.calls /\ calls' = calls + 1 /\ \E t \in Threads : Calls(t)

Spec == Init /\ [][Next]_<<setup, vars>>

\* A sleeping thread wakes at its next tick; a SYN that is not answered is given
\* up after five ("The handshake gives up by itself").
Fairness == /\ \A t \in Threads : WF_vars(Wakes(t) /\ UNCHANGED calls)
            /\ \A h \in Handles : WF_vars(Answered(h) /\ UNCHANGED calls)
FairSpec == Spec /\ Fairness

-----------------------------------------------------------------------------
(* Properties.                                                              *)

\* The tables hold what their fields allow: in particular no more waits to be
\* sent or accepted than there is room for.
TypeOK ==
  /\ sk \in [Slots -> [used : BOOLEAN, type : {"stream", "dgram"}, owner : Threads,
                       state : {"free", "new", "listen", "connecting", "connected", "dead"},
                       port : Nat, h : Handles \cup {None}, lsn : Listeners \cup {None},
                       u : Udps \cup {None}, opts : SUBSET {"nonblock", "timeout"}, rd : BOOLEAN, wr : BOOLEAN,
                       err : {"none", "reset", "other"}]]
  /\ conn \in [Handles -> [st : {"free", "syn", "half", "open", "orphan", "dead"}, fin : BOOLEAN,
                           rx : 0..1, eof : BOOLEAN, tx : 0..TxCap, err : {"none", "reset", "other"},
                           lsn : Listeners \cup {None}, by : SUBSET Programs]]
  /\ \A L \in Listeners : /\ lsn[L].used \in BOOLEAN /\ lsn[L].port \in Nat
                           /\ lsn[L].q \in Seq(Handles) /\ Len(lsn[L].q) <= Backlog
  /\ usk \in [Udps -> [used : BOOLEAN, port : Nat, n : 0..1]]
  /\ th \in [Threads -> [at : {"user", "wait", "ended"},
                         k : {"none", "accept", "connect", "send", "recv", "recvfrom", "poll"},
                         i : Slots \cup {None}, for : {"none", "in", "out", "conn"},
                         left : 0..(TxCap + 1), end : BOOLEAN, from : SUBSET Programs]]
  /\ setup \in Setups /\ calls \in 0..setup.calls

\* Everything that has the handle h: a socket, a place in a listener's queue,
\* the handshake of a listener, or the linger of a connection given back.
HoldersOf(h) ==
  {<<"socket", i>> : i \in {j \in Slots : sk[j].used /\ sk[j].type = "stream" /\ sk[j].h = h}}
  \cup {e \in {"queue"} \X Listeners \X (1..Backlog) :
          e[3] <= Len(lsn[e[2]].q) /\ lsn[e[2]].q[e[3]] = h}
  \cup {<<st>> : st \in {conn[h].st} \cap {"half", "orphan"}}

\* A connection that gave up before it was queued is never let go of: it is
\* closed, but neither half open nor an orphan.
Forgotten(h) == conn[h].st = "dead" /\ conn[h].lsn # None /\ HoldersOf(h) = {}

\* Nothing of the network is lost or had twice, however sockets are accepted,
\* closed and taken down with their program: a connection in use has exactly one
\* holder, and one that is free none; a listener and a UDP port in use are one
\* socket's.  sock_free and net_tcp_unlisten are what gives them back.
OneHolder ==
  /\ \A h \in Handles : IF conn[h].st = "free" \/ Forgotten(h) THEN HoldersOf(h) = {}
                         ELSE Cardinality(HoldersOf(h)) = 1
  /\ \A L \in Listeners : lsn[L].used <=>
        Cardinality({i \in Slots : sk[i].used /\ sk[i].state = "listen" /\ sk[i].lsn = L}) = 1
  /\ \A u \in Udps : usk[u].used <=>
        Cardinality({i \in Slots : sk[i].used /\ sk[i].type = "dgram" /\ sk[i].u = u}) = 1

\* What a call reads, sends on or accepts is its own program's, also when it
\* slept and its socket was closed meanwhile by another thread (wait_until).
ActsOnOwn == \A t \in Threads : th[t].from \subseteq {Main[t]}

\* "closed when that program ends, however it ends" (sock.h): no socket is left
\* of a program that is gone, whichever of its threads opened or accepted it.
ClosedWithProgram == \A i \in Slots : sk[i].used => Alive(Main[sk[i].owner])

\* What the network gives has one holder, a socket of a program that is alive,
\* and is given back with it.
Accounted == TypeOK /\ OneHolder /\ ClosedWithProgram

\* "the end, or the reason it ended" (sock_recv): who is told of the end of a
\* stream has had all that came, and it ended in order or the reason is there for
\* SKO_ERROR to tell: a reset as noted before, anything else at the latest when
\* SKO_ERROR looks (refresh) -- but for one who stopped reading itself, or whose
\* connect failed (the socket is then dead, and the reason was told).
Explained(i) ==
  LET s == sk[i]
      c == Conn(s.h)
  IN  \/ s.rd
      \/ s.state = "dead"
      \/ /\ c.rx = 0
         /\ \/ c.err = "none" /\ c.eof
            \/ s.err # "none"
            \/ c.err = "other" /\ Refresh(s).err = "other"
EndOrReason ==
  [][\A t \in Threads, i \in Slots :
       th'[t].end /\ ~th[t].end /\ th'[t].i = i => Explained(i)']_vars

\* No call sleeps for ever on a connection that will say no more: one that waits
\* for a handshake, and one whose connection has died or whose socket was closed
\* under it, returns.
Hopeless(t) ==
  /\ th[t].at = "wait" /\ th[t].k \notin {"poll", "accept", "recvfrom"}
  /\ th[t].for = "conn" \/ ~sk[th[t].i].used \/ Conn(sk[th[t].i].h).st = "dead"
WaitEnds == \A t \in Threads : Hopeless(t) ~> ~Hopeless(t)
=============================================================================
