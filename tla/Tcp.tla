-------------------------------- MODULE Tcp ---------------------------------
(***************************************************************************)
(* TCP (net/net.c): one connection from its SYN to the release of both     *)
(* ends, over a network that loses, repeats and reorders segments.         *)
(*                                                                         *)
(* Both ends run this code.  End "A" opens the connection and writes; end  *)
(* "B" listens, accepts and reads; either may shut its side, release its   *)
(* handle or reset the connection at any time.  An end has one connection  *)
(* slot.  Everything here runs under the kernel lock: a call, a segment    *)
(* that arrives and a timer that runs out are one step each.               *)
(*                                                                         *)
(* The bytes of the stream are numbered, byte k being the k-th written, so *)
(* that one at the wrong place shows.  Sequence numbers keep their wrap.   *)
(* Checksums, addresses and ports are left out (one connection), and so is *)
(* time: a timer that is armed may run out whenever it likes.              *)
(***************************************************************************)
EXTENDS Integers, Sequences, FiniteSets, FiniteSetsExt

CONSTANTS
    Mod,        \* sequence numbers there are: 2^32
    Iss,        \* Iss[e]: the sequence number the first connection of end e begins with
    Mss,        \* TCP_MSS, for both ends
    RxCap,      \* rx_cap
    TxCap,      \* TCP_TX_CAP
    CwndMax,    \* where the congestion window stops growing, and starts
    Retries,    \* TCP_RETRIES
    SynRetries, \* the five times a SYN is asked again
    HeldMax,    \* TCP_HELD
    DupAcks,    \* the third repeat of an acknowledgement
    Bytes,      \* bound: bytes A writes
    Writes,     \* bound: how many at a time
    Reads,      \* bound: how many B reads at a time
    Faults      \* bound: segments lost, repeated or overtaken, timers that run
                \* out with something still on its way, and connections thrown
                \* away (Abort, Unlisten), taken together

Ends == {"A", "B"}
Other(e) == IF e = "A" THEN "B" ELSE "A"

ASSUME TcpAssumption ==
    /\ Mod \in Nat /\ Mod > 2 * (RxCap + Bytes + 2) /\ Iss \in [Ends -> 0..(Mod - 1)]
    /\ Mss \in Nat \ {0} /\ RxCap \in Nat \ {0} /\ TxCap \in Nat \ {0} /\ CwndMax \in Nat \ {0}
    /\ Retries \in Nat /\ SynRetries \in Nat /\ HeldMax \in Nat /\ DupAcks \in Nat
    /\ Bytes \in Nat /\ Writes \subseteq Nat \ {0} /\ Reads \subseteq Nat \ {0} /\ Faults \in Nat

VARIABLES
    conn,       \* conn[e]: the connection of end e
    listen,     \* the listener of B: whether it is open and what it has queued
    mine,       \* mine[e]: whether a program has, or has had, the handle of end e
    clock,      \* clock[e]: the first sequence number its next connection gets
    net,        \* net[e]: the segments on their way to end e, in the order sent
    wrote,      \* how many bytes A has written
    got,        \* the bytes B's program has read
    faults      \* how many of Faults have happened

vars == <<conn, listen, mine, clock, net, wrote, got, faults>>

----------------------------------------------------------------------------
(* Sequence numbers and small helpers.                                     *)

Least(a, b) == IF a < b THEN a ELSE b
Most(a, b) == IF a > b THEN a ELSE b

Plus(s, n) == (s + n) % Mod

\* seqdiff
Diff(a, b) == LET d == (a - b) % Mod IN IF d < Mod \div 2 THEN d ELSE d - Mod

NoConn == [st |-> "closed", up |-> FALSE, rcv |-> 0, rx |-> [i \in 0..(RxCap - 1) |-> 0],
           head |-> 0, len |-> 0, rclosed |-> FALSE, held |-> {}, adv |-> 0,
           una |-> 0, nxt |-> 0, max |-> 0, tx |-> <<>>, wnd |-> 0, cwnd |-> 0,
           dups |-> 0, finwant |-> FALSE, finsent |-> FALSE, finseq |-> 0,
           armed |-> FALSE, retries |-> 0, err |-> "none", orphan |-> FALSE, iss |-> 0]

Open(c) == c.st \in {"estab", "closing"}

\* How far past rcv the data goes that is held.
Reach(c) == Max({0} \cup {Diff(p, c.rcv) + 1 : p \in c.held})

\* tcp_seg: what it tells the other end, and that the window was told.
Window(c) == IF c.up THEN RxCap - c.len ELSE 0

Segment(c, flags, seq, data) ==
    [flags |-> flags, seq |-> seq, ack |-> c.rcv, win |-> Window(c), data |-> data]

\* A handler works on a connection and the segments it has sent so far.
Said(r, flags, seq) ==
    [c |-> [r.c EXCEPT !.adv = Window(r.c)], out |-> Append(r.out, Segment(r.c, flags, seq, <<>>))]

\* tcp_out with a bare acknowledgement
Acked(r) == Said(r, {"ack"}, r.c.nxt)

----------------------------------------------------------------------------
(* Sending.                                                                *)

\* How many bytes tcp_push may send, and what has been sent already.
Sent(c) == Diff(c.nxt, c.una)
Sendable(c) == Most(0, Least(Len(c.tx), Least(c.wnd, c.cwnd)) - Sent(c))

\* The segments for t bytes of the queue from offset s on.
Cut(c, s, t) ==
    [i \in 1..((t + Mss - 1) \div Mss) |->
        Segment(c, {"ack"}, Plus(c.una, s + (i - 1) * Mss),
                SubSeq(c.tx, s + (i - 1) * Mss + 1, s + Least(t, i * Mss)))]

\* t bytes are sent, and the FIN after them if `fin`; nxt is where they end.
SendUpTo(r, t, fin, nxt) ==
    LET end == IF fin THEN Plus(nxt, 1) ELSE nxt
    IN  [c |-> [r.c EXCEPT !.nxt = end,
                           !.max = IF Diff(end, @) > 0 THEN end ELSE @,
                           !.armed = @ \/ t > 0 \/ fin,
                           !.adv = IF t > 0 \/ fin THEN Window(r.c) ELSE @,
                           !.finsent = fin,
                           !.finseq = IF fin THEN nxt ELSE @,
                           !.st = IF fin THEN "closing" ELSE @],
         out |-> r.out \o Cut(r.c, Sent(r.c), t)
                   \o IF fin THEN <<Segment(r.c, {"fin", "ack"}, nxt, <<>>)>> ELSE <<>>]

\* tcp_push: what the windows allow, then the FIN.
Push(r) ==
    LET t == Sendable(r.c)
    IN  IF ~Open(r.c) \/ r.c.finsent THEN r
        ELSE SendUpTo(r, t, r.c.finwant /\ Sent(r.c) + t = Len(r.c.tx), Plus(r.c.nxt, t))

\* tcp_resend_first
ResendFirst(r) ==
    IF r.c.tx = <<>> THEN r
    ELSE [c |-> [r.c EXCEPT !.adv = Window(r.c)],
          out |-> Append(r.out, Segment(r.c, {"ack"}, r.c.una,
                                 SubSeq(r.c.tx, 1, Least(Len(r.c.tx), Mss))))]

\* tcp_dead
Dead(c, err) ==
    [c EXCEPT !.st = "closed", !.rclosed = TRUE, !.armed = FALSE,
              !.err = IF @ = "none" THEN err ELSE @]

\* tcp_close
Close(c) ==
    IF Open(c) THEN Push([c |-> [c EXCEPT !.finwant = TRUE], out |-> <<>>])
    ELSE [c |-> IF c.st = "closed" THEN c ELSE Dead(c, "none"), out |-> <<>>]

\* tcp_timeout
Timeout(c) ==
    LET opening == c.st \in {"synsent", "synrcvd"}
        again == [c EXCEPT !.retries = @ + 1]
        idle == Sent(c) <= 0 /\ ~(c.wnd = 0 /\ c.tx # <<>>)
        back == [again EXCEPT !.nxt = c.una, !.finsent = FALSE, !.cwnd = Mss, !.armed = FALSE,
                              !.st = IF @ = "closing" /\ ~c.finwant THEN "estab" ELSE @,
                              !.wnd = IF @ = 0 THEN 1 ELSE @]
        pushed == Push([c |-> back, out |-> <<>>])
        syn == Said([c |-> again, out |-> <<>>],
                    IF c.st = "synsent" THEN {"syn"} ELSE {"syn", "ack"}, c.iss)
    IN  IF again.retries > (IF opening THEN SynRetries ELSE Retries)
        THEN [c |-> Dead(again, "timeout"), out |-> <<>>]
        ELSE IF opening THEN syn
        ELSE IF idle THEN [c |-> [again EXCEPT !.armed = FALSE], out |-> <<>>]
        ELSE [pushed EXCEPT !.c.wnd = c.wnd, !.c.armed = TRUE]

----------------------------------------------------------------------------
(* Receiving.                                                              *)

\* tcp_reset_reply, for a segment that belongs to nothing here.
Reset(m) ==
    [win |-> 0, data |-> <<>>,
     flags |-> IF "ack" \in m.flags THEN {"rst"} ELSE {"rst", "ack"},
     seq |-> IF "ack" \in m.flags THEN m.ack ELSE 0,
     ack |-> IF "ack" \in m.flags THEN 0
             ELSE Plus(m.seq, Len(m.data) + IF "syn" \in m.flags THEN 1 ELSE 0)]

\* A new slot, as tcp_alloc leaves it, and a connection in it.
Fresh(e, st) ==
    [NoConn EXCEPT !.up = TRUE, !.st = st, !.iss = clock[e], !.una = clock[e],
                   !.nxt = Plus(clock[e], 1), !.max = Plus(clock[e], 1), !.armed = TRUE]

\* tcp_passive, with a slot to put the connection in.
Passive(e, m) ==
    LET c == [Fresh(e, "synrcvd") EXCEPT !.rcv = Plus(m.seq, 1), !.wnd = m.win,
                                         !.cwnd = CwndMax]
    IN  Said([c |-> c, out |-> <<>>], {"syn", "ack"}, c.iss)

\* What the peer has acknowledged of ours.
TakeAck(r, m) ==
    LET c == r.c
        n == Diff(m.ack, c.una)
        fin == c.finsent /\ Diff(m.ack, c.finseq) > 0
        data == Least(Len(c.tx), IF fin THEN n - 1 ELSE n)
        nxt == IF Diff(c.nxt, m.ack) < 0 THEN m.ack ELSE c.nxt
        repeat == /\ m.data = <<>> /\ m.flags = {"ack"} /\ m.win = c.wnd
                  /\ Sent(c) > 0
    IN  IF "ack" \notin m.flags THEN r
        ELSE IF n > 0 /\ Diff(m.ack, c.max) <= 0
        THEN [r EXCEPT !.c = [c EXCEPT
                  !.tx = SubSeq(@, data + 1, Len(@)), !.una = m.ack, !.nxt = nxt,
                  !.retries = 0, !.dups = 0, !.cwnd = IF @ < CwndMax THEN @ + Mss ELSE @,
                  !.armed = Diff(nxt, m.ack) > 0, !.wnd = m.win]]
        ELSE IF n = 0
        THEN LET counted == [r EXCEPT !.c.dups = IF repeat THEN Least(@ + 1, DupAcks + 1) ELSE @]
                 resent == IF repeat /\ counted.c.dups = DupAcks /\ c.dups < DupAcks
                           THEN ResendFirst(counted) ELSE counted
             IN  [resent EXCEPT !.c.wnd = m.win]
        ELSE r

\* The ranges of held data there are: where one begins.
Ranges(held) == Cardinality({p \in held : (p - 1) % Mod \notin held})

\* tcp_hold: noted, unless it would be one range too many.
Hold(held, new) == IF Ranges(held \cup new) > HeldMax THEN held ELSE held \cup new

\* How far the data from rcv on is there without a gap.
Joined(c) == Max({n \in 0..Reach(c) : \A k \in 0..(n - 1) : Plus(c.rcv, k) \in c.held})

\* Mutant: what was held past the gap is left where it was.
CarelessCompact(c) ==
    [c EXCEPT !.head = 0,
              !.rx = [i \in DOMAIN @ |-> IF i < c.len THEN @[i + c.head] ELSE @[i]]]

\* tcp_compact
Compact(c) ==
    [c EXCEPT !.head = 0,
              !.rx = [i \in DOMAIN @ |-> IF i < c.len + Reach(c) THEN @[i + c.head] ELSE @[i]]]

\* How much of n bytes there is room for.
Taken(c, ahead, n) ==
    LET space == RxCap - c.head - c.len
    IN  IF ahead >= space THEN 0 ELSE Least(n, space - ahead)

\* What was held and now follows without a gap joins the stream.
JoinHeld(c) ==
    LET gain == Joined(c)
    IN  [c EXCEPT !.len = @ + gain, !.rcv = Plus(@, gain),
                  !.held = {p \in @ : Diff(p, Plus(c.rcv, gain)) > 0}]

\* The first n bytes of data, put `ahead` of what is expected next.
Put(c, ahead, data, n) ==
    LET at == c.head + c.len + ahead
        put == [c EXCEPT !.rx = [i \in DOMAIN @ |->
                    IF i \in at..(at + n - 1) THEN data[i - at + 1] ELSE @[i]]]
    IN  IF n = 0 THEN c
        ELSE IF ahead = 0 THEN JoinHeld([put EXCEPT !.len = @ + n, !.rcv = Plus(@, n)])
        ELSE [put EXCEPT !.held = Hold(@, {Plus(c.rcv, ahead + i) : i \in 0..(n - 1)})]

\* The data of a segment: less what is here already, put at its place; in
\* order it joins what was held, past a gap it is held.
MakeRoom(c, n) == IF RxCap - c.head - c.len < n /\ c.head > 0 THEN Compact(c) ELSE c
PutWhatFits(c, ahead, data) == Put(c, ahead, data, Taken(c, ahead, Len(data)))
TakeData(c, seq, all) ==
    LET late == Most(0, -Diff(seq, c.rcv))
        data == SubSeq(all, late + 1, Len(all))
        ahead == IF late > 0 THEN 0 ELSE Diff(seq, c.rcv)
    IN  IF data = <<>> THEN c
        ELSE PutWhatFits(MakeRoom(c, ahead + Len(data)), ahead, data)

\* orphan_done
FinAcked(c) == c.finsent /\ Diff(c.una, c.finseq) > 0
OrphanDone(c) == c.orphan /\ (c.st = "closed" \/ (FinAcked(c) /\ c.rclosed))

\* Mutant: a FIN ends the stream although something before it is missing.
HastyFinNow(c, at) == ~c.rclosed /\ Diff(at, c.rcv) >= 0

\* A FIN counts once everything before it has arrived.
FinNow(c, at) == ~c.rclosed /\ at = c.rcv

\* The data is taken, unless the stream has ended, and answered; nobody reads
\* what an orphan receives.
Discard(r) == IF r.c.orphan THEN [r EXCEPT !.c.head = 0, !.c.len = 0] ELSE r
TakePayload(r, m) ==
    IF m.data = <<>> THEN r
    ELSE IF r.c.rclosed THEN Acked(r)
    ELSE Discard(Acked([r EXCEPT !.c = TakeData(r.c, m.seq, m.data)]))

\* The FIN of a segment, at its place in the stream or seen before.
TakeFin(r, m) ==
    LET at == Plus(m.seq, Len(m.data))
    IN  IF "fin" \notin m.flags THEN r
        ELSE IF FinNow(r.c, at)
        THEN Acked([r EXCEPT !.c.rcv = Plus(@, 1), !.c.rclosed = TRUE])
        ELSE IF r.c.rclosed /\ Diff(Plus(at, 1), r.c.rcv) <= 0 THEN Acked(r)
        ELSE r

\* tcp_input on an open connection, from the acknowledgement on.
Established(r, m) == Push(TakeFin(TakePayload(TakeAck(r, m), m), m))

\* tcp_input on a connection that is still opening.
Opening(r, m) ==
    LET c == r.c
        first == Plus(c.iss, 1)
        up == [c EXCEPT !.st = "estab", !.una = m.ack, !.retries = 0, !.armed = FALSE]
    IN  IF c.st = "synsent"
        THEN IF {"syn", "ack"} \subseteq m.flags /\ m.ack = first
             THEN Push(Acked([r EXCEPT !.c = [up EXCEPT !.rcv = Plus(m.seq, 1),
                      !.nxt = m.ack, !.max = m.ack, !.wnd = m.win, !.cwnd = CwndMax]]))
             ELSE r
        ELSE IF m.flags = {"syn"} THEN Said(r, {"syn", "ack"}, c.iss)
        ELSE IF "ack" \notin m.flags \/ m.ack # first THEN r
        ELSE Established([r EXCEPT !.c = up], m)

----------------------------------------------------------------------------
(* What happens.                                                           *)

\* The connection of end e becomes r.c, and r.out is sent; left is what is left
\* on its way to e.
Becomes(e, r, left) ==
    /\ conn' = [conn EXCEPT ![e] = r.c]
    /\ net' = [net EXCEPT ![e] = left, ![Other(e)] = @ \o r.out]

\* tcp_release and tcp_input's last line.
Settled(r) == IF OrphanDone(r.c) THEN [r EXCEPT !.c = NoConn] ELSE r

\* A segment for a connection that is there.
Handled(c, m) ==
    LET r == [c |-> c, out |-> <<>>]
    IN  IF "rst" \in m.flags
        THEN [r EXCEPT !.c = Dead(@, IF c.st = "synsent" THEN "refused" ELSE "reset")]
        ELSE IF c.st \in {"synsent", "synrcvd"} THEN Opening(r, m)
        ELSE Settled(Established(r, m))

\* A connection of the listener that is open now is queued.
BecomesQueued(e, r, left) ==
    /\ Becomes(e, r, left)
    /\ listen' = IF conn[e].st = "synrcvd" /\ Open(r.c) /\ listen.open
                 THEN [listen EXCEPT !.queued = TRUE] ELSE listen

Input(e, m, left) ==
    /\ conn[e].st # "closed"
    /\ BecomesQueued(e, Handled(conn[e], m), left)
    /\ UNCHANGED clock

\* A segment for none: for a SYN there may be a listener with room, and a slot.
Stray(e, m, left) ==
    /\ conn[e].st = "closed"
    /\ LET free == ~conn[e].up \/ conn[e].orphan
           room == m.flags = {"syn"} /\ e = "B" /\ listen.open
           r == IF "rst" \in m.flags THEN [c |-> conn[e], out |-> <<>>]
                ELSE IF room /\ free /\ ~listen.queued THEN Passive(e, m)
                ELSE [c |-> conn[e], out |-> <<Reset(m)>>]
       IN  /\ Becomes(e, r, left)
           /\ clock' = [clock EXCEPT ![e] = IF r.c.iss # @ \/ r.c = conn[e] THEN @ ELSE Plus(@, 5)]
    /\ UNCHANGED listen

\* The i-th segment on its way to e arrives.
Arrives(e, i, left) ==
    /\ i <= Len(net[e])
    /\ \/ Input(e, net[e][i], left) \/ Stray(e, net[e][i], left)
    /\ UNCHANGED <<mine, wrote, got>>

Deliver(e) ==
    /\ Arrives(e, 1, Tail(net[e]))
    /\ UNCHANGED faults

Fault == faults < Faults /\ faults' = faults + 1

\* It overtakes the one before it; or a copy of it is still on its way; or it
\* is lost.
Overtake(e) == Fault /\ Arrives(e, 2, <<Head(net[e])>> \o SubSeq(net[e], 3, Len(net[e])))
Repeat(e) == Fault /\ Arrives(e, 1, net[e])
Lose(e) ==
    /\ Fault /\ net[e] # <<>>
    /\ net' = [net EXCEPT ![e] = Tail(@)]
    /\ UNCHANGED <<conn, listen, mine, clock, wrote, got>>

Quiet == \A e \in Ends : net[e] = <<>>

\* Time passes until nothing is on its way, and until the other condition, or
\* not quite so much.
Waited(other) == IF other /\ Quiet THEN UNCHANGED faults ELSE Fault

\* tcp_timers: the retransmission timer of end e.
Expire(e) ==
    /\ conn[e].armed /\ conn[e].st # "closed"
    /\ Waited(TRUE)
    /\ Becomes(e, Timeout(conn[e]), net[e])
    /\ UNCHANGED <<listen, mine, clock, wrote, got>>

\* tcp_timers: a connection nobody holds is done, or has lingered enough.
Linger(e) ==
    /\ conn[e].orphan
    /\ IF OrphanDone(conn[e]) THEN UNCHANGED faults ELSE Waited(~conn[e].armed)
    /\ LET c == conn[e]
           rst == IF OrphanDone(c) \/ FinAcked(c) THEN <<>>
                  ELSE <<Segment(c, {"rst", "ack"}, c.nxt, <<>>)>>
       IN  Becomes(e, [c |-> NoConn, out |-> rst], net[e])
    /\ UNCHANGED <<listen, mine, clock, wrote, got>>

\* tcp_start
Start ==
    /\ mine["A"] = "never"
    /\ Becomes("A", Said([c |-> Fresh("A", "synsent"), out |-> <<>>], {"syn"}, clock["A"]), net["A"])
    /\ mine' = [mine EXCEPT !["A"] = "now"]
    /\ UNCHANGED <<listen, clock, wrote, got, faults>>

\* net_tcp_send_some
Write(n) ==
    /\ mine["A"] = "now" /\ conn["A"].st = "estab" /\ ~conn["A"].finwant
    /\ n <= TxCap - Len(conn["A"].tx) /\ wrote + n <= Bytes
    /\ LET more == [conn["A"] EXCEPT !.tx = @ \o [i \in 1..n |-> wrote + i]]
       IN  Becomes("A", Push([c |-> more, out |-> <<>>]), net["A"])
    /\ wrote' = wrote + n
    /\ UNCHANGED <<listen, mine, clock, got, faults>>

\* Mutant: the sender is not told about room it cannot see.
SilentConsume(n) ==
    /\ mine["B"] = "now" /\ n <= conn["B"].len
    /\ LET c == conn["B"]
       IN  /\ got' = got \o [i \in 1..n |-> c.rx[c.head + i - 1]]
           /\ conn' = [conn EXCEPT !["B"].len = @ - n,
                  !["B"].head = IF c.len = n /\ c.held = {} THEN 0 ELSE @ + n]
    /\ UNCHANGED <<listen, mine, clock, net, wrote, faults>>

\* net_tcp_consume, of n bytes
Consume(n) ==
    /\ mine["B"] = "now" /\ n <= conn["B"].len
    /\ LET c == conn["B"]
           less == [c EXCEPT !.len = @ - n,
                             !.head = IF c.len = n /\ c.held = {} THEN 0 ELSE @ + n]
           told == Open(c) /\ ~c.rclosed /\ Window(less) - c.adv >= 2 * Mss
           r == [c |-> less, out |-> <<>>]
       IN  /\ got' = got \o [i \in 1..n |-> c.rx[c.head + i - 1]]
           /\ Becomes("B", IF told THEN Acked(r) ELSE r, net["B"])
    /\ UNCHANGED <<listen, mine, clock, wrote, faults>>

\* net_tcp_accept
Accept ==
    /\ listen.open /\ listen.queued
    /\ listen' = [listen EXCEPT !.queued = FALSE]
    /\ mine' = [mine EXCEPT !["B"] = "now"]
    /\ got' = <<>>
    /\ UNCHANGED <<conn, clock, net, wrote, faults>>

\* net_tcp_shutdown
Shutdown(e) ==
    /\ mine[e] = "now" /\ ~conn[e].finwant
    /\ Becomes(e, Close(conn[e]), net[e])
    /\ UNCHANGED <<listen, mine, clock, wrote, got, faults>>

\* net_tcp_release
Release(e) ==
    /\ mine[e] = "now"
    /\ LET r == Close(conn[e])
       IN  Becomes(e, [r EXCEPT !.c = IF Open(r.c)
                                      THEN [r.c EXCEPT !.orphan = TRUE, !.head = 0, !.len = 0]
                                      ELSE NoConn], net[e])
    /\ mine' = [mine EXCEPT ![e] = "then"]
    /\ UNCHANGED <<listen, clock, wrote, got, faults>>

\* net_tcp_abort
Aborted(e) ==
    [c |-> NoConn,
     out |-> IF conn[e].st = "closed" THEN <<>>
             ELSE <<Segment(conn[e], {"rst", "ack"}, conn[e].nxt, <<>>)>>]

Abort(e) ==
    /\ mine[e] = "now" /\ Fault
    /\ Becomes(e, Aborted(e), net[e])
    /\ mine' = [mine EXCEPT ![e] = "then"]
    /\ UNCHANGED <<listen, clock, wrote, got>>

\* net_tcp_unlisten
Unlisten ==
    /\ listen.open /\ Fault
    /\ listen' = [open |-> FALSE, queued |-> FALSE]
    /\ IF listen.queued \/ conn["B"].st = "synrcvd" THEN Becomes("B", Aborted("B"), net["B"])
       ELSE UNCHANGED <<conn, net>>
    /\ UNCHANGED <<mine, clock, wrote, got>>

----------------------------------------------------------------------------

Init ==
    /\ conn = [e \in Ends |-> NoConn]
    /\ listen = [open |-> TRUE, queued |-> FALSE]
    /\ mine = [e \in Ends |-> "never"]
    /\ clock = Iss
    /\ net = [e \in Ends |-> <<>>]
    /\ wrote = 0
    /\ got = <<>>
    /\ faults = 0

Programs ==
    \/ Start \/ Accept \/ Unlisten
    \/ \E n \in Writes : Write(n)
    \/ \E n \in Reads : Consume(n)
    \/ \E e \in Ends : Shutdown(e) \/ Release(e) \/ Abort(e)

Next ==
    \/ \E e \in Ends : Deliver(e) \/ Overtake(e) \/ Repeat(e) \/ Lose(e) \/ Expire(e) \/ Linger(e)
    \/ Programs

Spec == Init /\ [][Next]_vars

\* The network delivers and timers run out (net_poll, from every call that
\* waits and from the scheduler's loop), and B's program accepts and reads:
\* none of it can be due for ever and not happen.  This is weak fairness of
\* Deliver, Expire, Accept and Consume, with what enables them written out.
FairSpec ==
    /\ Spec
    /\ \A e \in Ends : []<>(net[e] = <<>>) \/ []<><<net[e]' = Tail(net[e])>>_net
    /\ \A e \in Ends : []<>~(conn[e].armed /\ Quiet)
    /\ []<>~listen.queued
    /\ []<>~(mine["B"] = "now" /\ conn["B"].len > 0)

----------------------------------------------------------------------------
(* Properties.                                                             *)

\* The bytes B has taken in, read or not.
Unread == LET c == conn["B"] IN [i \in 1..c.len |-> c.rx[c.head + i - 1]]
Received == Len(got) + conn["B"].len

\* Variables have their types and the receive buffer is kept within.
TypeOK ==
    /\ wrote \in 0..Bytes /\ got \in Seq(1..Bytes)
    /\ \A e \in Ends :
        LET c == conn[e] IN
        /\ c.st \in {"closed", "synsent", "synrcvd", "estab", "closing"}
        /\ {c.rcv, c.una, c.nxt, c.max} \subseteq 0..(Mod - 1)
        /\ c.head \in Nat /\ c.len \in Nat /\ c.head + c.len + Reach(c) <= RxCap
        /\ Len(c.tx) <= TxCap

\* While the stream is held by B's program: what it has read, what it has not
\* read yet and what is held past a gap are the bytes that were written, each
\* at its place.
Stream ==
    mine["B"] = "now" =>
        LET c == conn["B"] IN
        /\ \A i \in 1..Len(got) : got[i] = i
        /\ \A i \in 1..c.len : Unread[i] = Len(got) + i
        /\ Received <= wrote
        /\ \A p \in c.held : c.rx[c.head + c.len + Diff(p, c.rcv)] = Received + Diff(p, c.rcv) + 1

\* The stream ends for B's program only where A has ended it: no error and no
\* more to come mean that every byte written has arrived.
WholeAtEnd ==
    (mine["B"] = "now" /\ conn["B"].rclosed /\ conn["B"].err = "none") =>
        conn["B"].held = {} /\ Received = wrote

\* A byte leaves A's queue only when B has it.
KeptUntilReceived ==
    (mine["B"] = "now" /\ conn["A"].up /\ Open(conn["A"])) => wrote - Len(conn["A"].tx) <= Received

\* Every byte is at its place at B, or still A's to send again.
StreamKept == TypeOK /\ Stream /\ KeptUntilReceived

\* The connection is over for B, or for A.
Over == conn["B"].orphan \/ \E e \in Ends : conn[e].st = "closed"

\* B has said that its window is open again and A does not know: nothing is on
\* its way, and no timer of A will ask.
ShutOut ==
    /\ conn["A"].tx # <<>> /\ conn["A"].wnd = 0 /\ ~conn["A"].armed
    /\ conn["B"].adv > 0 /\ Quiet

\* What is written arrives, whatever the network does, also past a window that
\* was full: unless one of the ends gives up, or what B said when it made room
\* was lost and A is shut out for ever.
Delivered == (wrote > 0 ~> (Received = wrote \/ Over)) \/ <>[]ShutOut

=============================================================================
