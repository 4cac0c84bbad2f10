------------------------------- MODULE MCSock -------------------------------
(* Program a has two threads, program b one.  The bounds let a socket be      *)
(* closed under a sleeping call of one program and its connection be had by   *)
(* the other (Readers); a queue of a listener fill, and its socket be closed  *)
(* under an accept (Servers).                                                 *)
EXTENDS Sock, TLC

CONSTANTS a, a2, b
MCMain == a :> a @@ a2 :> a @@ b :> b

Readers == [type |-> "stream", open |-> <<a, b>>, calls |-> 4, does |-> {"connect", "recv", "close"}]
Writers == [type |-> "stream", open |-> <<a>>, calls |-> 3,
            does |-> {"open", "connect", "send", "shutdown", "recv", "timeout"}]
Watchers == [type |-> "stream", open |-> <<a>>, calls |-> 3,
             does |-> {"open", "connect", "recv", "poll", "error", "nonblock"}]
Servers == [type |-> "stream", open |-> <<a>>, calls |-> 6,
            does |-> {"bind", "listen", "accept", "recv", "close"}]
Posters == [type |-> "dgram", open |-> <<a, b>>, calls |-> 4,
            does |-> {"open", "bind", "connect", "recv", "poll", "close", "nonblock"}]
MCSetups == {Readers, Writers, Watchers, Servers, Posters}
=============================================================================
