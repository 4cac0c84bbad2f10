------------------------------- MODULE MCTcp --------------------------------
(* Tcp with sequence numbers that wrap within the connection.              *)
EXTENDS Tcp
MCIss == [e \in Ends |-> IF e = "A" THEN 17 ELSE 19]
=============================================================================
