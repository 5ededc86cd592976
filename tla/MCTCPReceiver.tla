--------------------------- MODULE MCTCPReceiver ----------------------------
(* TLC instances of TCPReceiverSpec. *)
EXTENDS TCPReceiverSpec

MCStream == [i \in 1..16 |-> 10 + i]
=============================================================================
