------------------------ MODULE MCTCPConnectionTimed ------------------------
(* Instances of TCPConnectionTimed for TLC. *)
EXTENDS TCPConnectionTimed

(* The initial sequence numbers wrap early in both directions. *)
MCIsn == [e \in Ends |-> IF e = Client THEN 14 ELSE 15]

MCStream == [e \in Ends |-> IF e = Client THEN << 1 >> ELSE << 2 >>]

=============================================================================
