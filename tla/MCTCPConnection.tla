--------------------------- MODULE MCTCPConnection --------------------------
(* Instances of TCPConnectionSpec for TLC. *)
EXTENDS TCPConnectionSpec

(* The initial sequence numbers wrap early in both directions. *)
MCIsn == [e \in Ends |-> IF e = Client THEN 14 ELSE 15]

(* Two bytes one way, and two segments at a time under way with them. *)
MCStream == [e \in Ends |-> IF e = Client THEN << 1, 2 >> ELSE << >>]

MCInFlight == [e \in Ends |-> IF e = Client THEN 1 ELSE 2]

=============================================================================
