-------------------------- MODULE MCTCPSpongeSocket -------------------------
(* Instances of TCPSpongeSocket for TLC. *)
EXTENDS TCPSpongeSocket

MCOwnerData == << 1 >>

MCPeerData == << 3, 4 >>

MCLocal == [host |-> "here", port |-> 1]

MCSenders == [host : {"peer"}, port : {1, 2}]

(* Accepting over IP, where both addresses are learned, and connecting. *)
MCStarts == { [accepts |-> TRUE, over |-> "ip"], [accepts |-> FALSE, over |-> "udp"] }

=============================================================================
