---------------------------- MODULE MCStreamCopy ----------------------------
(* Instances of StreamCopy for TLC. *)
EXTENDS StreamCopy

MCInput == << 1, 2 >>

MCAnswer == << 3, 4 >>
=============================================================================
