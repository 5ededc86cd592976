----------------------------- MODULE TCPSegment -----------------------------
(***************************************************************************)
(* The parts of a TCP segment that the endpoints look at or fill in        *)
(* (libsponge/tcp_helpers/tcp_segment.hh, tcp_header.hh), with the         *)
(* defaults of a fresh TCPSegment.                                         *)
(***************************************************************************)
EXTENDS Integers, Sequences

NewSegment ==
  [seqno |-> 0, ackno |-> 0, win |-> 0, payload |-> << >>,
   syn |-> FALSE, fin |-> FALSE, ack |-> FALSE, rst |-> FALSE]

(* C++'s conversion of a bool to a number. *)
num(b) == IF b THEN 1 ELSE 0

length_in_sequence_space(seg) ==
  Len(seg.payload) + num(seg.syn) + num(seg.fin)

=============================================================================
