---------------------------- MODULE TCPReceiver -----------------------------
(***************************************************************************)
(* The class TCPReceiver (libsponge/tcp_receiver.hh, .cc): turns inbound   *)
(* segments into substrings for its StreamReassembler, and computes the    *)
(* acknowledgment number and the window to advertise.                      *)
(***************************************************************************)
EXTENDS StreamReassembler, WrappingIntegers, TCPSegment

CONSTANT SIZE_MAX   \* numeric_limits<size_t>::max(), what 0 - 1 wraps to

(* The value of _ISN before a SYN arrives. *)
nullopt == -1

NewTCPReceiver(capacity) ==
  [reassembler |-> NewStreamReassembler(capacity), isn |-> nullopt]

stream_out(rcv) == rcv.reassembler.output

has_isn(rcv) == rcv.isn # nullopt

(* Faulty: acknowledges the FIN before the bytes ahead of it. *)
abs_ackno_by_eof(rcv) ==
  rcv.reassembler.assembled_bytes + num(has_isn(rcv)) + num(rcv.reassembler.eof)

(* TCPReceiver::_ackno: absolute. *)
abs_ackno(rcv) ==
  rcv.reassembler.assembled_bytes + num(has_isn(rcv)) + num(empty(rcv.reassembler))

(* TCPReceiver::ackno, defined when has_isn(rcv). *)
ackno(rcv) == wrap(abs_ackno(rcv), rcv.isn)

(* Faulty: takes waiting bytes off the window. *)
window_size_less_waiting(rcv) ==
  remaining_capacity(stream_out(rcv)) - unassembled_bytes(rcv.reassembler)

window_size(rcv) == remaining_capacity(stream_out(rcv))

LISTEN(rcv) == ~has_isn(rcv)

SYN_RECV(rcv) == has_isn(rcv) /\ ~stream_out(rcv).end

FIN_RECV(rcv) == stream_out(rcv).end

(***************************************************************************)
(* Lines 27-41, the segment in a receiver that has the ISN: not entirely   *)
(* old, and starting inside the window, unless it is a bare acknowledgment *)
(* that meets a window of zero.                                            *)
(***************************************************************************)
abs_seqno(rcv, seg) == unwrap(seg.seqno, rcv.isn, abs_ackno(rcv))

(* Faulty: refuses the last byte of the window. *)
in_window_one_less(rcv, seg) ==
  LET first == abs_seqno(rcv, seg)
  IN  /\ first + Len(seg.payload) + num(seg.syn) >= abs_ackno(rcv)
      /\ \/ first < abs_ackno(rcv) + window_size(rcv) - 1
         \/ window_size(rcv) = 0 /\ length_in_sequence_space(seg) = 0

in_window(rcv, seg) ==
  LET first == abs_seqno(rcv, seg)
  IN  /\ first + Len(seg.payload) + num(seg.syn) >= abs_ackno(rcv)
      /\ \/ first < abs_ackno(rcv) + window_size(rcv)
         \/ window_size(rcv) = 0 /\ length_in_sequence_space(seg) = 0

(* Faulty: forgets that the SYN takes a sequence number. *)
stream_index_without_syn(rcv, seg) == abs_seqno(rcv, seg)

stream_index(rcv, seg) ==
  LET first == abs_seqno(rcv, seg)
  IN  IF seg.syn THEN first ELSE IF first = 0 THEN SIZE_MAX ELSE first - 1

push_payload(rcv, seg) ==
  [rcv EXCEPT !.reassembler =
     push_substring(@, seg.payload, stream_index(rcv, seg), seg.fin)]

(***************************************************************************)
(* TCPReceiver::segment_received: the receiver after it, and the value it  *)
(* returns.                                                                *)
(***************************************************************************)
accept(rcv, seg) ==
  IF seg.fin /\ FIN_RECV(rcv) THEN [self |-> rcv, result |-> FALSE]
  ELSE IF ~SYN_RECV(rcv) THEN [self |-> rcv, result |-> TRUE]
  ELSE IF ~in_window(rcv, seg) THEN [self |-> rcv, result |-> FALSE]
  ELSE [self |-> push_payload(rcv, seg), result |-> TRUE]

segment_received(rcv, seg) ==
  LET synced == [rcv EXCEPT !.isn = seg.seqno]
  IN  IF seg.syn
        THEN IF ~LISTEN(rcv) THEN [self |-> rcv, result |-> FALSE]
             ELSE IF length_in_sequence_space(seg) = 1
                    THEN [self |-> synced, result |-> TRUE]
                    ELSE accept(synced, seg)
        ELSE IF LISTEN(rcv) THEN [self |-> rcv, result |-> FALSE]
             ELSE accept(rcv, seg)

=============================================================================
