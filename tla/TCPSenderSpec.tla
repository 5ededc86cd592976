--------------------------- MODULE TCPSenderSpec ----------------------------
(***************************************************************************)
(* A TCPSender between an application that writes Stream and then ends it, *)
(* and a peer whose acknowledgments may be late, repeated, or in the       *)
(* middle of a segment.  Each action is one call by the TCPConnection that *)
(* owns the sender, with the fill_window that follows it there, and ends   *)
(* with the owner collecting segments_out.                                 *)
(***************************************************************************)
EXTENDS TCPSender

CONSTANTS Stream,        \* the bytes the application writes
          Isn,           \* the sender's initial sequence number
          Capacity,      \* of the outbound stream
          Timeout,       \* the initial retransmission timeout
          WriteLens,     \* lengths of the application's writes
          Windows,       \* windows the peer may advertise
          Ticks          \* milliseconds between two ticks

ASSUME StreamAssumption == Stream \in Seq(Nat) /\ Isn \in WrappingInt32
ASSUME CapacityAssumption == Capacity \in Nat
ASSUME TimeAssumption == Timeout \in Nat \ {0} /\ Ticks \subseteq Nat
ASSUME InputAssumption == WriteLens \subseteq Nat /\ Windows \subseteq Nat

VARIABLES s,           \* the sender
          out,         \* the segments collected by the last action
          edge,        \* history: the highest ackno + window the peer advertised
          overtaken    \* history: has an overtaken acknowledgment arrived?

vars == << s, out, edge, overtaken >>

N == Len(Stream)

larger(a, b) == IF a >= b THEN a ELSE b

(* Before any acknowledgment the sender assumes a window of one. *)
Init ==
  /\ s = NewTCPSender(Capacity, Timeout, Isn)
  /\ out = << >> /\ edge = 1 /\ overtaken = FALSE

(* TCPConnection::collect_output. *)
Collect(x) == s' = [x EXCEPT !.segments_out = << >>] /\ out' = x.segments_out

(* TCPConnection::connect, or the SYN of the peer in LISTEN. *)
Open ==
  /\ CLOSED(s)
  /\ Collect(fill_window(s))
  /\ UNCHANGED << edge, overtaken >>

(* TCPConnection::write; the socket writes nothing after the end. *)
Write(len) ==
  /\ ~s.stream.end
  /\ s.stream.byte_written + len <= N
  /\ Collect(fill_window([s EXCEPT !.stream =
       write(@, SubSeq(Stream, @.byte_written + 1, @.byte_written + len))]))
  /\ UNCHANGED << edge, overtaken >>

(* TCPConnection::end_input_stream. *)
EndInput ==
  /\ Collect(fill_window([s EXCEPT !.stream = end_input(@)]))
  /\ UNCHANGED << edge, overtaken >>

(***************************************************************************)
(* An acknowledgment of everything before a, with window w.  A receiver    *)
(* never moves its ackno or its right edge back (WindowNeverShrinks in     *)
(* TCPReceiverSpec), so one that was overtaken is behind in both; one of   *)
(* something never sent must be ignored.                                   *)
(***************************************************************************)
Fresh(a, w) == a >= s.ackno /\ a + w >= edge /\ a <= s.next_seqno

Overtaken(a, w) == 1 <= a /\ a <= s.ackno /\ a + w <= edge

Ack(a, w) ==
  /\ ~CLOSED(s)
  /\ Fresh(a, w) \/ Overtaken(a, w) \/ a = s.next_seqno + 1
  /\ 2 * (a - s.ackno) < Modulus /\ 2 * (s.ackno - a) < Modulus
  /\ Collect(ack_received(s, wrap(a, s.isn), w).self)
  /\ edge' = IF a <= s.next_seqno THEN larger(edge, a + w) ELSE edge
  /\ overtaken' = (overtaken \/ (Overtaken(a, w) /\ ~Fresh(a, w)))

(* TCPConnection::tick, until it gives up. *)
Tick(ms) ==
  /\ s.consecutive_retransmissions <= MAX_RETX_ATTEMPTS
  /\ Collect(tick(s, ms))
  /\ UNCHANGED << edge, overtaken >>

(* TCPConnection::send_empty_segment, to acknowledge something. *)
SendEmpty ==
  /\ ~CLOSED(s)
  /\ Collect(send_empty_segment(s))
  /\ UNCHANGED << edge, overtaken >>

Next ==
  \/ Open
  \/ \E len \in WriteLens : Write(len)
  \/ EndInput
  \/ \E a \in 0..(N + 3), w \in Windows : Ack(a, w)
  \/ \E ms \in Ticks : Tick(ms)
  \/ SendEmpty

Spec == Init /\ [][Next]_vars

-----------------------------------------------------------------------------
TypeOK ==
  /\ s.stream \in ByteStreamType(Nat)
  /\ s.next_seqno \in 0..(N + 2)
  /\ s.ackno \in 0..s.next_seqno
  /\ s.bytes_in_flight \in 0..s.next_seqno
  /\ s.window_size \in Nat /\ s.rto \in Nat \ {0}
  /\ s.syn \in BOOLEAN /\ s.fin \in BOOLEAN
  /\ s.timer.remaining_time \in Nat
  /\ s.timer.is_expired \in BOOLEAN /\ s.timer.is_stopped \in BOOLEAN

(***************************************************************************)
(* The outstanding segments tile the sequence numbers from the oldest one  *)
(* kept up to next_seqno, without gap or overlap; bytes_in_flight is their *)
(* total length; and nothing that is not acknowledged has been dropped, so *)
(* that it can be sent again.                                              *)
(***************************************************************************)
Tiling ==
  /\ seqnos(s.outstanding) = (s.next_seqno - s.bytes_in_flight)..(s.next_seqno - 1)
  /\ \A x, y \in s.outstanding : x # y => seqnos({x}) \cap seqnos({y}) = {}
  /\ s.next_seqno - s.bytes_in_flight <= s.ackno

(***************************************************************************)
(* The retransmission timer runs exactly while segments are outstanding:   *)
(* no lost segment is left without a timer, and no timer expires with      *)
(* nothing to send.                                                        *)
(***************************************************************************)
TimerIffOutstanding == ~s.timer.is_stopped <=> s.outstanding # {}

(* The segment that occupies what Stream, with SYN and FIN, has from first. *)
IsStreamSegment(first, seg) ==
  LET from == first + num(seg.syn)
  IN  /\ seg.seqno = wrap(first, s.isn)
      /\ seg.payload = SubSeq(Stream, from, from + Len(seg.payload) - 1)
      /\ Len(seg.payload) <= MAX_PAYLOAD_SIZE
      /\ seg.syn <=> first = 0 /\ length_in_sequence_space(seg) > 0
      /\ seg.fin => s.stream.end /\ from + Len(seg.payload) = s.stream.byte_written + 1

(***************************************************************************)
(* Every segment kept for retransmission still carries the bytes of the    *)
(* stream that belong at its sequence number; the SYN is the first number  *)
(* and the FIN follows the last byte.  Everything put on the wire, fresh   *)
(* or retransmitted, is such a segment, or a bare one at next_seqno.  The  *)
(* FIN was sent exactly when tcp_sender.hh:171-186 see it by the numbers.  *)
(***************************************************************************)
SegmentsAreStream ==
  /\ \A x \in s.outstanding : IsStreamSegment(x.first, x.seg)
  /\ \A i \in DOMAIN out :
       \/ length_in_sequence_space(out[i]) > 0
            /\ \E first \in 0..s.next_seqno : IsStreamSegment(first, out[i])
       \/ length_in_sequence_space(out[i]) = 0
            /\ out[i].seqno = wrap(s.next_seqno, s.isn)
  /\ s.fin <=> s.stream.end /\ s.next_seqno = s.stream.byte_written + 2

(***************************************************************************)
(* No silent stall: while bytes or a FIN wait to be sent on an open        *)
(* connection, something is outstanding, so that an acknowledgment or the  *)
(* timer will call fill_window or retransmit.  A window of zero does not   *)
(* break this, because it counts as one.                                   *)
(***************************************************************************)
NoStall ==
  /\ ~CLOSED(s)
  /\ ~buffer_empty(s.stream) \/ SYN_ACKED_FIN_TO_SEND(s)
  => s.outstanding # {}

(***************************************************************************)
(* The window is respected: nothing is sent beyond the right edge that the *)
(* peer advertised, except the single number that probes a closed window.  *)
(***************************************************************************)
WithinWindow == s.next_seqno <= larger(edge, s.ackno + 1)

(* So it is as long as the acknowledgments arrive in the order sent. *)
WithinWindowInOrder == ~overtaken => WithinWindow

(***************************************************************************)
(* Exponential backoff: the timeout is the initial one doubled once per    *)
(* consecutive retransmission, through window changes, probes of a closed  *)
(* window and new acknowledgments.                                         *)
(***************************************************************************)
Backoff == s.rto = Timeout * 2^s.consecutive_retransmissions

=============================================================================
