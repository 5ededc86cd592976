----------------------------- MODULE TCPSender ------------------------------
(***************************************************************************)
(* The class TCPSender (libsponge/tcp_sender.hh, .cc): cuts an outbound    *)
(* ByteStream into segments, as far as the peer's window allows, keeps the *)
(* segments that are not acknowledged, and sends the oldest of them again  *)
(* when the retransmission timer expires.                                  *)
(***************************************************************************)
EXTENDS ByteStream, WrappingIntegers, TCPSegment, FiniteSets

CONSTANTS MAX_PAYLOAD_SIZE,     \* TCPConfig::MAX_PAYLOAD_SIZE
          MAX_RETX_ATTEMPTS     \* TCPConfig::MAX_RETX_ATTEMPTS

ASSUME SenderAssumption ==
  MAX_PAYLOAD_SIZE \in Nat \ {0} /\ MAX_RETX_ATTEMPTS \in Nat

-----------------------------------------------------------------------------
(* The class RetransmissionTimer. *)
StoppedTimer == [remaining_time |-> 0, is_expired |-> FALSE, is_stopped |-> TRUE]

set_new_timer(time) ==
  [remaining_time |-> time, is_expired |-> FALSE, is_stopped |-> FALSE]

time_expired(timer, ms) ==
  IF timer.is_stopped THEN timer
  ELSE IF ms >= timer.remaining_time THEN [timer EXCEPT !.is_expired = TRUE]
  ELSE [timer EXCEPT !.remaining_time = @ - ms]

-----------------------------------------------------------------------------
(***************************************************************************)
(* outstanding is the ordered set _outstanding_segment, of pairs of an     *)
(* absolute sequence number and a segment; segments_out is the queue that  *)
(* the owner of the sender empties.                                        *)
(***************************************************************************)
NewTCPSender(capacity, retx_timeout, fixed_isn) ==
  [isn |-> fixed_isn, initial_timeout |-> retx_timeout,
   stream |-> NewByteStream(capacity), next_seqno |-> 0,
   bytes_in_flight |-> 0, consecutive_retransmissions |-> 0, ackno |-> 0,
   rto |-> retx_timeout, outstanding |-> {}, timer |-> StoppedTimer,
   window_size |-> 1, syn |-> FALSE, fin |-> FALSE, segments_out |-> << >>]

CLOSED(s) == s.next_seqno = 0

SYN_SENT(s) == s.next_seqno > 0 /\ s.next_seqno = s.bytes_in_flight

SYN_ACKED(s) == s.next_seqno > s.bytes_in_flight /\ ~eof(s.stream)

SYN_ACKED_FIN_TO_SEND(s) ==
  s.next_seqno < s.stream.byte_written + 2 /\ eof(s.stream)

FIN_SENT(s) ==
  /\ eof(s.stream)
  /\ s.next_seqno = s.stream.byte_written + 2
  /\ s.bytes_in_flight > 0

FIN_ACKED(s) ==
  /\ eof(s.stream)
  /\ s.next_seqno = s.stream.byte_written + 2
  /\ s.bytes_in_flight = 0

-----------------------------------------------------------------------------
(* Faulty: sends nothing into a closed window. *)
room_without_probe(s) == s.ackno + s.window_size - s.next_seqno

(* Faulty: one more than the window. *)
room_one_more(s) ==
  s.ackno + (IF s.window_size = 0 THEN 1 ELSE s.window_size) - s.next_seqno + 1

(***************************************************************************)
(* TCPSender::fill_window, as one step.  The loop of lines 51-93 sends the *)
(* SYN when CLOSED, then sent_bytes(s) bytes in segments of at most        *)
(* MAX_PAYLOAD_SIZE, then the FIN, in the last of those segments when the  *)
(* window has room for it.                                                 *)
(***************************************************************************)
room(s) ==
  s.ackno + (IF s.window_size = 0 THEN 1 ELSE s.window_size) - s.next_seqno

sent_bytes(s) == min(buffer_size(s.stream), room(s) - num(CLOSED(s)))

(* Faulty: ends the stream as soon as the buffer is empty. *)
sends_fin_when_empty(s) ==
  /\ sent_bytes(s) = buffer_size(s.stream)
  /\ room(s) > num(CLOSED(s)) + sent_bytes(s)
  /\ s.next_seqno < s.stream.byte_written + 2

sends_fin(s) ==
  /\ s.stream.end
  /\ sent_bytes(s) = buffer_size(s.stream)
  /\ room(s) > num(CLOSED(s)) + sent_bytes(s)
  /\ s.next_seqno < s.stream.byte_written + 2

(* How many segments sent_bytes(s) bytes make: at least the SYN or FIN. *)
segment_count(s) ==
  IF sent_bytes(s) = 0 THEN 1
  ELSE (sent_bytes(s) + MAX_PAYLOAD_SIZE - 1) \div MAX_PAYLOAD_SIZE

(* Faulty: repeats the first byte of the next segment. *)
new_segment_overlapping(s, i) ==
  LET from  == (i - 1) * MAX_PAYLOAD_SIZE
      first == num(s.syn) + s.stream.byte_read + from
  IN  [first |-> first,
       seg   |-> [NewSegment EXCEPT
                    !.seqno   = wrap(first, s.isn),
                    !.syn     = CLOSED(s) /\ i = 1,
                    !.fin     = sends_fin(s) /\ i = segment_count(s),
                    !.payload = SubSeq(s.stream.buffer, from + 1,
                                  min(from + MAX_PAYLOAD_SIZE + 1, sent_bytes(s)))]]

(* Faulty: peeks at the stream for every segment, without popping. *)
new_segment_unpopped(s, i) ==
  LET from  == (i - 1) * MAX_PAYLOAD_SIZE
      first == IF i = 1 THEN num(s.syn) + s.stream.byte_read
               ELSE 1 + s.stream.byte_read + from
  IN  [first |-> first,
       seg   |-> [NewSegment EXCEPT
                    !.seqno   = wrap(first, s.isn),
                    !.syn     = CLOSED(s) /\ i = 1,
                    !.fin     = sends_fin(s) /\ i = segment_count(s),
                    !.payload = SubSeq(s.stream.buffer, 1,
                                  min(MAX_PAYLOAD_SIZE, sent_bytes(s) - from))]]

(* The i-th of them, with its absolute sequence number. *)
new_segment(s, i) ==
  LET from  == (i - 1) * MAX_PAYLOAD_SIZE
      first == IF i = 1 THEN num(s.syn) + s.stream.byte_read
               ELSE 1 + s.stream.byte_read + from
  IN  [first |-> first,
       seg   |-> [NewSegment EXCEPT
                    !.seqno   = wrap(first, s.isn),
                    !.syn     = CLOSED(s) /\ i = 1,
                    !.fin     = sends_fin(s) /\ i = segment_count(s),
                    !.payload = SubSeq(s.stream.buffer, from + 1,
                                  min(from + MAX_PAYLOAD_SIZE, sent_bytes(s)))]]

fill_window(s) ==
  LET k == segment_count(s)
      used == num(CLOSED(s)) + sent_bytes(s) + num(sends_fin(s))
  IN  IF room(s) <= 0 \/ used = 0 THEN s
      ELSE [s EXCEPT
             !.stream          = pop_output(@, sent_bytes(s)),
             !.syn             = TRUE,
             !.fin             = @ \/ sends_fin(s),
             !.next_seqno      = num(s.syn) + s.stream.byte_read + used,
             !.bytes_in_flight = @ + used,
             !.outstanding     = @ \cup { new_segment(s, i) : i \in 1..k },
             !.segments_out    = @ \o [i \in 1..k |-> new_segment(s, i).seg],
             !.timer           = IF @.is_stopped THEN set_new_timer(s.rto) ELSE @]

-----------------------------------------------------------------------------
(* One past the last sequence number of an outstanding segment. *)
seq_end(x) == x.first + length_in_sequence_space(x.seg)

seqnos(S) == UNION { x.first .. (seq_end(x) - 1) : x \in S }

(* Faulty: drops segments that are acknowledged in part. *)
fully_acked_in_part(s) == { x \in s.outstanding : x.first < s.ackno }

(***************************************************************************)
(* TCPSender::pop_outstanding_segment: from the oldest on, while they are  *)
(* acknowledged in full.  Segments never overlap, so the sum of the        *)
(* lengths of those removed is the number of their sequence numbers.       *)
(***************************************************************************)
fully_acked(s) ==
  { x \in s.outstanding :
      \A y \in s.outstanding : y.first <= x.first => seq_end(y) <= s.ackno }

pop_outstanding_segment(s) ==
  [s EXCEPT !.outstanding     = @ \ fully_acked(s),
            !.bytes_in_flight = @ - Cardinality(seqnos(fully_acked(s)))]

(* Faulty: restarts the timer with nothing left to send again. *)
new_data_acked_no_stop(s, new_ackno) ==
  LET filled == fill_window(pop_outstanding_segment(
                  [s EXCEPT !.ackno = new_ackno, !.rto = s.initial_timeout,
                            !.consecutive_retransmissions = 0]))
  IN  [filled EXCEPT !.timer = set_new_timer(filled.rto)]

(***************************************************************************)
(* TCPSender::ack_received: the sender after it, and the value it returns. *)
(***************************************************************************)
new_data_acked(s, new_ackno) ==
  LET filled == fill_window(pop_outstanding_segment(
                  [s EXCEPT !.ackno = new_ackno, !.rto = s.initial_timeout,
                            !.consecutive_retransmissions = 0]))
  IN  [filled EXCEPT !.timer =
         IF filled.outstanding = {} THEN StoppedTimer ELSE set_new_timer(filled.rto)]

(* Faulty: believes an acknowledgment of what was never sent. *)
ack_received_unchecked(s, ackno, window_size) ==
  LET new_ackno == unwrap(ackno, s.isn, s.ackno)
      updated   == [s EXCEPT !.window_size = window_size]
  IN  IF new_ackno <= s.ackno THEN [self |-> updated, result |-> TRUE]
      ELSE [self |-> new_data_acked(updated, new_ackno), result |-> TRUE]

ack_received(s, ackno, window_size) ==
  LET new_ackno == unwrap(ackno, s.isn, s.ackno)
      updated   == [s EXCEPT !.window_size = window_size]
  IN  IF new_ackno > s.next_seqno THEN [self |-> s, result |-> FALSE]
      ELSE IF new_ackno <= s.ackno THEN [self |-> updated, result |-> TRUE]
      ELSE [self |-> new_data_acked(updated, new_ackno), result |-> TRUE]

-----------------------------------------------------------------------------
oldest(s) ==
  CHOOSE x \in s.outstanding : \A y \in s.outstanding : x.first <= y.first

(* Faulty: backs off when it probes a closed window, too. *)
retransmit_always_doubles(s) ==
  LET retries == s.consecutive_retransmissions + (IF s.window_size > 0 THEN 1 ELSE 0)
  IN  [s EXCEPT !.consecutive_retransmissions = retries,
                !.rto = @ * 2,
                !.segments_out = IF retries <= MAX_RETX_ATTEMPTS
                                   THEN Append(@, oldest(s).seg) ELSE @,
                !.timer = set_new_timer(s.rto * 2)]

(* TCPSender::tick. *)
retransmit(s) ==
  LET backoff == IF s.window_size > 0 THEN 1 ELSE 0
      retries == s.consecutive_retransmissions + backoff
      rto     == s.rto * (1 + backoff)
  IN  [s EXCEPT !.consecutive_retransmissions = retries,
                !.rto = rto,
                !.segments_out = IF retries <= MAX_RETX_ATTEMPTS
                                   THEN Append(@, oldest(s).seg) ELSE @,
                !.timer = set_new_timer(rto)]

tick(s, ms) ==
  LET ticked == [s EXCEPT !.timer = time_expired(@, ms)]
  IN  IF ticked.timer.is_expired /\ ~ticked.timer.is_stopped /\ s.outstanding # {}
        THEN retransmit(ticked) ELSE ticked

(* TCPSender::send_empty_segment. *)
send_empty_segment(s) ==
  [s EXCEPT !.segments_out =
     Append(@, [NewSegment EXCEPT !.seqno = wrap(s.next_seqno, s.isn)])]

=============================================================================
