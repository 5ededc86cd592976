---------------------------- MODULE TCPConnection ---------------------------
(***************************************************************************)
(* The class TCPConnection (libsponge/tcp_connection.hh, .cc): one end of  *)
(* a connection, a TCPSender and a TCPReceiver that share the segments     *)
(* they exchange with the peer, and the rules for when the end is over.    *)
(***************************************************************************)
EXTENDS ByteStream, TCPSegment

CONSTANTS Modulus, SIZE_MAX, MAX_PAYLOAD_SIZE, MAX_RETX_ATTEMPTS,
          UINT16_MAX,       \* the largest window a header can carry
          LINGER_TIMEOUTS   \* the factor 10 of test_end

Rcv == INSTANCE TCPReceiver

Snd == INSTANCE TCPSender

(***************************************************************************)
(* since is _now_time - _time_when_last_segment_received.  It is compared  *)
(* with the linger time only, and stops growing there.                     *)
(***************************************************************************)
NewTCPConnection(recv_capacity, send_capacity, rt_timeout, fixed_isn) ==
  [receiver |-> Rcv!NewTCPReceiver(recv_capacity),
   sender |-> Snd!NewTCPSender(send_capacity, rt_timeout, fixed_isn),
   unclear |-> FALSE, clear |-> FALSE, linger |-> TRUE,
   since |-> 0, segments_out |-> << >>]

linger_time(c) == LINGER_TIMEOUTS * c.sender.initial_timeout

active(c) == ~(c.unclear \/ c.clear)

LISTEN(c) == Rcv!LISTEN(c.receiver) /\ Snd!CLOSED(c.sender)

SYN_SENT(c) == Rcv!LISTEN(c.receiver) /\ Snd!SYN_SENT(c.sender)

(* Faulty: over when everything is sent, acknowledged or not. *)
TIME_WAIT_unacked(c) == Rcv!FIN_RECV(c.receiver) /\ eof(c.sender.stream)

TIME_WAIT(c) == Rcv!FIN_RECV(c.receiver) /\ Snd!FIN_ACKED(c.sender)

-----------------------------------------------------------------------------
(* Faulty: acknowledges the bytes stored out of order. *)
set_segment_acks_stored(c, seg) ==
  IF c.unclear THEN [seg EXCEPT !.rst = TRUE]
  ELSE IF Rcv!LISTEN(c.receiver) THEN seg
  ELSE [seg EXCEPT !.ack = TRUE,
                   !.ackno = Snd!wrap(c.receiver.reassembler.stored_bytes + 1,
                                      c.receiver.isn),
                   !.win = min(UINT16_MAX, Rcv!window_size(c.receiver))]

(* What every outgoing segment tells the peer about the inbound stream. *)
set_segment(c, seg) ==
  IF c.unclear THEN [seg EXCEPT !.rst = TRUE]
  ELSE IF Rcv!LISTEN(c.receiver) THEN seg
  ELSE [seg EXCEPT !.ack = TRUE,
                   !.ackno = Rcv!ackno(c.receiver),
                   !.win = min(UINT16_MAX, Rcv!window_size(c.receiver))]

(* Faulty: takes one segment of the queue. *)
collect_output_first(c) ==
  LET queued == c.sender.segments_out
  IN  IF queued = << >> THEN c
      ELSE [c EXCEPT !.segments_out = Append(@, set_segment(c, Head(queued))),
                     !.sender.segments_out = Tail(@)]

collect_output(c) ==
  LET queued == c.sender.segments_out
  IN  [c EXCEPT !.segments_out =
                   @ \o [i \in DOMAIN queued |-> set_segment(c, queued[i])],
                !.sender.segments_out = << >>]

unclear_shutdown(c) ==
  [c EXCEPT !.sender.stream = set_error(@),
            !.receiver.reassembler.output = set_error(@),
            !.unclear = TRUE]

send_empty_segment(c) ==
  collect_output([c EXCEPT !.sender = Snd!send_empty_segment(@)])

(***************************************************************************)
(* test_end, its three parts in their order: give up, decide not to        *)
(* linger, and finish.                                                     *)
(***************************************************************************)
give_up(c) ==
  IF c.sender.consecutive_retransmissions > MAX_RETX_ATTEMPTS
    THEN send_empty_segment(unclear_shutdown(c)) ELSE c

(* Faulty: does not linger after any FIN. *)
passive_close_always(c) ==
  [c EXCEPT !.linger = @ /\ ~Rcv!FIN_RECV(c.receiver)]

passive_close(c) ==
  [c EXCEPT !.linger =
     @ /\ ~(~eof(c.sender.stream) /\ Rcv!FIN_RECV(c.receiver))]

(* Faulty: lingers for one timeout. *)
finish_soon(c) ==
  [c EXCEPT !.clear =
     @ \/ (TIME_WAIT(c) /\ (~c.linger \/ c.since >= c.sender.initial_timeout))]

finish(c) ==
  [c EXCEPT !.clear =
     @ \/ (TIME_WAIT(c) /\ (~c.linger \/ c.since >= linger_time(c)))]

test_end(c) == finish(passive_close(give_up(c)))

-----------------------------------------------------------------------------
(***************************************************************************)
(* segment_receive_route.  An end that sent its SYN and has none from the  *)
(* peer drops what its receiver refuses, without an answer.                *)
(***************************************************************************)
listen_route(c, seg) ==
  IF ~seg.syn THEN c
  ELSE [c EXCEPT !.receiver = Rcv!segment_received(@, seg).self,
                 !.sender = Snd!fill_window(@)]

answer(c) ==
  IF c.sender.segments_out = << >>
    THEN [c EXCEPT !.sender = Snd!send_empty_segment(@)] ELSE c


open_route(c, seg) ==
  LET taken   == Rcv!segment_received(c.receiver, seg)
      told    == [c EXCEPT !.receiver = taken.self]
      acked   == Snd!ack_received(c.sender, seg.ackno, seg.win)
      updated == IF seg.ack THEN [told EXCEPT !.sender = acked.self] ELSE told
      refused == ~taken.result \/ (seg.ack /\ ~acked.result)
  IN  IF SYN_SENT(told) /\ ~taken.result THEN told
      ELSE IF refused \/ length_in_sequence_space(seg) > 0 THEN answer(updated)
      ELSE updated

(* Faulty: takes a second SYN for an error. *)
segment_receive_route_syn(c, seg) ==
  IF LISTEN(c) THEN listen_route(c, seg)
  ELSE IF seg.rst \/ (seg.syn /\ ~SYN_SENT(c)) THEN unclear_shutdown(c)
  ELSE open_route(c, seg)

segment_receive_route(c, seg) ==
  IF LISTEN(c) THEN listen_route(c, seg)
  ELSE IF seg.rst THEN unclear_shutdown(c)
  ELSE open_route(c, seg)

segment_received(c, seg) ==
  test_end(collect_output(segment_receive_route([c EXCEPT !.since = 0], seg)))

-----------------------------------------------------------------------------
write_data(c, data) ==
  test_end(collect_output(
    [c EXCEPT !.sender = Snd!fill_window([@ EXCEPT !.stream = write(@, data)])]))

tick(c, ms) ==
  test_end(collect_output(
    [c EXCEPT !.since = min(@ + ms, linger_time(c)),
              !.sender = Snd!tick(@, ms)]))

end_input_stream(c) ==
  test_end(collect_output(
    [c EXCEPT !.sender = Snd!fill_window([@ EXCEPT !.stream = end_input(@)])]))

connect(c) ==
  IF LISTEN(c)
    THEN collect_output([c EXCEPT !.sender = Snd!fill_window(@)]) ELSE c

=============================================================================
