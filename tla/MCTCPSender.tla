---------------------------- MODULE MCTCPSender -----------------------------
(* TLC instances of TCPSenderSpec. *)
EXTENDS TCPSenderSpec, FiniteSetsExt

MCStream == << 11, 12, 13, 14 >>

-----------------------------------------------------------------------------
(* The loop of fill_window, lines 51-93, one iteration per level. *)
RECURSIVE FillLoop(_, _)
FillLoop(x, window_size) ==
  IF ~ /\ window_size > 0
       /\ \/ CLOSED(x)
          \/ (SYN_SENT(x) \/ SYN_ACKED(x)) /\ ~buffer_empty(x.stream)
          \/ SYN_ACKED_FIN_TO_SEND(x)
  THEN x
  ELSE LET first == num(x.syn) + x.stream.byte_read
           syn   == CLOSED(x)
           len   == min(window_size - num(syn), MAX_PAYLOAD_SIZE)
           data  == peek_output(x.stream, len)
           y     == [x EXCEPT !.syn = @ \/ syn, !.stream = pop_output(@, len)]
           fin   == num(syn) + Len(data) + 1 <= window_size /\ SYN_ACKED_FIN_TO_SEND(y)
           seg   == [NewSegment EXCEPT !.seqno = wrap(first, x.isn), !.syn = syn,
                                       !.payload = data, !.fin = fin]
           used  == length_in_sequence_space(seg)
       IN  FillLoop([y EXCEPT
             !.fin = @ \/ fin,
             !.segments_out = Append(@, seg),
             !.outstanding = @ \cup {[first |-> first, seg |-> seg]},
             !.bytes_in_flight = @ + used,
             !.next_seqno = first + used,
             !.timer = IF @.is_stopped THEN set_new_timer(x.rto) ELSE @],
             window_size - used)

(* The loop of pop_outstanding_segment, lines 27-33. *)
RECURSIVE PopLoop(_)
PopLoop(x) ==
  IF x.outstanding = {} \/ seq_end(oldest(x)) > x.ackno THEN x
  ELSE PopLoop([x EXCEPT
         !.bytes_in_flight = @ - length_in_sequence_space(oldest(x).seg),
         !.outstanding = @ \ {oldest(x)}])

(***************************************************************************)
(* The closed forms of fill_window and of pop_outstanding_segment compute  *)
(* what the loops compute, in every reachable state, with the application  *)
(* adding bytes or the end, and the peer changing the window or the ackno. *)
(***************************************************************************)
ClosedFormsAreLoops ==
  \A w \in Windows, a \in s.ackno..s.next_seqno, ends \in BOOLEAN :
    LET x == [s EXCEPT !.window_size = w, !.ackno = a, !.stream.end = @ \/ ends]
        p == PopLoop(x)
    IN  /\ pop_outstanding_segment(x) = p
        /\ fill_window(p) = IF room(p) <= 0 THEN p ELSE FillLoop(p, room(p))

=============================================================================
