-------------------------- MODULE TCPConnectionSpec -------------------------
(***************************************************************************)
(* Two TCPConnections over a network that loses, duplicates, delays and    *)
(* reorders segments: any segment it holds may be delivered at any time,   *)
(* again and again, or never.  The two clocks run independently of each    *)
(* other and of the network.                                               *)
(***************************************************************************)
EXTENDS TCPEnds

CONSTANTS Ticks,      \* how much time may pass at once
          InFlight    \* how many segments the network holds for each end

VARIABLE net          \* net[e] is the set of segments held for e

vars == << conn, net >>

Init == InitEnds /\ net = [e \in Ends |-> {}]

(***************************************************************************)
(* A full network loses any of the segments it holds, old or new.  One     *)
(* that is not full keeps them all: never to deliver one is to lose it.    *)
(***************************************************************************)
Becomes(e, c) ==
  LET to   == peer(e)
      sent == net[to] \cup Range(c.segments_out)
      full == Cardinality(sent) > InFlight[to]
  IN  /\ conn' = [conn EXCEPT ![e] = Flushed(c)]
      /\ \E kept \in IF full THEN kSubset(InFlight[to], sent) ELSE {sent} :
           net' = [net EXCEPT ![to] = kept]

Connect == LISTEN(conn[Client]) /\ Becomes(Client, connect(conn[Client]))

Deliver(e, seg) == CanReceive(e) /\ Becomes(e, segment_received(conn[e], seg))

Write(e, len) == CanWrite(e, len) /\ Becomes(e, Written(e, len))

EndInput(e) == CanEnd(e) /\ Becomes(e, end_input_stream(conn[e]))

Read(e, len) == ReadBytes(e, len) /\ UNCHANGED net

Tick(e, ms) == active(conn[e]) /\ Becomes(e, tick(conn[e], ms))

Next ==
  \/ Connect
  \/ \E e \in Ends :
       \/ \E seg \in net[e] : Deliver(e, seg)
       \/ \E len \in WriteLens : Write(e, len)
       \/ EndInput(e)
       \/ \E len \in 1..RecvCapacity : Read(e, len)
       \/ \E ms \in Ticks : Tick(e, ms)

Spec == Init /\ [][Next]_vars

-----------------------------------------------------------------------------
Segments ==
  [seqno : 0..(Modulus - 1), ackno : 0..(Modulus - 1), win : 0..UINT16_MAX,
   payload : UNION { { SubSeq(Stream[e], i + 1, j) : i, j \in 0..Len(Stream[e]) }
                     : e \in Ends },
   syn : BOOLEAN, fin : BOOLEAN, ack : BOOLEAN, rst : BOOLEAN]

(* Between calls no segment is left in the sender's own queue. *)
TypeOK ==
  /\ \A e \in Ends :
       /\ conn[e].unclear \in BOOLEAN /\ conn[e].clear \in BOOLEAN
       /\ conn[e].linger \in BOOLEAN
       /\ conn[e].since \in 0..linger_time(conn[e])
       /\ conn[e].sender.segments_out = << >>
       /\ conn[e].segments_out = << >>
  /\ \A e \in Ends : net[e] \subseteq Segments

(***************************************************************************)
(* What an end hands to its application is a prefix of what the other      *)
(* application wrote, whatever the network does: segments cut, wrapped,    *)
(* acknowledged, retransmitted and reassembled by the two ends together    *)
(* (tcp_connection.cc:115-122).                                            *)
(***************************************************************************)
DeliveredIsPrefix ==
  \A e \in Ends :
    /\ in(e).byte_written <= out(peer(e)).byte_written
    /\ in(e).buffer =
         SubSeq(Stream[peer(e)], in(e).byte_read + 1, in(e).byte_written)

(***************************************************************************)
(* A sender never believes more acknowledged than the other end has taken  *)
(* in: an acknowledgment, however late, is unwrapped to a number that was  *)
(* true when it was sent (tcp_sender.cc:100-106, tcp_connection.cc:73).    *)
(***************************************************************************)
AckedIsReceived ==
  \A e \in Ends :
    conn[e].sender.ackno <= Rcv!abs_ackno(conn[peer(e)].receiver)

(***************************************************************************)
(* An end that finished cleanly has had its whole stream, and its FIN,     *)
(* taken in by the peer (tcp_connection.cc:61-65).                         *)
(***************************************************************************)
CleanMeansDelivered ==
  \A e \in Ends : conn[e].clear =>
    in(peer(e)).byte_written = Len(Stream[e]) /\ in(peer(e)).end

(***************************************************************************)
(* At least one of the two ends is ready to linger: if neither were, the   *)
(* last acknowledgment could be lost with nobody left to repeat it         *)
(* (tcp_connection.cc:58-59).                                              *)
(***************************************************************************)
OneEndLingers == \E e \in Ends : conn[e].linger

(***************************************************************************)
(* No end is reset unless one of them gave up retransmitting: neither late *)
(* nor repeated segments make an end answer with a RST                     *)
(* (tcp_connection.cc:54-57, 69-70).                                       *)
(***************************************************************************)
ResetMeansGivenUp ==
  (\E e \in Ends : conn[e].unclear)
    => \E e \in Ends :
         conn[e].sender.consecutive_retransmissions > MAX_RETX_ATTEMPTS

(***************************************************************************)
(* The moves of RFC 793's diagram between its states, as TCPState names    *)
(* them.  One call may make several moves: a segment may carry the FIN and *)
(* acknowledge a SYN, or open the window for a FIN.  An end is "unnamed"   *)
(* when the peer's FIN arrives after it has sent its last byte and before  *)
(* the window lets it send its FIN.                                        *)
(***************************************************************************)
Moves ==
  [LISTEN      |-> {"SYN_SENT", "SYN_RCVD"},
   SYN_SENT    |-> {"ESTABLISHED"},
   SYN_RCVD    |-> {"ESTABLISHED", "CLOSE_WAIT"},
   ESTABLISHED |-> {"FIN_WAIT_1", "CLOSE_WAIT", "CLOSING", "unnamed"},
   CLOSE_WAIT  |-> {"LAST_ACK"},
   unnamed     |-> {"CLOSING"},
   FIN_WAIT_1  |-> {"FIN_WAIT_2", "CLOSING", "TIME_WAIT"},
   FIN_WAIT_2  |-> {"TIME_WAIT"},
   CLOSING     |-> {"TIME_WAIT"},
   LAST_ACK    |-> {"CLOSED"},
   TIME_WAIT   |-> {"CLOSED"},
   CLOSED      |-> {},
   RESET       |-> {}]

(***************************************************************************)
(* "To test that Sponge follows the TCP spec, we use this class to compare *)
(* the official states with Sponge's" (tcp_state.hh:19-22): every call     *)
(* leaves an end in its state, moves it along the diagram, or resets it    *)
(* while it was open.                                                      *)
(***************************************************************************)
FollowsRFC793 ==
  [][\A e \in Ends :
       LET before == state_name(conn[e])
           after  == state_name(conn'[e])
       IN  \/ conn'[e] = conn[e]
           \/ state(conn'[e]) = state(conn[e])
           \/ after \in Moves[before]
           \/ after = "RESET" /\ active(conn[e])]_vars

=============================================================================
