------------------------------ MODULE TCPState ------------------------------
(***************************************************************************)
(* The class TCPState (libsponge/tcp_helpers/tcp_state.hh, .cc): the state *)
(* of a connection in the words of RFC 793, from summaries of its sender   *)
(* and its receiver and its own two flags.                                 *)
(***************************************************************************)
EXTENDS TCPConnection

receiver_summary(rcv) ==
  IF Rcv!stream_out(rcv).error THEN "ERROR"
  ELSE IF ~Rcv!has_isn(rcv) THEN "LISTEN"
  ELSE IF Rcv!stream_out(rcv).end THEN "FIN_RECV"
  ELSE "SYN_RECV"

sender_summary(s) ==
  IF s.stream.error THEN "ERROR"
  ELSE IF s.next_seqno = 0 THEN "CLOSED"
  ELSE IF s.next_seqno = s.bytes_in_flight THEN "SYN_SENT"
  ELSE IF ~eof(s.stream) \/ s.next_seqno < s.stream.byte_written + 2 THEN "SYN_ACKED"
  ELSE IF s.bytes_in_flight > 0 THEN "FIN_SENT"
  ELSE "FIN_ACKED"

(* TCPConnection::state. *)
state(c) ==
  [receiver |-> receiver_summary(c.receiver), sender |-> sender_summary(c.sender),
   active |-> active(c), linger |-> active(c) /\ c.linger]

(* The constructor from an official name. *)
TCPState(receiver, sender, is_active, linger) ==
  [receiver |-> receiver, sender |-> sender, active |-> is_active, linger |-> linger]

State ==
  [LISTEN      |-> TCPState("LISTEN",   "CLOSED",    TRUE,  TRUE),
   SYN_RCVD    |-> TCPState("SYN_RECV", "SYN_SENT",  TRUE,  TRUE),
   SYN_SENT    |-> TCPState("LISTEN",   "SYN_SENT",  TRUE,  TRUE),
   ESTABLISHED |-> TCPState("SYN_RECV", "SYN_ACKED", TRUE,  TRUE),
   CLOSE_WAIT  |-> TCPState("FIN_RECV", "SYN_ACKED", TRUE,  FALSE),
   LAST_ACK    |-> TCPState("FIN_RECV", "FIN_SENT",  TRUE,  FALSE),
   CLOSING     |-> TCPState("FIN_RECV", "FIN_SENT",  TRUE,  TRUE),
   FIN_WAIT_1  |-> TCPState("SYN_RECV", "FIN_SENT",  TRUE,  TRUE),
   FIN_WAIT_2  |-> TCPState("SYN_RECV", "FIN_ACKED", TRUE,  TRUE),
   TIME_WAIT   |-> TCPState("FIN_RECV", "FIN_ACKED", TRUE,  TRUE),
   RESET       |-> TCPState("ERROR",    "ERROR",     FALSE, FALSE),
   CLOSED      |-> TCPState("FIN_RECV", "FIN_ACKED", FALSE, FALSE)]

(* The official name of c's state, if it has one. *)
state_name(c) ==
  LET s     == state(c)
      names == { n \in DOMAIN State : State[n] = s }
  IN  IF names = {} THEN "unnamed" ELSE CHOOSE n \in names : TRUE

=============================================================================
