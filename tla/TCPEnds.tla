------------------------------- MODULE TCPEnds ------------------------------
(***************************************************************************)
(* Two TCPConnections and their applications, without the network between  *)
(* them.  One end connects, the other listens, as the sockets of           *)
(* libsponge/tcp_helpers/tcp_sponge_socket.cc do; an application writes    *)
(* its stream, ends it, and reads what arrives.                            *)
(***************************************************************************)
EXTENDS TCPState, Functions, FiniteSetsExt

CONSTANTS Client, Server,   \* the two ends
          Stream,           \* Stream[e] is what e's application writes
          Isn,              \* Isn[e] is e's initial sequence number
          RecvCapacity, SendCapacity, Timeout,
          WriteLens         \* how much an application writes at once

VARIABLE conn   \* conn[e] is the TCPConnection of e

Ends == {Client, Server}

peer(e) == IF e = Client THEN Server ELSE Client

out(e) == conn[e].sender.stream

in(e) == conn[e].receiver.reassembler.output

InitEnds ==
  conn = [e \in Ends |->
            NewTCPConnection(RecvCapacity, SendCapacity, Timeout, Isn[e])]

(* connect() and listen_and_accept() have returned to the application. *)
Established(e) ==
  /\ ~LISTEN(conn[e]) /\ state(conn[e]) # State.SYN_SENT
  /\ e = Server => state(conn[e]) # State.SYN_RCVD

(* Rule 1 of the socket's event loop: an active end reads a segment. *)
CanReceive(e) == active(conn[e]) /\ (e = Client => ~LISTEN(conn[e]))

(* Rule 2: at most the remaining capacity is taken from the application. *)
CanWrite(e, len) ==
  /\ active(conn[e]) /\ ~out(e).end
  /\ len <= remaining_capacity(out(e))
  /\ out(e).byte_written + len <= Len(Stream[e])
  /\ Established(e)

Written(e, len) ==
  write_data(conn[e],
    SubSeq(Stream[e], out(e).byte_written + 1, out(e).byte_written + len))

(* The application shuts its socket down after its last byte. *)
CanEnd(e) ==
  /\ active(conn[e]) /\ ~out(e).end
  /\ out(e).byte_written = Len(Stream[e])
  /\ Established(e)

(* Rule 3, in an end that is over, too. *)
ReadBytes(e, len) ==
  /\ len \in 1..buffer_size(in(e))
  /\ conn' = [conn EXCEPT ![e].receiver.reassembler.output = pop_output(@, len)]

(* Rule 4: the socket hands over what the connection has queued. *)
Flushed(c) == [c EXCEPT !.segments_out = << >>]

=============================================================================
