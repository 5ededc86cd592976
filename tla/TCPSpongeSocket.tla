--------------------------- MODULE TCPSpongeSocket --------------------------
(***************************************************************************)
(* The class TCPSpongeSocket (libsponge/tcp_helpers/tcp_sponge_socket.hh,  *)
(* .cc): a TCPConnection in a thread of its own, whose EventLoop serves    *)
(* the datagrams of the peer and one end of a socket pair; the other end   *)
(* is the socket that the owner's thread reads and writes.                 *)
(***************************************************************************)
EXTENDS TCPState, FdAdapter

CONSTANTS OwnerData, PeerData,   \* what the owner and the peer send
          OwnerIsn, PeerIsn,
          RecvCapacity, SendCapacity, Timeout,
          PeerWindow,            \* the window the peer advertises
          Room,                  \* what the socket pair buffers, each way
          MaxLate,               \* bound: segments that arrive in TIME_WAIT
          Local, Senders,        \* the addresses here, and of the others
          Starts                 \* the calls and the adapters to begin with

ASSUME SocketAssumption ==
  /\ OwnerData \in Seq(Nat) /\ PeerData \in Seq(Nat)
  /\ {RecvCapacity, SendCapacity, Timeout, PeerWindow, Room} \subseteq Nat \ {0}
  /\ MaxLate \in Nat
  /\ Senders # {} /\ Starts \subseteq [accepts : BOOLEAN, over : {"udp", "ip"}]

VARIABLES app,     \* _tcp, _datagram_adapter, the flags, those of _thread_data too
          loop,    \* _eventloop
          pc,      \* wait, serve, timeout, leave, over or broken
          joined,  \* is the loop in _tcp_thread yet, and no longer in connect?
          pair,    \* the socket pair and its owner
          wire     \* what was sent, and to and from whom

vars == << app, loop, pc, joined, pair, wire >>

tcp == app.tcp

inbound(a) == Rcv!stream_out(a.tcp.receiver)

-----------------------------------------------------------------------------
(* The rules of _initialize_TCP. *)
eof_flag(k, a) == k = 2 /\ a.thread_eof

closed_flag(k, a) == FALSE

remaining_outbound_capacity(c) == remaining_capacity(c.sender.stream)

(* Faulty: sends no segment once the connection is over. *)
interest_while_active(k, a) ==
  CASE k = 1 -> active(a.tcp)
    [] k = 2 -> /\ active(a.tcp) /\ ~a.outbound_shutdown
                /\ remaining_outbound_capacity(a.tcp) > 0
    [] k = 3 -> \/ ~buffer_empty(inbound(a))
                \/ (eof(inbound(a)) \/ inbound(a).error) /\ ~a.inbound_shutdown
    [] k = 4 -> active(a.tcp) /\ a.tcp.segments_out # << >>

interest(k, a) ==
  CASE k = 1 -> active(a.tcp)
    [] k = 2 -> /\ active(a.tcp) /\ ~a.outbound_shutdown
                /\ remaining_outbound_capacity(a.tcp) > 0
    [] k = 3 -> \/ ~buffer_empty(inbound(a))
                \/ (eof(inbound(a)) \/ inbound(a).error) /\ ~a.inbound_shutdown
    [] k = 4 -> a.tcp.segments_out # << >>

end_outbound(a) ==
  [a EXCEPT !.tcp = end_input_stream(@), !.outbound_shutdown = TRUE]

cancel(k, a) == IF k = 2 THEN end_outbound(a) ELSE a

L == INSTANCE EventLoop WITH NRules <- 4, In <- {1, 2}, eof <- eof_flag,
                             closed <- closed_flag

-----------------------------------------------------------------------------
NewTCP == NewTCPConnection(RecvCapacity, SendCapacity, Timeout, OwnerIsn)

(* INADDR_ANY, where a socket that accepts is bound. *)
Any == "0"

(* Where FdAdapterConfig sends to by default. *)
Nobody == [host |-> Any, port |-> 0]

Server == CHOOSE s \in Senders : TRUE

NewAdapter(start) ==
  IF start.accepts
    THEN NewFdAdapter(start.over, [Local EXCEPT !.host = Any], Nobody, TRUE)
    ELSE NewFdAdapter(start.over, Local, Server, FALSE)

(* connect() or listen_and_accept() was called. *)
Init ==
  /\ \E start \in Starts :
       app = [tcp |-> IF start.accepts THEN NewTCP ELSE connect(NewTCP),
              adapter |-> NewAdapter(start), accepts |-> start.accepts, thread_eof |-> FALSE,
              inbound_shutdown |-> FALSE, outbound_shutdown |-> FALSE, abort |-> FALSE]
  /\ loop = L!NewEventLoop
  /\ pc = "wait" /\ joined = FALSE
  /\ pair = [written |-> 0, taken |-> 0, owner_shut |-> FALSE,
             to_owner |-> << >>, read |-> 0, thread_shut |-> FALSE, seen_eof |-> FALSE]
  /\ wire = [next_seqno |-> 0, late |-> 0, peers |-> {}]

room == Room - (Len(pair.to_owner) - pair.read)

(* A datagram may have come, or not; the adapter can always send one. *)
Ready(came) ==
  (IF came THEN {1} ELSE {})
    \cup (IF pair.written > pair.taken \/ pair.owner_shut THEN {2} ELSE {})
    \cup (IF room > 0 THEN {3} ELSE {})
    \cup {4}

(* _thread_data hangs up when both directions are shut down. *)
Hup == IF pair.owner_shut /\ pair.thread_shut THEN {2, 3} ELSE {}

(* The conditions of the two loops that do not run forever. *)
connecting(a) ==
  LET s == state(a.tcp)
  IN  \/ s = State.SYN_SENT
      \/ a.accepts /\ s \in {State.LISTEN, State.SYN_RCVD}

(* wait_next_event up to the return of poll, which may have timed out. *)
Wait(came) ==
  /\ pc = "wait"
  /\ LET s == L!set_up(app, loop)
     IN  /\ app' = s.app
         /\ IF L!exits(s) \/ ~L!returns(s, Ready(came), Hup)
              THEN /\ pc' = IF L!exits(s) THEN "leave" ELSE "timeout"
                   /\ loop' = [loop EXCEPT !.rules = s.rules]
              ELSE pc' = "serve" /\ loop' = L!poll(s, Ready(came), Hup)
  /\ UNCHANGED << joined, pair, wire >>

Cancel(k) ==
  /\ k \in loop.cancels /\ L!next_result(loop, k)
  /\ app' = cancel(k, app) /\ loop' = L!erased(loop, k)
  /\ UNCHANGED << pc, joined, pair, wire >>

Serve(k) ==
  /\ k \in loop.callbacks /\ L!next_result(loop, k)
  /\ loop' = L!called(loop, k)
  /\ UNCHANGED joined

(***************************************************************************)
(* The segments of a peer that sends its stream in order, repeats what it  *)
(* likes, and acknowledges only what it was sent.                          *)
(***************************************************************************)
PeerSegment(first, ackno) ==
  [NewSegment EXCEPT
     !.seqno = Snd!wrap(first, PeerIsn), !.syn = first = 0,
     !.fin = first = Len(PeerData) + 1,
     !.payload = IF first \in DOMAIN PeerData
                   THEN SubSeq(PeerData, first, Len(PeerData)) ELSE << >>,
     !.ack = ackno > 0, !.ackno = Snd!wrap(ackno, OwnerIsn), !.win = PeerWindow]

Reset == [NewSegment EXCEPT !.rst = TRUE]

PeerSegments ==
  { PeerSegment(first, ackno) : first \in 0..Rcv!abs_ackno(tcp.receiver),
                                ackno \in 0..wire.next_seqno } \cup {Reset}

Peer == IF app.adapter.listening THEN Server ELSE app.adapter.destination

(***************************************************************************)
(* Others send a SYN or a RST at any time; a datagram may be damaged, or   *)
(* not be for us.                                                          *)
(***************************************************************************)
Damaged(d) ==
  { [d EXCEPT !.parses = FALSE], [d EXCEPT !.tcp = FALSE],
    [d EXCEPT !.to.host = Any], [d EXCEPT !.to.port = @ + 1] }

Datagrams ==
  { NewDatagram(Peer, Local, seg) : seg \in PeerSegments }
    \cup { NewDatagram(from, Local, seg) : from \in Senders,
                                           seg \in {PeerSegment(0, 0), Reset} }
    \cup Damaged(NewDatagram(Peer, Local, Reset))

(* What a peer that has all we sent, and lacks nothing, sends next. *)
NextDatagram ==
  NewDatagram(Peer, Local, PeerSegment(Rcv!abs_ackno(tcp.receiver), wire.next_seqno))

(* Rule 1. *)
ReadSegment(d) ==
  /\ Serve(1)
  /\ TIME_WAIT(tcp) => wire.late < MaxLate
  /\ LET r == lossy_read(app.adapter, d, FALSE)
     IN  /\ r.seg # << >>
         /\ app' = [app EXCEPT !.adapter = r.adapter,
                               !.tcp = segment_received(@, r.seg[1])]
  /\ wire' = [wire EXCEPT !.peers = @ \cup {d.from},
                          !.late = IF TIME_WAIT(tcp) THEN @ + 1 ELSE @]
  /\ UNCHANGED << pc, pair >>

(* The adapter gives nullopt. *)
RefuseDatagram(d, drop) ==
  /\ Serve(1)
  /\ LET r == lossy_read(app.adapter, d, drop)
     IN  r.seg = << >> /\ app' = [app EXCEPT !.adapter = r.adapter]
  /\ UNCHANGED << pc, wire, pair >>

(* Rule 2. *)
ReadOwner ==
  /\ Serve(2)
  /\ LET limit == remaining_outbound_capacity(tcp)
         n     == min(limit, pair.written - pair.taken)
         data  == SubSeq(OwnerData, pair.taken + 1, pair.taken + n)
         a     == [app EXCEPT !.tcp = write_data(@, data),
                              !.thread_eof = @ \/ (limit > 0 /\ n = 0)]
     IN  /\ app' = IF a.thread_eof THEN end_outbound(a) ELSE a
         /\ pair' = [pair EXCEPT !.taken = @ + n]
  /\ UNCHANGED << pc, wire >>

(* Faulty: takes a partial write for a whole one. *)
ServeOwnerPopsAll(n) ==
  LET b    == pop_output(inbound(app), buffer_size(inbound(app)))
      ends == eof(b) \/ b.error
  IN  /\ app' = [app EXCEPT !.tcp.receiver.reassembler.output = b,
                            !.inbound_shutdown = @ \/ ends]
      /\ pair' = [pair EXCEPT !.to_owner = @ \o peek_output(inbound(app), n),
                              !.thread_shut = @ \/ ends]

(***************************************************************************)
(* Rule 3.  After a shutdown, writev fails with EPIPE, and SIGPIPE or the  *)
(* exception ends the process.                                             *)
(***************************************************************************)
ServeOwner(n) ==
  LET b    == pop_output(inbound(app), n)
      ends == eof(b) \/ b.error
  IN  /\ app' = [app EXCEPT !.tcp.receiver.reassembler.output = b,
                            !.inbound_shutdown = @ \/ ends]
      /\ pair' = [pair EXCEPT !.to_owner = @ \o peek_output(inbound(app), n),
                              !.thread_shut = @ \/ ends]

WriteOwner ==
  /\ ~(pair.thread_shut /\ ~buffer_empty(inbound(app)))
  /\ Serve(3)
  /\ ServeOwner(min(buffer_size(inbound(app)), room))
  /\ UNCHANGED << pc, wire >>

BreakPipe ==
  /\ pair.thread_shut /\ ~buffer_empty(inbound(app))
  /\ Serve(3)
  /\ pc' = "broken"
  /\ UNCHANGED << app, pair, wire >>

(***************************************************************************)
(* Rule 4.  A datagram that LossyFdAdapter drops is one that the peer      *)
(* never answers.                                                          *)
(***************************************************************************)
SendSegments ==
  /\ Serve(4)
  /\ app' = [app EXCEPT !.tcp.segments_out = << >>]
  /\ wire' = [wire EXCEPT !.next_seqno = tcp.sender.next_seqno,
                          !.peers = @ \cup { adapter_write(app.adapter, tcp.segments_out[i]).to :
                                               i \in DOMAIN tcp.segments_out }]
  /\ UNCHANGED << pc, pair >>

(* Faulty: does not look at _abort. *)
AfterWaitIgnoringAbort(ms) ==
  /\ (pc = "timeout" /\ ms > 0) \/ (pc = "serve" /\ ~L!busy(loop))
  /\ app' = IF active(tcp) THEN [app EXCEPT !.tcp = tick(@, ms)] ELSE app
  /\ pc' = IF ~joined /\ ~connecting(app') THEN "leave" ELSE "wait"
  /\ UNCHANGED << loop, joined, pair, wire >>

(***************************************************************************)
(* The rest of a round of _tcp_loop, and the condition of the next one.    *)
(* Time has passed when poll timed out, and perhaps when it did not.       *)
(***************************************************************************)
AfterWait(ms) ==
  /\ (pc = "timeout" /\ ms > 0) \/ (pc = "serve" /\ ~L!busy(loop))
  /\ app' = IF ~app.abort /\ active(tcp) THEN [app EXCEPT !.tcp = tick(@, ms)] ELSE app
  /\ pc' = IF app.abort \/ (~joined /\ ~connecting(app')) THEN "leave" ELSE "wait"
  /\ UNCHANGED << loop, joined, pair, wire >>

(* connect() or listen_and_accept() returns, and _tcp_main begins. *)
StartThread ==
  /\ pc = "leave" /\ ~joined
  /\ joined' = TRUE /\ pc' = "wait"
  /\ UNCHANGED << app, loop, pair, wire >>

(***************************************************************************)
(* The end of _tcp_main: it shuts the owner's socket down and destroys the *)
(* TCPConnection, with whatever its destructor puts in segments_out.       *)
(***************************************************************************)
destroyed(c) ==
  IF active(c) THEN send_empty_segment(unclear_shutdown(c)) ELSE c

EndThread ==
  /\ pc = "leave" /\ joined
  /\ pc' = "over"
  /\ pair' = [pair EXCEPT !.owner_shut = TRUE, !.thread_shut = TRUE]
  /\ app' = [app EXCEPT !.tcp = destroyed(@)]
  /\ UNCHANGED << loop, joined, wire >>

Step ==
  \/ \E came \in BOOLEAN : Wait(came)
  \/ \E k \in 1..4 : Cancel(k)
  \/ \E d \in Datagrams : ReadSegment(d) \/ \E drop \in BOOLEAN : RefuseDatagram(d, drop)
  \/ ReadOwner \/ WriteOwner \/ BreakPipe \/ SendSegments
  \/ \E ms \in {0, Timeout} : AfterWait(ms)
  \/ StartThread \/ EndThread

-----------------------------------------------------------------------------
(***************************************************************************)
(* The owner writes its data, shuts its side down, and reads to the end,   *)
(* in any order; it may destroy the socket at any time.                    *)
(***************************************************************************)
free == joined /\ ~app.abort /\ pc # "broken"

CanWrite ==
  /\ free /\ ~pair.owner_shut
  /\ pair.written < Len(OwnerData) /\ pair.written - pair.taken < Room

Write ==
  /\ CanWrite
  /\ pair' = [pair EXCEPT !.written = @ + 1]
  /\ UNCHANGED << app, loop, pc, joined, wire >>

CanShutdown ==
  free /\ ~pair.owner_shut /\ pair.written = Len(OwnerData)

(* shutdown(SHUT_WR), or wait_until_closed() once the end was read. *)
Shutdown ==
  /\ CanShutdown
  /\ pair' = [pair EXCEPT !.owner_shut = TRUE]
  /\ UNCHANGED << app, loop, pc, joined, wire >>

CanRead ==
  /\ free /\ ~pair.seen_eof
  /\ pair.read < Len(pair.to_owner) \/ pair.thread_shut

Read ==
  /\ CanRead
  /\ pair' = IF pair.read < Len(pair.to_owner) THEN [pair EXCEPT !.read = @ + 1]
             ELSE [pair EXCEPT !.seen_eof = TRUE]
  /\ UNCHANGED << app, loop, pc, joined, wire >>

(* The destructor; nobody has joined _tcp_thread. *)
Destroy ==
  /\ free
  /\ app' = [app EXCEPT !.abort = TRUE]
  /\ UNCHANGED << loop, pc, joined, pair, wire >>

Next == Step \/ Write \/ Shutdown \/ Read \/ Destroy

(***************************************************************************)
(* The thread takes its steps, and time passes while it does; the owner    *)
(* does what it can.  Until the connection has only to linger, the peer    *)
(* sends again and again, and of its datagrams that are read one is now    *)
(* and then what the connection waits for.                                 *)
(***************************************************************************)
(* A Step: each of its actions changes one of the two, and the owner none. *)
ThreadMoves == pc' # pc \/ loop' # loop

ReadDatagram == pc = "serve" /\ 1 \in loop.callbacks

Expecting == active(tcp) /\ ~TIME_WAIT(tcp) /\ ~app.abort

Fairness ==
  /\ []<>(pc \in {"over", "broken"}) \/ []<><<ThreadMoves>>_vars
  /\ <>[][~AfterWait(0)]_vars \/ []<><<AfterWait(Timeout)>>_vars
  /\ []<>~Expecting \/ []<><<Wait(TRUE)>>_vars
  /\ \/ []<>~Expecting \/ <>[]~ReadDatagram
     \/ []<><<ReadSegment(NextDatagram)>>_vars
  /\ []<>~CanWrite /\ []<>~CanShutdown /\ []<>~CanRead

Spec == Init /\ [][Next]_vars /\ Fairness

-----------------------------------------------------------------------------
(***************************************************************************)
(* Between the owner and the TCPConnection nothing is lost, repeated or    *)
(* reordered, whatever the two threads do in between: the connection takes *)
(* all that rule 2 read from the socket pair, so that line 102 is never    *)
(* reached, and rule 3 pops what it wrote and no more                      *)
(* (tcp_sponge_socket.cc:98-103, 130-133).                                 *)
(***************************************************************************)
PairIsIntact ==
  /\ tcp.sender.stream.byte_written = pair.taken
  /\ pair.to_owner \o inbound(app).buffer = SubSeq(PeerData, 1, inbound(app).byte_written)

(***************************************************************************)
(* The connection hears one peer and answers no other, although everybody  *)
(* sends to it all the time, SYN segments too, and although the adapter    *)
(* may stop listening for a SYN that is dropped (fd_adapter.cc:25, 36-43,  *)
(* tcp_over_ip.cc:29-36, 55-68, lossy_fd_adapter.hh:42-48).                *)
(***************************************************************************)
OnePeer ==
  wire.peers # {} => /\ wire.peers = {app.adapter.destination}
                     /\ ~app.adapter.listening
                     /\ app.adapter.over = "ip" => app.adapter.source = Local

(***************************************************************************)
(* The thread does not end before its work is done, unless the owner tells *)
(* it to or the connection was reset: what arrived is with the owner, the  *)
(* owner's reads were ended, the last segment is sent, and after a clean   *)
(* end both streams are through.  Only a reset that finds more bytes than  *)
(* the owner has room for makes rule 3 write to a socket that it shut down *)
(* (tcp_sponge_socket.cc:91, 115, 132-136, 148-149, 161, eventloop.cc:92). *)
(***************************************************************************)
EndsFlushed ==
  /\ pc = "broken" => inbound(app).error
  /\ pc = "over" /\ ~app.abort =>
       /\ buffer_empty(inbound(app)) \/ inbound(app).error
       /\ app.inbound_shutdown /\ tcp.segments_out = << >>
       /\ tcp.clear => pair.to_owner = PeerData /\ pair.taken = Len(OwnerData)

(***************************************************************************)
(* The thread always ends, so that neither wait_until_closed() nor the     *)
(* destructor waits for it forever, and an owner that keeps its socket     *)
(* reads to the end (tcp_sponge_socket.cc:28, 185, 197, 260).              *)
(***************************************************************************)
Released ==
  <>(pc = "broken" \/ (pc = "over" /\ (app.abort \/ pair.seen_eof)))

(***************************************************************************)
(* "if TCPSpongeSocket is destructed while a TCP connection is open, the   *)
(* connection is immediately terminated with a RST"                        *)
(* (tcp_sponge_socket.hh:119-120): no RST is left unsent when the thread   *)
(* has ended.                                                              *)
(***************************************************************************)
ResetIsSent ==
  pc = "over" => \A i \in DOMAIN tcp.segments_out : ~tcp.segments_out[i].rst

=============================================================================
