----------------------------- MODULE StreamCopy -----------------------------
(***************************************************************************)
(* bidirectional_stream_copy (apps/bidirectional_stream_copy.cc): four     *)
(* rules of an EventLoop copy stdin to a socket and the socket to stdout   *)
(* through two ByteStreams, while a producer, the peer and a reader work   *)
(* the other ends of the three descriptors.  Where the socket is a         *)
(* TCPSpongeSocket, its TCP thread shuts the socket down when it ends,     *)
(* and counts that on the descriptor of the EventLoop, without a lock.     *)
(***************************************************************************)
EXTENDS ByteStream, FileDescriptor, FiniteSets

CONSTANTS Input, Answer,   \* what the producer and the peer send
          buffer_size_max, \* buffer_size of the source
          max_copy_length,
          Room             \* what the kernel buffers of an output

ASSUME DataAssumption == Input \in Seq(Nat) /\ Answer \in Seq(Nat)
ASSUME SizeAssumption ==
  {buffer_size_max, max_copy_length, Room} \subseteq Nat \ {0}

VARIABLES app,     \* the local variables, with the three FileDescriptors
          loop,    \* the EventLoop
          world,   \* the other ends of the descriptors
          thread,  \* the end of the TCP thread, if there is one
          over     \* how the function ended: returned, thrown or killed

vars == << app, loop, world, thread, over >>

NewApp ==
  [outbound |-> NewByteStream(buffer_size_max), inbound |-> NewByteStream(buffer_size_max),
   outbound_shutdown |-> FALSE, inbound_shutdown |-> FALSE,
   input |-> NewFileDescriptor, socket |-> NewFileDescriptor,
   output |-> NewFileDescriptor]

(* The descriptors and the functions of the four rules. *)
fd(k, a) == CASE k = 1 -> a.input [] k \in {2, 3} -> a.socket [] k = 4 -> a.output

eof_flag(k, a) == fd(k, a).eof

closed_flag(k, a) == fd(k, a).closed

service_count(k, a) == IF k \in {1, 3} THEN fd(k, a).read_count ELSE fd(k, a).write_count

reads(from, into) == ~from.error /\ remaining_capacity(from) > 0 /\ ~into.error

(* Faulty: does not pass the end of a stream on. *)
writes_data_only(b, is_shutdown) == ~buffer_empty(b)

writes(b, is_shutdown) == ~buffer_empty(b) \/ (eof(b) /\ ~is_shutdown)

interest(k, a) ==
  CASE k = 1 -> reads(a.outbound, a.inbound)
    [] k = 2 -> writes(a.outbound, a.outbound_shutdown)
    [] k = 3 -> reads(a.inbound, a.outbound)
    [] k = 4 -> writes(a.inbound, a.inbound_shutdown)

cancel(k, a) ==
  CASE k = 1 -> [a EXCEPT !.outbound = end_input(@)]
    [] k = 2 -> [a EXCEPT !.outbound = set_error(@)]
    [] k = 3 -> [a EXCEPT !.inbound = end_input(@)]
    [] k = 4 -> [a EXCEPT !.inbound = set_error(@)]

L == INSTANCE EventLoop WITH NRules <- 4, In <- {1, 3}, eof <- eof_flag,
                             closed <- closed_flag

-----------------------------------------------------------------------------
(***************************************************************************)
(* The other ends: how much the producer typed and the peer answered, and  *)
(* how much of that was read here; what was written here, and how much of  *)
(* it was taken there.  The end of a pipe shows as a hangup, that of a     *)
(* terminal or a file as an empty read.  A kernel socket has no thread.    *)
(***************************************************************************)
InitWorld ==
  \E pipe \in BOOLEAN :
    world = [is_pipe |-> pipe,
             typed |-> 0, input_ended |-> FALSE, input_read |-> 0,
             answered |-> 0, peer_ended |-> FALSE, socket_read |-> 0,
             to_socket |-> << >>, socket_shut |-> FALSE, took |-> 0,
             to_output |-> << >>, output_shut |-> FALSE, drained |-> 0]

(***************************************************************************)
(* Where the thread is, the count it has loaded and not yet stored; was    *)
(* the connection reset, and has a store of the thread overwritten counts  *)
(* of the loop?                                                            *)
(***************************************************************************)
InitThread ==
  \E pc \in {"none", "runs"} :
    thread = [pc |-> pc, loaded |-> 0, reset |-> FALSE, overwrote |-> FALSE]

Init ==
  app = NewApp /\ loop = L!NewEventLoop /\ InitWorld /\ InitThread /\ over = "no"

has_ended == thread.pc \notin {"none", "runs"}

socket_room == Room - (Len(world.to_socket) - world.took)

output_room == Room - (Len(world.to_output) - world.drained)

Ready ==
  { k \in 1..4 :
      CASE k = 1 -> world.typed > world.input_read
                      \/ (world.input_ended /\ ~world.is_pipe)
        [] k = 2 -> socket_room > 0
        [] k = 3 -> world.answered > world.socket_read \/ world.peer_ended
        [] k = 4 -> output_room > 0 }

(* A socket hangs up when both directions are shut down. *)
Hup ==
  (IF world.is_pipe /\ world.input_ended THEN {1} ELSE {})
    \cup (IF world.peer_ended /\ world.socket_shut THEN {2, 3} ELSE {})

(* wait_next_event up to the return of poll. *)
Wait ==
  /\ over = "no" /\ ~L!busy(loop)
  /\ LET s == L!set_up(app, loop)
     IN  /\ app' = s.app
         /\ \/ /\ L!exits(s)
               /\ over' = "returned"
               /\ loop' = [loop EXCEPT !.rules = s.rules]
            \/ /\ ~L!exits(s) /\ L!returns(s, Ready, Hup)
               /\ loop' = L!poll(s, Ready, Hup)
               /\ UNCHANGED over
  /\ UNCHANGED << world, thread >>

Cancel(k) ==
  /\ over = "no" /\ loop.service = << >>
  /\ k \in loop.cancels /\ L!next_result(loop, k)
  /\ app' = cancel(k, app) /\ loop' = L!erased(loop, k)
  /\ UNCHANGED << world, thread, over >>

(* What surrounds a callback: count_before, and the busy wait check. *)
Count(k) ==
  /\ over = "no" /\ loop.service = << >>
  /\ k \in loop.callbacks /\ L!next_result(loop, k)
  /\ loop' = L!served(loop, k, service_count(k, app))
  /\ UNCHANGED << app, world, thread, over >>

Serve(k) ==
  /\ over = "no" /\ L!in_service(loop, k)
  /\ loop' = L!called(loop, k)
  /\ UNCHANGED << thread, over >>

Check ==
  /\ over = "no" /\ L!to_check(loop)
  /\ LET k == loop.service[1]
     IN  over' = IF L!busy_wait(loop, service_count(k, app), interest(k, app))
                   THEN "thrown" ELSE "no"
  /\ loop' = L!checked(loop)
  /\ UNCHANGED << app, world, thread >>

ReadInput ==
  /\ Serve(1)
  /\ LET limit == remaining_capacity(app.outbound)
         n     == min(limit, world.typed - world.input_read)
         data  == SubSeq(Input, world.input_read + 1, world.input_read + n)
         f     == fd_read(app.input, limit, data)
         b     == write(app.outbound, data)
     IN  /\ app' = [app EXCEPT !.input = f, !.outbound = IF f.eof THEN end_input(b) ELSE b]
         /\ world' = [world EXCEPT !.input_read = @ + n]

(* Faulty: pops all that it tried to write. *)
WriteSocketPopsAll ==
  /\ Serve(2) /\ ~world.socket_shut
  /\ LET bytes_to_write == min(max_copy_length, buffer_size(app.outbound))
         n    == min(bytes_to_write, socket_room)
         b    == pop_output(app.outbound, bytes_to_write)
         f    == fd_write(app.socket)
     IN  /\ app' = [app EXCEPT !.outbound = b, !.outbound_shutdown = @ \/ eof(b),
                               !.socket = IF eof(b) THEN shutdown_write(f) ELSE f]
         /\ world' = [world EXCEPT !.to_socket = @ \o peek_output(app.outbound, n),
                                   !.socket_shut = @ \/ eof(b)]

WriteSocket ==
  /\ Serve(2) /\ ~world.socket_shut
  /\ LET bytes_to_write == min(max_copy_length, buffer_size(app.outbound))
         n    == min(bytes_to_write, socket_room)
         b    == pop_output(app.outbound, n)
         f    == fd_write(app.socket)
     IN  /\ app' = [app EXCEPT !.outbound = b, !.outbound_shutdown = @ \/ eof(b),
                               !.socket = IF eof(b) THEN shutdown_write(f) ELSE f]
         /\ world' = [world EXCEPT !.to_socket = @ \o peek_output(app.outbound, n),
                                   !.socket_shut = @ \/ eof(b)]

(* After a shutdown of the socket, writev raises a SIGPIPE. *)
WriteShutSocket ==
  /\ over = "no" /\ L!in_service(loop, 2) /\ world.socket_shut
  /\ over' = "killed"
  /\ UNCHANGED << app, loop, world, thread >>

ReadSocket ==
  /\ Serve(3)
  /\ LET limit == remaining_capacity(app.inbound)
         n     == min(limit, world.answered - world.socket_read)
         data  == SubSeq(Answer, world.socket_read + 1, world.socket_read + n)
         f     == fd_read(app.socket, limit, data)
         b     == write(app.inbound, data)
     IN  /\ app' = [app EXCEPT !.socket = f, !.inbound = IF f.eof THEN end_input(b) ELSE b]
         /\ world' = [world EXCEPT !.socket_read = @ + n]

WriteOutput ==
  /\ Serve(4)
  /\ LET bytes_to_write == min(max_copy_length, buffer_size(app.inbound))
         n    == min(bytes_to_write, output_room)
         b    == pop_output(app.inbound, n)
         f    == fd_write(app.output)
     IN  /\ app' = [app EXCEPT !.inbound = b, !.inbound_shutdown = @ \/ eof(b),
                               !.output = IF eof(b) THEN fd_close(f) ELSE f]
         /\ world' = [world EXCEPT !.to_output = @ \o peek_output(app.inbound, n),
                                   !.output_shut = @ \/ eof(b)]

-----------------------------------------------------------------------------
(* The steps of the producer, of the peer, and of the reader of stdout. *)
Type ==
  /\ world.typed < Len(Input)
  /\ world' = [world EXCEPT !.typed = @ + 1]
  /\ UNCHANGED << app, loop, thread, over >>

EndTyping ==
  /\ world.typed = Len(Input) /\ ~world.input_ended
  /\ world' = [world EXCEPT !.input_ended = TRUE]
  /\ UNCHANGED << app, loop, thread, over >>

Respond ==
  /\ world.answered < Len(Answer) /\ ~world.peer_ended
  /\ world' = [world EXCEPT !.answered = @ + 1]
  /\ UNCHANGED << app, loop, thread, over >>

EndAnswer ==
  /\ world.answered = Len(Answer) /\ ~world.peer_ended
  /\ world' = [world EXCEPT !.peer_ended = TRUE]
  /\ UNCHANGED << app, loop, thread, over >>

Take ==
  /\ world.took < Len(world.to_socket) /\ ~has_ended
  /\ world' = [world EXCEPT !.took = @ + 1]
  /\ UNCHANGED << app, loop, thread, over >>

Drain ==
  /\ world.drained < Len(world.to_output)
  /\ world' = [world EXCEPT !.drained = @ + 1]
  /\ UNCHANGED << app, loop, thread, over >>

(***************************************************************************)
(* The end of _tcp_main: its loop is over because both directions are      *)
(* done, or because the connection is reset; shutdown(SHUT_RDWR), with its *)
(* register_read and register_write in two steps each.  What the pair of   *)
(* sockets still holds for this side can be read.                          *)
(***************************************************************************)
ShutDown(reset) ==
  /\ thread.pc = "runs"
  /\ reset \/ (world.peer_ended /\ world.socket_shut /\ world.took = Len(world.to_socket))
  /\ thread' = [thread EXCEPT !.pc = "shut", !.reset = reset]
  /\ world' = [world EXCEPT !.peer_ended = TRUE, !.socket_shut = TRUE]
  /\ UNCHANGED << app, loop, over >>

Load(pc, next_pc, count) ==
  /\ thread.pc = pc
  /\ thread' = [thread EXCEPT !.pc = next_pc, !.loaded = count]
  /\ UNCHANGED << app, loop, world, over >>

Stored(pc, next_pc, count) ==
  /\ thread.pc = pc
  /\ thread' = [thread EXCEPT !.pc = next_pc, !.loaded = 0,
                              !.overwrote = @ \/ count # thread.loaded]
  /\ UNCHANGED << loop, world, over >>

StoreRead ==
  /\ Stored("read", "read_counted", app.socket.read_count)
  /\ app' = [app EXCEPT !.socket.read_count = thread.loaded + 1]

StoreWrite ==
  /\ Stored("write", "ended", app.socket.write_count)
  /\ app' = [app EXCEPT !.socket.write_count = thread.loaded + 1]

Step ==
  \/ Wait
  \/ \E k \in 1..4 : Cancel(k) \/ Count(k)
  \/ ReadInput \/ WriteSocket \/ WriteShutSocket \/ ReadSocket \/ WriteOutput
  \/ Check

World ==
  \/ Type \/ EndTyping \/ Respond \/ EndAnswer \/ Take \/ Drain
  \/ ShutDown(FALSE)
  \/ Load("shut", "read", app.socket.read_count) \/ StoreRead
  \/ Load("read_counted", "write", app.socket.write_count) \/ StoreWrite

Next == Step \/ World \/ ShutDown(TRUE)

(* A poll that returns for a hangup of a placeholder does not count. *)
CanStep ==
  over = "no" /\ ( L!busy(loop)
                   \/ LET s == L!set_up(app, loop)
                      IN  \/ L!exits(s)
                          \/ L!returns(s, Ready, Hup) /\ L!poll(s, Ready, Hup) # loop )

(***************************************************************************)
(* Weak fairness of the program (CanStep is when it can go on) and of the  *)
(* others, each of whom has finitely much to do.  A reset need not happen. *)
(***************************************************************************)
Fairness == ([]<>~CanStep \/ []<><<Step>>_vars) /\ WF_vars(World)

Spec == Init /\ [][Next]_vars /\ Fairness

-----------------------------------------------------------------------------
(***************************************************************************)
(* Each direction copies in order, and nothing that was read is lost, not  *)
(* even when the function returns: what was written and what waits in the  *)
(* ByteStream is what was read, and nothing waits any more in the end      *)
(* unless the connection was reset (bidirectional_stream_copy.cc:33, 47,   *)
(* 61, 75 and eventloop.cc:92).                                            *)
(***************************************************************************)
NothingLost ==
  /\ world.to_socket \o app.outbound.buffer = SubSeq(Input, 1, world.input_read)
  /\ world.to_output \o app.inbound.buffer = SubSeq(Answer, 1, world.socket_read)
  /\ over = "returned" /\ ~thread.reset
       => buffer_empty(app.outbound) /\ buffer_empty(app.inbound)

(***************************************************************************)
(* EventLoop finds a busy wait (eventloop.cc:135) only after the TCP       *)
(* thread's unsynchronised count of its shutdown has overwritten counts of *)
(* the loop (socket.cc:80): every callback, also one that meets an end of  *)
(* file, a full kernel buffer or a hangup, counts or loses its interest.   *)
(* And only a reset kills the program with a SIGPIPE: the thread of a      *)
(* connection that ends in order never shuts the socket down under a rule  *)
(* 2 that still writes (tcp_sponge_socket.cc:260).                         *)
(***************************************************************************)
FailsOnlyByRaceOrReset ==
  /\ over = "thrown" => thread.overwrote
  /\ over = "killed" => thread.reset

(***************************************************************************)
(* The function ends and, if it returns without a reset, stdout has all of *)
(* the answer and its end, and the socket has all that was typed and its   *)
(* end if the loop saw the end of the input while stdout was open: the     *)
(* four rules never wait for each other, whichever side ends first         *)
(* (eventloop.cc:67-94).  An answer that ends first ends the copy of the   *)
(* input, too: rule 4 closes stdout, and the next wait_next_event cancels  *)
(* rule 4 for it, which makes rule 1 lose its interest (lines 38, 78, 83   *)
(* and eventloop.cc:76-77).                                                *)
(***************************************************************************)
Returns ==
  <>( /\ over # "no"
      /\ over = "returned" /\ ~thread.reset =>
           /\ world.output_shut /\ world.to_output = Answer
           /\ app.outbound.end => world.socket_shut /\ world.to_socket = Input )

=============================================================================
