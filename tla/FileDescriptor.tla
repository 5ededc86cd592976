--------------------------- MODULE FileDescriptor ---------------------------
(***************************************************************************)
(* FileDescriptor (libsponge/util/file_descriptor.hh, .cc) and what        *)
(* Socket::shutdown (socket.cc) adds to it: the state of an FDWrapper,     *)
(* with the counters by which an EventLoop tells that a callback did       *)
(* something.  What the system calls return is a parameter.                *)
(***************************************************************************)
EXTENDS Integers, Sequences

NewFileDescriptor ==
  [eof |-> FALSE, closed |-> FALSE, read_count |-> 0, write_count |-> 0]

register_read(fd) == [fd EXCEPT !.read_count = @ + 1]

register_write(fd) == [fd EXCEPT !.write_count = @ + 1]

(* Faulty: counts only the reads that bring something. *)
fd_read_counting_data(fd, limit, str) ==
  IF str = << >> THEN [fd EXCEPT !.eof = @ \/ limit > 0] ELSE register_read(fd)

(* read, which got str: an empty one that was asked for is the end. *)
fd_read(fd, limit, str) ==
  register_read([fd EXCEPT !.eof = @ \/ (limit > 0 /\ str = << >>)])

(* write without write_all, of which writev took some part. *)
fd_write(fd) == register_write(fd)

fd_close(fd) == [fd EXCEPT !.eof = TRUE, !.closed = TRUE]

(* Socket::shutdown of the direction SHUT_WR. *)
shutdown_write(fd) == register_write(fd)

=============================================================================
