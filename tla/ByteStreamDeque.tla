-------------------------- MODULE ByteStreamDeque ---------------------------
(***************************************************************************)
(* How ByteStream really holds its bytes: _buffer is a deque of Buffers,   *)
(* one per call of write (an empty one included), and the reader consumes  *)
(* it from the front, whole Buffers first and then a prefix of the next    *)
(* one.  buffer_size() comes from two counters, never from the deque, so   *)
(* the loops are safe only if the deque always holds that many bytes.      *)
(***************************************************************************)
EXTENDS ByteStreamUse, Buffer

CONSTANT MaxBuffers   \* bound on the length of the deque

VARIABLES deque,          \* _buffer: a BufferList
          byte_written, byte_read, end, error,
          accepted, taken

vars == << deque, byte_written, byte_read, end, error, accepted, taken >>

size == byte_written - byte_read

Least(a, b) == IF a <= b THEN a ELSE b

Init ==
  /\ deque = << >>
  /\ byte_written = 0 /\ byte_read = 0
  /\ end = FALSE /\ error = FALSE
  /\ accepted = << >> /\ taken = << >>

(* write pushes one Buffer, empty when nothing fits or nothing is offered. *)
Write(data) ==
  LET delta_len == Least(Len(data), Capacity - size)
  IN  /\ byte_written < MaxWritten
      /\ Len(deque) < MaxBuffers
      /\ deque' = Append(deque, NewBuffer(SubSeq(data, 1, delta_len)))
      /\ byte_written' = byte_written + delta_len
      /\ accepted' = accepted \o SubSeq(data, 1, delta_len)
      /\ UNCHANGED << byte_read, end, error, taken >>

(* The loop of peek_output over the Buffers. *)
RECURSIVE PeekLoop(_, _)
PeekLoop(buffers, true_len) ==
  IF buffers = << >> THEN << >>
  ELSE LET first == buffer_str(Head(buffers))
       IN  IF true_len < Len(first) THEN SubSeq(first, 1, true_len)
           ELSE IF true_len = Len(first) THEN first
           ELSE first \o PeekLoop(Tail(buffers), true_len - Len(first))

(***************************************************************************)
(* The loop of pop_output is that of BufferList::remove_prefix.  It stops  *)
(* as soon as enough bytes are gone, so empty Buffers behind the last one  *)
(* popped stay in the deque.                                               *)
(***************************************************************************)
PopLoop(buffers, delta_len) == list_remove_prefix(buffers, delta_len)

(* Faulty: pops first and peeks after it. *)
ReadPopsFirst(len) ==
  LET delta_len == Least(len, size)
  IN  /\ taken' = taken \o PeekLoop(PopLoop(deque, delta_len), delta_len)
      /\ deque' = PopLoop(deque, delta_len)
      /\ byte_read' = byte_read + delta_len
      /\ UNCHANGED << byte_written, end, error, accepted >>

Read(len) ==
  LET delta_len == Least(len, size)
  IN  /\ taken' = taken \o PeekLoop(deque, delta_len)
      /\ deque' = PopLoop(deque, delta_len)
      /\ byte_read' = byte_read + delta_len
      /\ UNCHANGED << byte_written, end, error, accepted >>

EndInput ==
  /\ end' = TRUE
  /\ UNCHANGED << deque, byte_written, byte_read, error, accepted, taken >>

SetError ==
  /\ error' = TRUE
  /\ UNCHANGED << deque, byte_written, byte_read, end, accepted, taken >>

Next ==
  \/ \E data \in Data : Write(data)
  \/ \E len \in ReadLens : Read(len)
  \/ EndInput
  \/ SetError

Spec == Init /\ [][Next]_vars

-----------------------------------------------------------------------------
(* The bytes the deque holds, in order. *)
Content == concatenate(deque)

Abstract == INSTANCE ByteStreamSpec WITH
  stream <- [capacity |-> Capacity, buffer |-> Content,
             byte_written |-> byte_written, byte_read |-> byte_read,
             end |-> end, error |-> error]

(***************************************************************************)
(* The deque and its loops implement the plain byte queue of               *)
(* ByteStreamSpec: write, peek_output and pop_output lose, repeat and      *)
(* reorder nothing, whatever Buffers the bytes are cut into; the deque     *)
(* holds the bytes that the two counters announce, so that pop_output      *)
(* never calls front() on an empty one (byte_stream.cc:25-31, 34-68,       *)
(* buffer.cc:5-13, 51-65).                                                 *)
(***************************************************************************)
ImplementsByteStream == Abstract!Spec

=============================================================================
