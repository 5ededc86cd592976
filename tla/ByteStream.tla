----------------------------- MODULE ByteStream -----------------------------
(***************************************************************************)
(* The class ByteStream (libsponge/byte_stream.hh, byte_stream.cc): a      *)
(* finite, flow-controlled, in-memory byte stream.  An object is a record; *)
(* a method that changes the object is an operator that returns the new    *)
(* record.  The deque of Buffers that holds the bytes is abstracted to     *)
(* the sequence of bytes it holds; module ByteStreamDeque models the deque *)
(* itself and shows that it implements this abstraction.                   *)
(***************************************************************************)
EXTENDS Integers, Sequences

(* std::min on two numbers. *)
min(a, b) == IF a <= b THEN a ELSE b

(* The constructor ByteStream::ByteStream. *)
NewByteStream(capacity) ==
  [capacity |-> capacity, buffer |-> << >>, byte_written |-> 0,
   byte_read |-> 0, end |-> FALSE, error |-> FALSE]

(* The objects whose bytes are drawn from the set Byte. *)
ByteStreamType(Byte) ==
  [capacity : Nat, buffer : Seq(Byte), byte_written : Nat,
   byte_read : Nat, end : BOOLEAN, error : BOOLEAN]

buffer_size(s) == s.byte_written - s.byte_read

buffer_empty(s) == buffer_size(s) = 0

eof(s) == s.end /\ buffer_empty(s)

remaining_capacity(s) == s.capacity - buffer_size(s)

(***************************************************************************)
(* ByteStream::write: accepts as many bytes of data as there is room for.  *)
(* It does not look at _end.                                               *)
(***************************************************************************)
accepted_len(s, data) == min(Len(data), remaining_capacity(s))

write(s, data) ==
  [s EXCEPT !.buffer       = @ \o SubSeq(data, 1, accepted_len(s, data)),
            !.byte_written = @ + accepted_len(s, data)]

(* ByteStream::peek_output: a copy of the first len buffered bytes. *)
peek_output(s, len) == SubSeq(s.buffer, 1, min(len, buffer_size(s)))

(* ByteStream::pop_output, which is also what read does to the object. *)
pop_output(s, len) ==
  LET delta_len == min(len, buffer_size(s))
  IN  [s EXCEPT !.buffer    = SubSeq(@, delta_len + 1, Len(@)),
                !.byte_read = @ + delta_len]

end_input(s) == [s EXCEPT !.end = TRUE]

set_error(s) == [s EXCEPT !.error = TRUE]

=============================================================================
