--------------------------- MODULE ByteStreamSpec ---------------------------
(***************************************************************************)
(* One ByteStream shared by a writer and a reader.  The writer writes, and *)
(* ends the input; the reader reads; either may set the error flag.  The   *)
(* history variables accepted and taken hold the bytes that write took in  *)
(* and the bytes that read gave out, since the stream was made.            *)
(***************************************************************************)
EXTENDS ByteStream, ByteStreamUse

VARIABLES stream,     \* the object
          accepted,   \* history: every byte accepted by write, in order
          taken       \* history: every byte returned by read, in order

vars == << stream, accepted, taken >>

Init ==
  /\ stream = NewByteStream(Capacity)
  /\ accepted = << >>
  /\ taken = << >>

(* ByteStream::write(data). *)
Write(data) ==
  /\ stream.byte_written < MaxWritten
  /\ stream' = write(stream, data)
  /\ accepted' = accepted \o SubSeq(data, 1, accepted_len(stream, data))
  /\ UNCHANGED taken

(* ByteStream::read(len): peek, then pop the same length. *)
Read(len) ==
  LET delta_len == min(len, buffer_size(stream))
  IN  /\ taken' = taken \o peek_output(stream, delta_len)
      /\ stream' = pop_output(stream, delta_len)
      /\ UNCHANGED accepted

(* ByteStream::end_input. *)
EndInput == stream' = end_input(stream) /\ UNCHANGED << accepted, taken >>

(* ByteStream::set_error. *)
SetError == stream' = set_error(stream) /\ UNCHANGED << accepted, taken >>

Next ==
  \/ \E data \in Data : Write(data)
  \/ \E len \in ReadLens : Read(len)
  \/ EndInput
  \/ SetError

Spec == Init /\ [][Next]_vars

-----------------------------------------------------------------------------
(* Type correctness of the object and of the two histories. *)
TypeOK ==
  /\ stream \in ByteStreamType(Byte)
  /\ accepted \in Seq(Byte)
  /\ taken \in Seq(Byte)

(***************************************************************************)
(* First in, first out, without loss or duplication: whatever the order of *)
(* writes, partial writes and reads, the bytes write accepted are those    *)
(* that read has returned followed by those still buffered.                *)
(***************************************************************************)
Fifo == accepted = taken \o stream.buffer

(***************************************************************************)
(* The two counters tell the truth about the buffer: buffer_size(), which  *)
(* is a difference of counters, is the number of bytes really buffered,    *)
(* and it never exceeds the capacity, so that the unsigned subtraction in  *)
(* remaining_capacity() cannot wrap.                                       *)
(***************************************************************************)
Accounting ==
  /\ stream.capacity = Capacity
  /\ buffer_size(stream) = Len(stream.buffer)
  /\ Len(stream.buffer) <= Capacity
  /\ stream.byte_written = Len(accepted)

=============================================================================
