----------------------- MODULE StreamReassemblerSpec ------------------------
(***************************************************************************)
(* A StreamReassembler fed with excerpts of one stream, in any order, any  *)
(* number of times, overlapping in any way, while a reader takes bytes     *)
(* from its output.                                                        *)
(***************************************************************************)
EXTENDS StreamReassembler

CONSTANTS Stream,     \* the bytes of the stream
          Capacity,   \* the constructor's argument
          ReadLens,   \* the lengths the reader asks for
          EofAhead    \* may an empty excerpt carry eof before all bytes came?

ASSUME StreamAssumption == Stream \in Seq(Nat)
ASSUME CapacityAssumption == Capacity \in Nat \ {0}
ASSUME ReadLensAssumption == ReadLens \subseteq Nat
ASSUME EofAheadAssumption == EofAhead \in BOOLEAN

VARIABLE r   \* the object

vars == << r >>

N == Len(Stream)

Init == r = NewStreamReassembler(Capacity)

(***************************************************************************)
(* push_substring on the excerpt of len bytes at index; is_eof tells that  *)
(* its last byte is the last one of the stream.                            *)
(***************************************************************************)
Push(index, len, is_eof) ==
  /\ index + len <= N
  /\ is_eof => index + len = N
  /\ is_eof /\ len = 0 /\ ~EofAhead => r.assembled_bytes = N
  /\ r' = push_substring(r, SubSeq(Stream, index + 1, index + len), index, is_eof)

(* The owner of the output reads len bytes of it. *)
Read(len) == r' = [r EXCEPT !.output = pop_output(@, len)]

Next ==
  \/ \E index, len \in 0..N, is_eof \in BOOLEAN : Push(index, len, is_eof)
  \/ \E len \in ReadLens : Read(len)

Spec == Init /\ [][Next]_vars

(***************************************************************************)
(* Fairness: the sender retransmits each byte until it is acknowledged, so *)
(* an excerpt that would still change the object comes in the end; and the *)
(* application keeps reading.                                              *)
(***************************************************************************)
Fairness ==
  /\ \A index \in 0..N : WF_vars(Push(index, 1, index + 1 = N))
  /\ WF_vars(\E len \in ReadLens : Read(len))

FairSpec == Spec /\ Fairness

-----------------------------------------------------------------------------
IsObject(x) ==
  /\ x \in [output : ByteStreamType(Nat), capacity : {Capacity},
            assembled_bytes : 0..N, stored_bytes : Nat,
            received : SUBSET (0..(N - 1)), strs : {x.strs}, eof : BOOLEAN]
  /\ DOMAIN x.strs \subseteq 0..N
  /\ x.strs \in [DOMAIN x.strs -> Seq(Nat)]

(* Type correctness of the object. *)
TypeOK == IsObject(r)

(***************************************************************************)
(* The output is the stream: its buffer holds exactly the bytes of Stream  *)
(* between the read and the written position, whatever the order and the   *)
(* overlaps of the excerpts.                                               *)
(***************************************************************************)
OutputIsPrefix ==
  r.output.buffer = SubSeq(Stream, r.output.byte_read + 1, r.output.byte_written)

(***************************************************************************)
(* push_substring ignores how many bytes its output accepted.  That is     *)
(* sound because the output always has room: every assembled byte was      *)
(* written, and none lies beyond the capacity.                             *)
(***************************************************************************)
NothingDropped ==
  /\ r.output.byte_written = r.assembled_bytes
  /\ r.assembled_bytes <= limit(r)

(***************************************************************************)
(* unassembled_bytes() counts each waiting byte once, however many         *)
(* overlapping excerpts brought it (stream_reassembler.hh:57-60).          *)
(***************************************************************************)
CountedOnce ==
  unassembled_bytes(r) = Cardinality({b \in 0..(N - 1) : covered(r.strs, b)})

(***************************************************************************)
(* Nothing waits needlessly: the next byte to assemble is never among the  *)
(* waiting substrings, each of which starts after it and ends inside the   *)
(* capacity.                                                               *)
(***************************************************************************)
WaitingAhead ==
  \A k \in DOMAIN r.strs :
    /\ k > r.assembled_bytes
    /\ k + Len(r.strs[k]) <= limit(r)

(***************************************************************************)
(* The output ends only when the stream is complete: "eof the last byte of *)
(* data will be the last byte in the entire stream"                        *)
(* (stream_reassembler.hh:48), so that an ended output must hold every     *)
(* byte.                                                                   *)
(***************************************************************************)
EndsOnlyWhenComplete == r.output.end => r.assembled_bytes = N

(***************************************************************************)
(* Once an eof excerpt was taken in and every byte assembled, the output   *)
(* has been ended: no path through push_substring forgets end_input().     *)
(***************************************************************************)
EndsWhenComplete == r.eof /\ r.assembled_bytes = N => r.output.end

(***************************************************************************)
(* An ended output gets no more bytes: ByteStream::write does not look at  *)
(* _end (byte_stream.cc:25), so it is push_substring that must not write   *)
(* after end_input, whatever excerpts still come.                          *)
(***************************************************************************)
EndIsFinal ==
  [][r.output.end => r'.output.byte_written = r.output.byte_written]_vars

-----------------------------------------------------------------------------
(***************************************************************************)
(* The inductive invariant of the proofs, by parts, on an object x: the    *)
(* counters agree with the output; the output and the waiting substrings   *)
(* hold bytes of Stream at their places; received is what was written and  *)
(* what waits, and stored_bytes its size; waiting substrings lie ahead;    *)
(* eof, and the end of the output, mean what they should.                  *)
(***************************************************************************)
CountersAgree(x) ==
  /\ x.output.capacity = Capacity
  /\ x.output.byte_written = x.assembled_bytes
  /\ x.output.byte_read <= x.assembled_bytes
  /\ x.assembled_bytes <= limit(x)

OutputHeld(x) ==
  /\ Len(x.output.buffer) = buffer_size(x.output)
  /\ \A i \in 1..Len(x.output.buffer) :
       x.output.buffer[i] = Stream[x.output.byte_read + i]

StrsHeld(x) ==
  \A k \in DOMAIN x.strs :
    /\ k + Len(x.strs[k]) <= N
    /\ k + Len(x.strs[k]) <= limit(x)
    /\ \A i \in 1..Len(x.strs[k]) : x.strs[k][i] = Stream[k + i]

Accounted(x) ==
  /\ x.received = { b \in 0..(N - 1) : b < x.assembled_bytes \/ covered(x.strs, b) }
  /\ x.stored_bytes = Cardinality(x.received)

Ahead(x) == \A k \in DOMAIN x.strs : k > x.assembled_bytes

EofSound(x) == ~EofAhead /\ x.eof => N = 0 \/ N - 1 \in x.received

EndSound(x) ==
  /\ ~EofAhead /\ x.output.end => x.assembled_bytes = N
  /\ x.eof /\ x.assembled_bytes = N => x.output.end
  /\ empty(x) => x.output.end

IndInv ==
  /\ TypeOK /\ CountersAgree(r) /\ OutputHeld(r) /\ StrsHeld(r)
  /\ Accounted(r) /\ Ahead(r) /\ EofSound(r) /\ EndSound(r)

-----------------------------------------------------------------------------
(* Everything arrives in the end: the reader sees the end of the stream. *)
Completes == <>(eof(r.output) /\ r.assembled_bytes = N)

=============================================================================
