------------------------- MODULE StreamReassembler --------------------------
(***************************************************************************)
(* The class StreamReassembler (libsponge/stream_reassembler.hh, .cc): it  *)
(* is given excerpts of a byte stream, in any order and overlapping, and   *)
(* writes the bytes to its output in order, each as soon as all earlier    *)
(* ones are known.                                                         *)
(*                                                                         *)
(*   strs       the substrings waiting, by index: the list                 *)
(*              _str_to_assemble together with its directory _existed      *)
(*   received   the bytes seen so far: the complement of the free          *)
(*              intervals kept in _used_byte (module FreeIntervals models  *)
(*              the intervals and shows that they implement this set)      *)
(***************************************************************************)
EXTENDS ByteStream, FiniteSets

NewStreamReassembler(capacity) ==
  [output |-> NewByteStream(capacity), capacity |-> capacity,
   assembled_bytes |-> 0, stored_bytes |-> 0, received |-> {},
   strs |-> [i \in {} |-> << >>], eof |-> FALSE]

unassembled_bytes(r) == r.stored_bytes - r.assembled_bytes

(* Faulty: forgets that bytes may still be missing. *)
empty_by_eof_alone(r) == r.eof

empty(r) == r.stored_bytes = r.assembled_bytes /\ r.eof


(* The first stream index that does not fit: _capacity + bytes_read(). *)
limit(r) == r.capacity + r.output.byte_read

(* Faulty: counts bytes again that it has already. *)
store_counts_all(r, tmp, index) ==
  [r EXCEPT !.stored_bytes = @ + Len(tmp),
            !.received = @ \cup (index..(index + Len(tmp) - 1)),
            !.strs = [i \in DOMAIN @ \cup {index} |-> IF i = index THEN tmp ELSE @[i]]]

(***************************************************************************)
(* Lines 59-86: count the bytes of tmp not seen before, and keep tmp,      *)
(* unless a substring at least as long waits at the same index.            *)
(***************************************************************************)
store(r, tmp, index) ==
  LET claimed == index .. (index + Len(tmp) - 1)
      keep_old == index \in DOMAIN r.strs /\ Len(tmp) <= Len(r.strs[index])
  IN  [r EXCEPT
        !.stored_bytes = @ + Cardinality(claimed \ r.received),
        !.received = @ \cup claimed,
        !.strs = IF keep_old THEN @
                 ELSE [i \in DOMAIN @ \cup {index} |->
                         IF i = index THEN tmp ELSE @[i]]]

(* Does the substring waiting at index k hold byte b of the stream? *)
covers(strs, k, b) == k <= b /\ b < k + Len(strs[k])

covered(strs, b) == \E k \in DOMAIN strs : covers(strs, k, b)

(* The first byte from from on that no waiting substring holds. *)
first_gap(strs, from, to) ==
  CHOOSE a \in from..to :
    /\ ~covered(strs, a)
    /\ \A b \in from..(a - 1) : covered(strs, b)

(* Byte b, from the substring with the lowest index that holds it. *)
byte_at(strs, b) ==
  LET k == CHOOSE i \in DOMAIN strs :
             /\ covers(strs, i, b)
             /\ \A j \in DOMAIN strs : covers(strs, j, b) => i <= j
  IN  strs[k][b - k + 1]

(* Faulty: leaves a substring that starts just where drain stopped. *)
drain_strict(r) ==
  LET a == first_gap(r.strs, r.assembled_bytes, limit(r))
      ready == [i \in 1..(a - r.assembled_bytes) |->
                  byte_at(r.strs, r.assembled_bytes + i - 1)]
  IN  [r EXCEPT !.output = write(@, ready),
                !.assembled_bytes = a,
                !.strs = [k \in {i \in DOMAIN @ : i >= a} |-> @[k]]]

(***************************************************************************)
(* Lines 87-96: write out the contiguous bytes that are waiting, and drop  *)
(* every substring that starts at or before the new assembled_bytes.  The  *)
(* return value of write is ignored, as in the code.                       *)
(***************************************************************************)
drain(r) ==
  LET a == first_gap(r.strs, r.assembled_bytes, limit(r))
      ready == [i \in 1..(a - r.assembled_bytes) |->
                  byte_at(r.strs, r.assembled_bytes + i - 1)]
  IN  [r EXCEPT !.output = write(@, ready),
                !.assembled_bytes = a,
                !.strs = [k \in {i \in DOMAIN @ : i > a} |-> @[k]]]

end_if_empty(r) ==
  IF empty(r) THEN [r EXCEPT !.output = end_input(@)] ELSE r

(* Faulty: cuts an excerpt that does not fit at the wrong end. *)
push_substring_keeps_tail(r, data, index, is_eof) ==
  LET n   == min(Len(data), limit(r) - index)
      tmp == SubSeq(data, Len(data) - n + 1, Len(data))
      r1  == [r EXCEPT !.eof = @ \/ (index + Len(data) <= limit(r) /\ is_eof)]
  IN  IF index >= limit(r) THEN r
      ELSE IF index + Len(tmp) <= r.assembled_bytes THEN end_if_empty(r1)
      ELSE end_if_empty(drain(store(r1, tmp, index)))

(* Faulty: the early return does not end the output. *)
push_substring_returns_early(r, data, index, is_eof) ==
  LET tmp == SubSeq(data, 1, min(Len(data), limit(r) - index))
      r1  == [r EXCEPT !.eof = @ \/ (index + Len(data) <= limit(r) /\ is_eof)]
  IN  IF index >= limit(r) THEN r
      ELSE IF index + Len(tmp) <= r.assembled_bytes THEN r1
      ELSE end_if_empty(drain(store(r1, tmp, index)))

(* StreamReassembler::push_substring. *)
push_substring(r, data, index, is_eof) ==
  LET tmp  == SubSeq(data, 1, min(Len(data), limit(r) - index))
      fits == index + Len(data) <= limit(r)
      r1   == [r EXCEPT !.eof = @ \/ (fits /\ is_eof)]
  IN  IF index >= limit(r) THEN r
      ELSE IF index + Len(tmp) <= r.assembled_bytes THEN end_if_empty(r1)
      ELSE end_if_empty(drain(store(r1, tmp, index)))

=============================================================================
