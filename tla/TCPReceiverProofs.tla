------------------------- MODULE TCPReceiverProofs --------------------------
(***************************************************************************)
(* Proofs about TCPReceiverSpec, for every stream, capacity, modulus and   *)
(* initial sequence number: the receiver uses its StreamReassembler as     *)
(* StreamReassemblerSpec says, so that what StreamReassemblerProofs proves *)
(* holds of the receiver, and what it acknowledges and offers is sound.    *)
(* An instance has operators of its own (R!drain, P!drain), which the      *)
(* first lemmas show to be the same.                                       *)
(***************************************************************************)
EXTENDS TCPReceiverSpec, WrappingIntegersProofs, SequenceTheorems

P == INSTANCE StreamReassemblerProofs WITH r <- rcv.reassembler, EofAhead <- FinAhead

(* What the instances assume of their constants. *)
LEMMA Assumptions ==
  /\ Stream \in Seq(Nat) /\ Capacity \in Nat \ {0} /\ ReadLens \subseteq Nat
  /\ FinAhead \in BOOLEAN
  BY PeerAssumption, CapacityAssumption, ReadLensAssumption, FlagsAssumption

LEMMA SameLimitAndEnd ==
  ASSUME NEW x
  PROVE  /\ R!limit(x) = limit(x) /\ P!limit(x) = limit(x)
         /\ R!end_if_empty(x) = end_if_empty(x) /\ P!end_if_empty(x) = end_if_empty(x)
  BY DEF limit, R!limit, P!limit, end_if_empty, R!end_if_empty, P!end_if_empty,
         empty, R!empty, P!empty, end_input, R!end_input, P!end_input

LEMMA SameDrain ==
  ASSUME NEW x
  PROVE  R!drain(x) = drain(x) /\ P!drain(x) = drain(x)
  BY DEF drain, R!drain, P!drain, limit, R!limit, P!limit,
         first_gap, R!first_gap, P!first_gap, byte_at, R!byte_at, P!byte_at,
         covered, R!covered, P!covered, covers, R!covers, P!covers,
         write, R!write, P!write, accepted_len, R!accepted_len, P!accepted_len,
         remaining_capacity, R!remaining_capacity, P!remaining_capacity,
         buffer_size, R!buffer_size, P!buffer_size, min, R!min, P!min

LEMMA SameStore ==
  ASSUME NEW x, NEW t, NEW i
  PROVE  R!store(x, t, i) = store(x, t, i) /\ P!store(x, t, i) = store(x, t, i)
<1>1. ASSUME NEW S
      PROVE  R!Cardinality(S) = Cardinality(S) /\ P!Cardinality(S) = Cardinality(S)
  BY Zenon DEF Cardinality, R!Cardinality, P!Cardinality
<1>2. R!store(x, t, i) = store(x, t, i)
  BY <1>1, Zenon DEF store, R!store
<1>3. P!store(x, t, i) = store(x, t, i)
  BY <1>1, Zenon DEF store, P!store
<1> QED
  BY <1>2, <1>3

LEMMA SamePush ==
  ASSUME NEW x, NEW d, NEW i, NEW e
  PROVE  /\ R!push_substring(x, d, i, e) = push_substring(x, d, i, e)
         /\ P!push_substring(x, d, i, e) = push_substring(x, d, i, e)
<1> DEFINE tmp == SubSeq(d, 1, min(Len(d), limit(x) - i))
           r1 == [x EXCEPT !.eof = @ \/ (i + Len(d) <= limit(x) /\ e)]
<1>1. /\ R!min(Len(d), limit(x) - i) = min(Len(d), limit(x) - i)
      /\ P!min(Len(d), limit(x) - i) = min(Len(d), limit(x) - i)
  BY DEF min, R!min, P!min
<1>2. /\ R!limit(x) = limit(x) /\ R!end_if_empty(r1) = end_if_empty(r1)
      /\ P!limit(x) = limit(x) /\ P!end_if_empty(r1) = end_if_empty(r1)
  BY SameLimitAndEnd, Zenon
<1>3. /\ R!end_if_empty(R!drain(R!store(r1, tmp, i))) = end_if_empty(drain(store(r1, tmp, i)))
      /\ P!end_if_empty(P!drain(P!store(r1, tmp, i))) = end_if_empty(drain(store(r1, tmp, i)))
  BY SameLimitAndEnd, SameDrain, SameStore, Zenon
<1>4. R!push_substring(x, d, i, e) = push_substring(x, d, i, e)
  BY <1>1, <1>2, <1>3, Zenon DEF push_substring, R!push_substring
<1>5. P!push_substring(x, d, i, e) = push_substring(x, d, i, e)
  BY <1>1, <1>2, <1>3, Zenon DEF push_substring, P!push_substring
<1> QED
  BY <1>4, <1>5

LEMMA SamePop ==
  ASSUME NEW s, NEW len
  PROVE  R!pop_output(s, len) = pop_output(s, len) /\ P!pop_output(s, len) = pop_output(s, len)
  BY DEF pop_output, R!pop_output, P!pop_output, min, R!min, P!min,
         buffer_size, R!buffer_size, P!buffer_size

-----------------------------------------------------------------------------
(***************************************************************************)
(* The inductive invariant.  Before the SYN the reassembler is new; the    *)
(* history holds the SYN, every byte received and the FIN.                 *)
(***************************************************************************)
IsReceiver ==
  /\ rcv = [reassembler |-> rcv.reassembler, isn |-> rcv.isn]
  /\ rcv.isn \in {nullopt, PeerISN}
  /\ P!Good(rcv.reassembler)
  /\ rcv.isn = nullopt => rcv.reassembler = NewStreamReassembler(Capacity)

HistoryKept ==
  /\ rcv.isn # nullopt => 0 \in arrived
  /\ \A b \in rcv.reassembler.received : b + 1 \in arrived
  /\ rcv.reassembler.eof => N + 1 \in arrived

(* What Good says that is needed here. *)
LEMMA GoodObject ==
  ASSUME NEW x, P!Good(x)
  PROVE  /\ N \in Nat /\ x.assembled_bytes \in 0..N
         /\ x.output.byte_read \in 0..x.assembled_bytes
         /\ x.output.byte_written = x.assembled_bytes /\ x.output.capacity = Capacity
         /\ x.capacity = Capacity /\ x.eof \in BOOLEAN /\ x.output.end \in BOOLEAN
         /\ x.assembled_bytes <= limit(x) /\ limit(x) = Capacity + x.output.byte_read
         /\ empty(x) => x.output.end
         /\ ~FinAhead /\ x.output.end => x.assembled_bytes = N
         /\ \A b \in 0..(x.assembled_bytes - 1) : b \in x.received
<1>1. N \in Nat /\ P!N = N
  BY Assumptions DEF N, P!N
<1>2. P!limit(x) = limit(x)
  BY SameLimitAndEnd
<1>3. /\ x.capacity = Capacity /\ x.assembled_bytes \in 0..N /\ x.eof \in BOOLEAN
      /\ x.output.byte_read \in Nat /\ x.output.end \in BOOLEAN
  BY <1>1 DEF P!Good, P!Core, P!IsObject, P!ByteStreamType
<1>4. /\ x.output.capacity = Capacity /\ x.output.byte_written = x.assembled_bytes
      /\ x.output.byte_read <= x.assembled_bytes /\ x.assembled_bytes <= limit(x)
  BY <1>2 DEF P!Good, P!Core, P!CountersAgree
<1>5. /\ ~FinAhead /\ x.output.end => x.assembled_bytes = N
      /\ empty(x) => x.output.end
  BY <1>1 DEF P!Good, P!EndSound, empty, P!empty
<1>6. \A b \in 0..(x.assembled_bytes - 1) : b \in x.received
  <2>1. x.received = { b \in 0..(N - 1) : b < x.assembled_bytes \/ P!covered(x.strs, b) }
    BY <1>1 DEF P!Good, P!Core, P!Accounted
  <2> QED
    BY <1>1, <1>3, <2>1
<1>7. x.output.byte_read \in 0..x.assembled_bytes
  BY <1>1, <1>3, <1>4
<1>8. limit(x) = Capacity + x.output.byte_read
  BY <1>3 DEF limit
<1> QED
  BY <1>1, <1>3, <1>4, <1>5, <1>6, <1>7, <1>8

-----------------------------------------------------------------------------
(* The absolute ackno, and the window, of a receiver in a good state. *)
LEMMA Ackno ==
  ASSUME NEW x, P!Good(x.reassembler), x.isn \in {nullopt, PeerISN}
  PROVE  /\ abs_ackno(x) \in Nat
         /\ abs_ackno(x) = x.reassembler.assembled_bytes + num(x.isn # nullopt)
                              + num(empty(x.reassembler))
         /\ window_size(x) \in Nat
         /\ window_size(x) = Capacity + x.reassembler.output.byte_read
                               - x.reassembler.assembled_bytes
<1> DEFINE y == x.reassembler
<1>1. /\ y.assembled_bytes \in Nat /\ y.output.byte_read \in Nat
      /\ y.output.byte_read <= y.assembled_bytes /\ Capacity \in Nat
      /\ y.assembled_bytes <= Capacity + y.output.byte_read
      /\ y.output.byte_written = y.assembled_bytes /\ y.output.capacity = Capacity
  BY GoodObject, Assumptions
<1>2. num(x.isn # nullopt) \in {0, 1}
  BY DEF num
<1>3. num(empty(y)) \in {0, 1}
  BY DEF num
<1>4. abs_ackno(x) = y.assembled_bytes + num(x.isn # nullopt) + num(empty(y))
  BY DEF abs_ackno, has_isn
<1>5. window_size(x) = Capacity - (y.assembled_bytes - y.output.byte_read)
  BY <1>1 DEF window_size, remaining_capacity, stream_out, buffer_size
<1> HIDE DEF y
<1>6. abs_ackno(x) \in Nat
  BY <1>1, <1>2, <1>3, <1>4
<1> QED
  BY <1>1, <1>4, <1>5, <1>6 DEF y

(* A number that lives is found again. *)
LEMMA Place ==
  ASSUME NEW x, x.isn = PeerISN, abs_ackno(x) \in Nat, NEW first \in Nat,
         2 * Distance(first, abs_ackno(x)) < Modulus,
         NEW seg, seg.seqno = wrap(first, PeerISN)
  PROVE  abs_seqno(x, seg) = first
<1>1. PeerISN \in WrappingInt32
  BY PeerAssumption
<1>2. unwrap(wrap(first, PeerISN), PeerISN, abs_ackno(x)) = first
  BY <1>1, RoundTrip
<1> QED
  BY <1>2 DEF abs_seqno

LEMMA ISN == wrap(0, PeerISN) = PeerISN /\ PeerISN # nullopt
<1>1. Modulus \in Nat \ {0} /\ PeerISN \in 0..(Modulus - 1)
  BY ModulusAssumption, PeerAssumption DEF WrappingInt32
<1>2. 0 % Modulus = 0 /\ PeerISN % Modulus = PeerISN
  BY <1>1, Reduce
<1> QED
  BY <1>1, <1>2 DEF wrap, plus, nullopt

(* The fields of the peer's segment. *)
LEMMA PeerFields ==
  ASSUME NEW first, NEW len, NEW syn, NEW fin
  PROVE  LET seg == PeerSegment(first, len, syn, fin)
         IN  /\ seg.seqno = wrap(first, PeerISN) /\ seg.syn = syn /\ seg.fin = fin
             /\ seg.payload = IF syn THEN SubSeq(Stream, 1, len)
                              ELSE SubSeq(Stream, first, first + len - 1)
  BY DEF PeerSegment, NewSegment

(* An excerpt of the stream, as the payload of the peer's segment. *)
Excerpt(index, len) == SubSeq(Stream, index + 1, index + len)

LEMMA ExcerptLen ==
  ASSUME NEW index \in 0..N, NEW len \in 0..N, index + len <= N
  PROVE  Len(Excerpt(index, len)) = len
<1>1. N \in Nat /\ \A i \in 1..N : Stream[i] \in Nat
  BY Assumptions DEF N
<1>2. \A i \in (index + 1)..(index + len) : Stream[i] \in Nat
  BY <1>1
<1>3. index + 1 \in Int /\ index + len \in Int
  BY <1>1
<1>4. Len(Excerpt(index, len))
        = IF index + 1 <= index + len THEN (index + len) - (index + 1) + 1 ELSE 0
  BY <1>2, <1>3, SubSeqProperties DEF Excerpt
<1> QED
  BY <1>1, <1>4

(***************************************************************************)
(* A segment that lives is ignored, brings the SYN alone, or hands the     *)
(* reassembler the excerpt that it carries, at its place in the stream.    *)
(***************************************************************************)
Pushed(x, index, len, fin) ==
  [reassembler |-> push_substring(x.reassembler, Excerpt(index, len), index, fin),
   isn |-> PeerISN]

LEMMA AcceptStep ==
  ASSUME NEW x, x = [reassembler |-> x.reassembler, isn |-> PeerISN],
         P!Good(x.reassembler),
         NEW first \in Nat, NEW len \in 0..N, NEW syn \in BOOLEAN, NEW fin \in BOOLEAN,
         NEW index \in 0..N, index + len <= N, first = index + 1 - num(syn),
         2 * Distance(first, abs_ackno(x)) < Modulus,
         NEW seg, seg.seqno = wrap(first, PeerISN), seg.syn = syn, seg.fin = fin,
         seg.payload = Excerpt(index, len)
  PROVE  /\ \/ accept(x, seg).self = x
            \/ /\ accept(x, seg) = [self |-> Pushed(x, index, len, fin), result |-> TRUE]
               /\ ~x.reassembler.output.end
         /\ ~x.reassembler.output.end /\ abs_ackno(x) = 1 /\ first = 0
              => accept(x, seg) = [self |-> Pushed(x, index, len, fin), result |-> TRUE]
<1>1. abs_ackno(x) \in Nat
  BY Ackno
<1>2. abs_seqno(x, seg) = first
  BY <1>1, Place
<1>3. stream_index(x, seg) = index
  <2>1. CASE syn
    BY <1>2, <2>1 DEF stream_index, num
  <2>2. CASE ~syn
    BY <1>2, <2>2 DEF stream_index, num
  <2> QED
    BY <2>1, <2>2
<1>4. push_payload(x, seg) = Pushed(x, index, len, fin)
  BY <1>3 DEF push_payload, Pushed
<1>5. ASSUME ~x.reassembler.output.end, abs_ackno(x) = 1, first = 0
      PROVE  accept(x, seg) = [self |-> Pushed(x, index, len, fin), result |-> TRUE]
  <2>1. SYN_RECV(x) /\ ~FIN_RECV(x)
    BY <1>5, ISN DEF SYN_RECV, FIN_RECV, has_isn, stream_out
  <2>2. syn /\ num(syn) = 1 /\ index = 0
    BY <1>5 DEF num
  <2>3. Len(seg.payload) \in Nat
    BY <2>2, ExcerptLen
  <2>4. window_size(x) \in Nat
    BY Ackno
  <2>5. in_window(x, seg)
    <3>1. num(seg.syn) = 1
      BY <2>2 DEF num
    <3>2. first + Len(seg.payload) + num(seg.syn) >= abs_ackno(x)
      BY <1>5, <2>3, <3>1
    <3>3. first < abs_ackno(x) + window_size(x)
      BY <1>5, <2>4
    <3> QED
      BY <1>2, <3>2, <3>3 DEF in_window
  <2> QED
    BY <1>4, <2>1, <2>5 DEF accept
<1> QED
  BY <1>4, <1>5 DEF accept, SYN_RECV, stream_out

LEMMA ReceiveStep ==
  ASSUME IsReceiver, NEW first \in 0..(N + 1), NEW len \in 0..N,
         NEW syn \in BOOLEAN, NEW fin \in BOOLEAN, Receive(first, len, syn, fin),
         NEW index, index = IF syn THEN 0 ELSE first - 1
  PROVE  /\ index \in 0..N /\ index + len <= N
         /\ fin => index + len = N
         /\ fin /\ len = 0 /\ ~FinAhead => rcv.reassembler.assembled_bytes = N
         /\ \/ rcv' = rcv /\ arrived \subseteq arrived'
            \/ /\ rcv.isn = nullopt
               /\ rcv' = [reassembler |-> rcv.reassembler, isn |-> PeerISN]
               /\ arrived' = arrived \cup {0}
            \/ /\ rcv' = Pushed(rcv, index, len, fin) /\ ~rcv.reassembler.output.end
               /\ rcv.isn = nullopt => first = 0
               /\ arrived' = arrived \cup first..(index + len + num(fin))
<1> DEFINE seg == PeerSegment(first, len, syn, fin)
           call == segment_received(rcv, seg)
           last == first + num(syn) + len
<1>1. /\ syn => first = 0
      /\ ~syn => first > 0
      /\ fin => last = N + 1
      /\ last <= N + 1 /\ Lives(first) /\ rcv' = call.self
      /\ fin /\ len = 0 /\ ~FinAhead => rcv.reassembler.assembled_bytes = N
      /\ arrived' = IF call.result THEN arrived \cup first..(last - 1 + num(fin)) ELSE arrived
  BY DEF Receive
<1>2. /\ N \in Nat /\ last = index + 1 + len /\ index \in 0..N /\ index + len <= N
      /\ fin => index + len = N
      /\ first = index + 1 - num(syn)
  <2>1. N \in Nat
    BY GoodObject DEF IsReceiver
  <2>2. CASE syn
    BY <1>1, <2>1, <2>2 DEF num
  <2>3. CASE ~syn
    BY <1>1, <2>1, <2>3 DEF num
  <2> QED
    BY <2>1, <2>2, <2>3
<1>3. /\ seg.seqno = wrap(first, PeerISN) /\ seg.syn = syn /\ seg.fin = fin
      /\ seg.payload = Excerpt(index, len)
  <2>1. (first - 1) + 1 = first /\ (first - 1) + len = first + len - 1 /\ 0 + 1 = 1 /\ 0 + len = len
    BY <1>2
  <2>2. seg.payload = IF syn THEN SubSeq(Stream, 1, len)
                      ELSE SubSeq(Stream, first, first + len - 1)
    BY PeerFields
  <2>3. seg.payload = Excerpt(index, len)
    BY <2>1, <2>2 DEF Excerpt
  <2> QED
    BY <2>3, PeerFields
<1>4. num(fin) \in {0, 1} /\ last - 1 + num(fin) = index + len + num(fin)
  BY <1>2 DEF num
<1> HIDE DEF seg, last
<1>5. CASE rcv.isn = nullopt /\ ~syn
  BY <1>1, <1>2, <1>3, <1>5 DEF segment_received, LISTEN, has_isn
<1>6. CASE rcv.isn # nullopt /\ syn
  <2>1. call = [self |-> rcv, result |-> FALSE]
    BY <1>3, <1>6 DEF segment_received, LISTEN, has_isn
  <2> HIDE DEF call
  <2> QED
    BY <1>1, <1>2, <2>1
<1>7. CASE rcv.isn # nullopt /\ ~syn
  <2>1. rcv = [reassembler |-> rcv.reassembler, isn |-> PeerISN] /\ P!Good(rcv.reassembler)
    BY <1>7 DEF IsReceiver
  <2>2. 2 * Distance(first, abs_ackno(rcv)) < Modulus
    <3>1. abs_ackno(rcv) \in Nat
      BY <2>1, Ackno DEF IsReceiver
    <3> QED
      BY <1>1, <1>2, <3>1, ModulusAssumption DEF Lives, Distance
  <2>3. call = accept(rcv, seg)
    BY <1>3, <1>7 DEF segment_received, LISTEN, has_isn
  <2>4. first \in Nat
    BY <1>2
  <2>5. \/ call.self = rcv
        \/ /\ call = [self |-> Pushed(rcv, index, len, fin), result |-> TRUE]
           /\ ~rcv.reassembler.output.end
    BY <1>2, <1>3, <2>1, <2>2, <2>3, <2>4, AcceptStep
  <2> HIDE DEF call
  <2>6. CASE call.self = rcv
    BY <1>1, <1>2, <2>6
  <2>7. CASE /\ call = [self |-> Pushed(rcv, index, len, fin), result |-> TRUE]
             /\ ~rcv.reassembler.output.end
    <3>1. call.self = Pushed(rcv, index, len, fin) /\ call.result
      BY <2>7
    <3>2. arrived' = arrived \cup first..(index + len + num(fin))
      BY <1>1, <1>4, <3>1
    <3> QED
      BY <1>1, <1>2, <1>7, <2>7, <3>1, <3>2, Zenon
  <2> QED
    BY <2>5, <2>6, <2>7
<1>8. CASE rcv.isn = nullopt /\ syn
  <2> DEFINE x == [reassembler |-> rcv.reassembler, isn |-> PeerISN]
  <2>1. [rcv EXCEPT !.isn = seg.seqno] = x
    <3>1. seg.seqno = PeerISN
      BY <1>1, <1>3, <1>8, ISN
    <3> QED
      BY <3>1 DEF IsReceiver
  <2>2. /\ x = [reassembler |-> x.reassembler, isn |-> PeerISN] /\ P!Good(x.reassembler)
        /\ x.isn = PeerISN /\ x.reassembler = NewStreamReassembler(Capacity)
    BY <1>8 DEF IsReceiver
  <2>3. /\ ~x.reassembler.output.end /\ x.reassembler.assembled_bytes = 0
        /\ ~empty(x.reassembler)
    BY <2>2 DEF NewStreamReassembler, NewByteStream, empty
  <2>4. abs_ackno(x) = 1
    BY <2>2, <2>3, Ackno, ISN DEF num
  <2>5. call = IF length_in_sequence_space(seg) = 1 THEN [self |-> x, result |-> TRUE]
               ELSE accept(x, seg)
    <3> HIDE DEF x
    <3>1. seg.syn /\ LISTEN(rcv)
      BY <1>3, <1>8 DEF LISTEN, has_isn
    <3> QED
      BY <2>1, <3>1, Zenon DEF segment_received
  <2> HIDE DEF x
  <2>6. Len(seg.payload) = len
    <3>1. Len(Excerpt(index, len)) = len
      BY <1>2, ExcerptLen
    <3> QED
      BY <1>3, <3>1
  <2>7. CASE length_in_sequence_space(seg) = 1
    <3>1. len = 0 /\ num(fin) = 0
      BY <1>2, <1>3, <1>4, <1>8, <2>6, <2>7 DEF length_in_sequence_space, num
    <3>2. first..(last - 1 + num(fin)) = {0}
      <4>1. first = 0 /\ last = 1
        BY <1>1, <1>2, <1>8, <3>1 DEF num
      <4> QED
        BY <3>1, <4>1
    <3>3. call.self = x /\ call.result
      BY <2>5, <2>7
    <3> HIDE DEF call
    <3>4. arrived' = arrived \cup {0}
      BY <1>1, <3>2, <3>3
    <3> QED
      BY <1>1, <1>2, <1>8, <3>3, <3>4, Zenon DEF x
  <2>8. CASE length_in_sequence_space(seg) # 1
    <3>1. 2 * Distance(first, abs_ackno(x)) < Modulus /\ first = 0 /\ first \in Nat
      BY <1>1, <1>8, <2>4, PeerAssumption DEF Distance
    <3>2. accept(x, seg) = [self |-> Pushed(x, index, len, fin), result |-> TRUE]
      <4>1. /\ \/ accept(x, seg).self = x
               \/ /\ accept(x, seg) = [self |-> Pushed(x, index, len, fin), result |-> TRUE]
                  /\ ~x.reassembler.output.end
            /\ ~x.reassembler.output.end /\ abs_ackno(x) = 1 /\ first = 0
                 => accept(x, seg) = [self |-> Pushed(x, index, len, fin), result |-> TRUE]
        BY <1>2, <1>3, <2>2, <3>1, AcceptStep
      <4> QED
        BY <2>3, <2>4, <3>1, <4>1, Zenon
    <3>3. Pushed(x, index, len, fin) = Pushed(rcv, index, len, fin)
      BY DEF Pushed, x
    <3>4. call.self = Pushed(rcv, index, len, fin) /\ call.result
      BY <2>5, <2>8, <3>2, <3>3
    <3> HIDE DEF call
    <3>5. arrived' = arrived \cup first..(index + len + num(fin))
      BY <1>1, <1>4, <3>4
    <3>6. ~rcv.reassembler.output.end
      BY <2>3 DEF x
    <3> QED
      BY <1>1, <1>2, <3>1, <3>4, <3>5, <3>6, Zenon
  <2> QED
    BY <2>7, <2>8
<1> QED
  BY <1>5, <1>6, <1>7, <1>8

(* A byte from just before the ackno changes nothing. *)
LEMMA OldByte ==
  ASSUME NEW x, P!Good(x), ~empty(x), NEW index,
         index = IF x.assembled_bytes = 0 THEN SIZE_MAX ELSE x.assembled_bytes - 1
  PROVE  push_substring(x, << Garbage >>, index, FALSE) = x
<1>1. /\ N \in Nat /\ x.assembled_bytes \in 0..N /\ x.output.byte_read \in 0..x.assembled_bytes
      /\ limit(x) = Capacity + x.output.byte_read /\ x.assembled_bytes <= limit(x)
      /\ x.eof \in BOOLEAN
  BY GoodObject
<1>2. Capacity \in Nat \ {0} /\ SIZE_MAX \in Nat /\ SIZE_MAX > N + Capacity
  BY Assumptions, SizeMaxAssumption DEF N
<1>3. CASE x.assembled_bytes = 0
  <2>1. index >= limit(x)
    BY <1>1, <1>2, <1>3
  <2> QED
    BY <2>1 DEF push_substring
<1>4. CASE x.assembled_bytes # 0
  <2>1. index = x.assembled_bytes - 1 /\ ~(index >= limit(x)) /\ limit(x) - index >= 1
    BY <1>1, <1>2, <1>4
  <2>2. Len(<< Garbage >>) = 1 /\ min(1, limit(x) - index) = 1
    BY <1>1, <1>2, <2>1 DEF min
  <2>3. Len(SubSeq(<< Garbage >>, 1, 1)) = 1
    OBVIOUS
  <2>4. index + 1 <= x.assembled_bytes
    BY <1>1, <2>1
  <2> DEFINE r1 == [x EXCEPT !.eof = x.eof \/ (index + 1 <= limit(x) /\ FALSE)]
  <2>5. r1 = x
    <3>1. (x.eof \/ (index + 1 <= limit(x) /\ FALSE)) = x.eof
      BY <1>1
    <3>2. [x EXCEPT !.eof = x.eof] = x
      BY DEF P!Good, P!Core, P!IsObject
    <3> QED
      BY <3>1, <3>2, Zenon
  <2>6. push_substring(x, << Garbage >>, index, FALSE) = end_if_empty(r1)
    BY <2>1, <2>2, <2>3, <2>4, <2>5 DEF push_substring
  <2>7. end_if_empty(x) = x
    BY DEF end_if_empty
  <2> HIDE DEF r1
  <2> QED
    BY <2>5, <2>6, <2>7
<1> QED
  BY <1>3, <1>4

LEMMA KeepAliveStep ==
  ASSUME IsReceiver, KeepAlive
  PROVE  rcv' = rcv /\ arrived' = arrived
<1> DEFINE x == rcv.reassembler
           first == abs_ackno(rcv) - 1
           seg == [NewSegment EXCEPT !.seqno = wrap(first, PeerISN), !.payload = << Garbage >>]
<1>1. /\ rcv = [reassembler |-> x, isn |-> rcv.isn] /\ rcv.isn = PeerISN /\ P!Good(x)
      /\ has_isn(rcv)
  BY DEF KeepAlive, IsReceiver, has_isn
<1>2. /\ seg.seqno = wrap(first, PeerISN) /\ seg.payload = << Garbage >>
      /\ ~seg.syn /\ ~seg.fin
  BY DEF NewSegment
<1>3. rcv' = accept(rcv, seg).self /\ arrived' = arrived
  <2>1. rcv' = segment_received(rcv, seg).self /\ arrived' = arrived
    BY DEF KeepAlive
  <2>2. segment_received(rcv, seg) = accept(rcv, seg)
    BY <1>1, <1>2 DEF segment_received, LISTEN
  <2> QED
    BY <2>1, <2>2
<1> HIDE DEF seg
<1>4. CASE x.output.end
  <2>1. ~SYN_RECV(rcv)
    BY <1>4 DEF SYN_RECV, stream_out
  <2>2. accept(rcv, seg).self = rcv
    BY <1>2, <2>1 DEF accept
  <2> QED
    BY <1>3, <2>2
<1>5. CASE ~x.output.end
  <2>1. ~empty(x) /\ x.assembled_bytes \in Nat
    BY <1>1, <1>5, GoodObject
  <2>2. abs_ackno(rcv) = x.assembled_bytes + 1
    BY <1>1, <2>1, Ackno, ISN DEF num
  <2>3. first = x.assembled_bytes /\ first \in Nat /\ abs_ackno(rcv) \in Nat
        /\ 2 * Distance(first, abs_ackno(rcv)) < Modulus
    <3>1. first = x.assembled_bytes /\ abs_ackno(rcv) = first + 1 /\ first \in Nat
      BY <2>1, <2>2
    <3> HIDE DEF first
    <3>2. Distance(first, abs_ackno(rcv)) = 1
      BY <3>1 DEF Distance
    <3>3. 2 * 1 < Modulus
      BY ModulusAssumption, PeerAssumption
    <3> QED
      BY <3>1, <3>2, <3>3
  <2>4. abs_seqno(rcv, seg) = first
    BY <1>1, <1>2, <2>3, Place
  <2> HIDE DEF first
  <2>5. stream_index(rcv, seg) = IF x.assembled_bytes = 0 THEN SIZE_MAX ELSE x.assembled_bytes - 1
    BY <1>2, <2>3, <2>4 DEF stream_index
  <2>6. push_substring(x, seg.payload, stream_index(rcv, seg), seg.fin) = x
    <3>1. push_substring(x, << Garbage >>, stream_index(rcv, seg), FALSE) = x
      BY <1>1, <2>1, <2>5, OldByte
    <3>2. seg.fin = FALSE
      BY DEF seg, NewSegment
    <3> QED
      BY <1>2, <3>1, <3>2
  <2>7. push_payload(rcv, seg) = rcv
    <3>1. [rcv EXCEPT !.reassembler = rcv.reassembler] = rcv
      BY <1>1
    <3> QED
      BY <2>6, <3>1 DEF push_payload
  <2>8. accept(rcv, seg).self = rcv
    BY <2>7 DEF accept
  <2> QED
    BY <1>3, <2>8
<1> QED
  BY <1>4, <1>5

-----------------------------------------------------------------------------
(* The parts of a step, on the reassembler. *)
LEMMA PushedStep ==
  ASSUME NEW x, P!Good(x), NEW index \in 0..N, NEW len \in 0..N, NEW fin \in BOOLEAN,
         index + len <= N, fin => index + len = N,
         fin /\ len = 0 /\ ~FinAhead => x.assembled_bytes = N,
         NEW y, y = push_substring(x, Excerpt(index, len), index, fin)
  PROVE  /\ P!Good(y) /\ y.assembled_bytes >= x.assembled_bytes
         /\ y.output.byte_read = x.output.byte_read
         /\ y.received \subseteq x.received \cup (index..(index + len - 1))
         /\ y.eof => x.eof \/ fin
<1>1. P!N = N
  BY DEF P!N, N
<1>2. y = P!push_substring(x, SubSeq(Stream, index + 1, index + len), index, fin)
  BY SamePush, Zenon DEF Excerpt
<1>3. P!Good(y) /\ P!Advances(x, y, index..(index + len - 1), fin)
  BY <1>1, <1>2, Assumptions, P!PushLemma
<1> QED
  BY <1>3 DEF P!Advances

LEMMA ReadStep ==
  ASSUME NEW x, P!Good(x), NEW len \in Nat,
         NEW y, y = [x EXCEPT !.output = pop_output(x.output, len)]
  PROVE  /\ P!Good(y) /\ y.assembled_bytes = x.assembled_bytes
         /\ y.output.byte_read >= x.output.byte_read
         /\ y.received = x.received /\ y.eof = x.eof /\ y.stored_bytes = x.stored_bytes
<1>1. y = [x EXCEPT !.output = P!pop_output(x.output, len)]
  BY SamePop
<1>2. P!Good(y)
  BY <1>1, Assumptions, P!ReadLemma
<1>3. /\ y.assembled_bytes = x.assembled_bytes /\ y.received = x.received /\ y.eof = x.eof
      /\ y.stored_bytes = x.stored_bytes /\ y.output = pop_output(x.output, len)
  BY DEF P!Good, P!Core, P!IsObject
<1>4. y.output.byte_read = x.output.byte_read + min(len, buffer_size(x.output))
  BY <1>3 DEF pop_output, P!Good, P!Core, P!IsObject, P!ByteStreamType
<1>5. min(len, buffer_size(x.output)) \in Nat /\ x.output.byte_read \in Nat
  BY GoodObject DEF min, buffer_size
<1> QED
  BY <1>2, <1>3, <1>4, <1>5

LEMMA NothingToPop ==
  ASSUME NEW c \in Nat, NEW len \in Nat
  PROVE  pop_output(NewByteStream(c), len) = NewByteStream(c)
<1>1. ASSUME NEW s \in ByteStreamType(Nat), s.buffer = << >>, s.byte_read = 0, s.byte_written = 0
      PROVE  pop_output(s, len) = s
  <2>1. min(len, buffer_size(s)) = 0
    BY <1>1 DEF buffer_size, min
  <2>2. SubSeq(s.buffer, 0 + 1, Len(s.buffer)) = s.buffer /\ s.byte_read + 0 = s.byte_read
    BY <1>1
  <2>3. [s EXCEPT !.buffer = s.buffer, !.byte_read = s.byte_read] = s
    BY DEF ByteStreamType
  <2>4. pop_output(s, len) = [s EXCEPT !.buffer = SubSeq(s.buffer, 0 + 1, Len(s.buffer)),
                                       !.byte_read = s.byte_read + 0]
    BY <2>1 DEF pop_output
  <2> QED
    BY <2>2, <2>3, <2>4
<1>2. /\ NewByteStream(c) \in ByteStreamType(Nat) /\ NewByteStream(c).buffer = << >>
      /\ NewByteStream(c).byte_read = 0 /\ NewByteStream(c).byte_written = 0
  BY DEF NewByteStream, ByteStreamType
<1> QED
  BY <1>1, <1>2

(***************************************************************************)
(* The invariant holds at the start; every step keeps it, uses the         *)
(* reassembler as it should, and takes nothing back.                       *)
(***************************************************************************)
Forward ==
  /\ rcv'.reassembler.assembled_bytes >= rcv.reassembler.assembled_bytes
  /\ rcv'.reassembler.output.byte_read >= rcv.reassembler.output.byte_read
  /\ empty(rcv.reassembler) => empty(rcv'.reassembler)
  /\ rcv.isn # nullopt => rcv'.isn # nullopt

LEMMA StartInv == Init => IsReceiver /\ HistoryKept
<1> SUFFICES ASSUME Init PROVE IsReceiver /\ HistoryKept
  OBVIOUS
<1> DEFINE x == NewStreamReassembler(Capacity)
<1>1. rcv = [reassembler |-> x, isn |-> nullopt] /\ arrived = {}
  BY DEF Init, NewTCPReceiver
<1>2. x.received = {} /\ x.eof = FALSE
  BY DEF NewStreamReassembler
<1>3. x = P!NewStreamReassembler(Capacity)
  BY DEF NewStreamReassembler, P!NewStreamReassembler, NewByteStream, P!NewByteStream
<1>4. P!Good(x)
  BY <1>3, Assumptions, P!NewIsGood
<1> HIDE DEF x
<1>5. IsReceiver
  BY <1>1, <1>4 DEF IsReceiver, x
<1>6. HistoryKept
  BY <1>1, <1>2 DEF HistoryKept
<1> QED
  BY <1>5, <1>6

LEMMA StepInv ==
  ASSUME IsReceiver, HistoryKept, [Next]_vars
  PROVE  /\ IsReceiver' /\ HistoryKept'
         /\ [P!Next]_(rcv.reassembler) /\ [R!Next]_(rcv.reassembler) /\ Forward
<1> DEFINE x == rcv.reassembler
<1>1. CASE UNCHANGED vars
  <2>1. Forward
    BY <1>1, GoodObject DEF vars, IsReceiver, Forward
  <2> QED
    BY <1>1, <2>1 DEF vars, IsReceiver, HistoryKept
<1>2. ASSUME NEW first \in 0..(N + 1), NEW len \in 0..N,
             NEW syn \in BOOLEAN, NEW fin \in BOOLEAN, Receive(first, len, syn, fin)
      PROVE  /\ IsReceiver' /\ HistoryKept'
             /\ [P!Next]_(rcv.reassembler) /\ [R!Next]_(rcv.reassembler) /\ Forward
  <2> DEFINE index == IF syn THEN 0 ELSE first - 1
  <2>1. /\ index \in 0..N /\ index + len <= N
        /\ fin => index + len = N
        /\ fin /\ len = 0 /\ ~FinAhead => x.assembled_bytes = N
        /\ \/ rcv' = rcv /\ arrived \subseteq arrived'
           \/ /\ rcv.isn = nullopt
              /\ rcv' = [reassembler |-> x, isn |-> PeerISN]
              /\ arrived' = arrived \cup {0}
           \/ /\ rcv' = Pushed(rcv, index, len, fin) /\ ~x.output.end
              /\ rcv.isn = nullopt => first = 0
              /\ arrived' = arrived \cup first..(index + len + num(fin))
    BY <1>2, ReceiveStep
  <2>2. N \in Nat /\ first <= index + 1
    <3>1. N \in Nat
      BY GoodObject DEF IsReceiver
    <3> QED
      BY <1>2, <3>1 DEF Receive
  <2> HIDE DEF index
  <2>3. CASE rcv' = rcv /\ arrived \subseteq arrived'
    <3>1. Forward
      BY <2>3, GoodObject DEF IsReceiver, Forward
    <3> QED
      BY <2>3, <3>1 DEF IsReceiver, HistoryKept
  <2>4. CASE /\ rcv.isn = nullopt
             /\ rcv' = [reassembler |-> x, isn |-> PeerISN]
             /\ arrived' = arrived \cup {0}
    <3>1. rcv'.reassembler = x /\ rcv'.isn = PeerISN
      BY <2>4
    <3>2. IsReceiver'
      BY <2>4, <3>1, ISN DEF IsReceiver
    <3>3. HistoryKept'
      BY <2>4, <3>1 DEF HistoryKept
    <3>4. Forward
      BY <2>4, <3>1, GoodObject DEF IsReceiver, Forward
    <3> QED
      BY <3>1, <3>2, <3>3, <3>4
  <2>5. CASE /\ rcv' = Pushed(rcv, index, len, fin) /\ ~x.output.end
             /\ rcv.isn = nullopt => first = 0
             /\ arrived' = arrived \cup first..(index + len + num(fin))
    <3> DEFINE y == rcv'.reassembler
    <3>1. /\ y = push_substring(x, Excerpt(index, len), index, fin) /\ rcv'.isn = PeerISN
          /\ rcv' = [reassembler |-> y, isn |-> PeerISN]
      BY <2>5 DEF Pushed
    <3>2. /\ P!Good(y) /\ y.assembled_bytes >= x.assembled_bytes
          /\ y.output.byte_read = x.output.byte_read
          /\ y.received \subseteq x.received \cup (index..(index + len - 1))
          /\ y.eof => x.eof \/ fin
      BY <2>1, <3>1, PushedStep DEF IsReceiver
    <3>3. IsReceiver'
      BY <3>1, <3>2, ISN DEF IsReceiver
    <3>4. HistoryKept'
      <4>1. 0 \in arrived'
        <5>1. index + len + num(fin) \in Nat
          BY <2>1, <2>2 DEF num
        <5> QED
          BY <2>5, <5>1 DEF HistoryKept
      <4>2. ASSUME NEW b \in y.received PROVE b + 1 \in arrived'
        <5>1. CASE b \in x.received
          BY <2>5, <5>1 DEF HistoryKept
        <5>2. CASE b \in index..(index + len - 1)
          BY <2>1, <2>2, <2>5, <5>2 DEF num
        <5> QED
          BY <3>2, <5>1, <5>2
      <4>3. ASSUME y.eof PROVE N + 1 \in arrived'
        <5>1. CASE x.eof
          BY <2>5, <5>1 DEF HistoryKept
        <5>2. CASE fin
          BY <2>1, <2>2, <2>5, <5>2 DEF num
        <5> QED
          BY <3>2, <4>3, <5>1, <5>2
      <4>4. N' = N
        BY DEF N
      <4> QED
        BY <4>1, <4>2, <4>3, <4>4 DEF HistoryKept
    <3>5. P!Next
      <4>1. P!N = N
        BY DEF P!N, N
      <4>2. y = P!push_substring(x, SubSeq(Stream, index + 1, index + len), index, fin)
        BY <3>1, SamePush, Zenon DEF Excerpt
      <4>3. P!Push(index, len, fin)
        BY <2>1, <4>1, <4>2 DEF P!Push
      <4> QED
        BY <2>1, <4>1, <4>3 DEF P!Next
    <3>6. R!Next
      <4>1. R!N = N
        BY DEF R!N, N
      <4>2. y = R!push_substring(x, SubSeq(Stream, index + 1, index + len), index, fin)
        BY <3>1, SamePush, Zenon DEF Excerpt
      <4>3. R!Push(index, len, fin)
        BY <2>1, <4>1, <4>2 DEF R!Push
      <4> QED
        BY <2>1, <4>1, <4>3 DEF R!Next
    <3>7. Forward
      <4>1. ~empty(x)
        BY <2>5, GoodObject DEF IsReceiver
      <4>2. y.output.byte_read >= x.output.byte_read
        BY <3>2, GoodObject DEF IsReceiver
      <4> QED
        BY <3>1, <3>2, <4>1, <4>2, ISN DEF Forward
    <3> QED
      BY <3>3, <3>4, <3>5, <3>6, <3>7
  <2> QED
    BY <2>1, <2>3, <2>4, <2>5
<1>3. CASE KeepAlive
  <2>1. rcv' = rcv /\ arrived' = arrived
    BY <1>3, KeepAliveStep
  <2>2. Forward
    BY <2>1, GoodObject DEF IsReceiver, Forward
  <2> QED
    BY <2>1, <2>2 DEF IsReceiver, HistoryKept
<1>4. ASSUME NEW len \in ReadLens, Read(len)
      PROVE  /\ IsReceiver' /\ HistoryKept'
             /\ [P!Next]_(rcv.reassembler) /\ [R!Next]_(rcv.reassembler) /\ Forward
  <2> DEFINE y == rcv'.reassembler
  <2>1. /\ y = [x EXCEPT !.output = pop_output(x.output, len)] /\ rcv'.isn = rcv.isn
        /\ rcv' = [reassembler |-> y, isn |-> rcv.isn] /\ arrived' = arrived
    BY <1>4 DEF Read, IsReceiver
  <2>2. len \in Nat
    BY Assumptions
  <2>3. /\ P!Good(y) /\ y.received = x.received /\ y.eof = x.eof
        /\ y.assembled_bytes = x.assembled_bytes /\ y.stored_bytes = x.stored_bytes
        /\ y.output.byte_read >= x.output.byte_read
    <3>1. P!Good(x)
      BY DEF IsReceiver
    <3>2. y = [x EXCEPT !.output = pop_output(x.output, len)]
      BY <2>1
    <3> HIDE DEF x, y
    <3> QED
      BY <2>2, <3>1, <3>2, ReadStep
  <2>4. rcv.isn = nullopt => y = NewStreamReassembler(Capacity)
    <3> SUFFICES ASSUME rcv.isn = nullopt PROVE y = NewStreamReassembler(Capacity)
      OBVIOUS
    <3>1. x = NewStreamReassembler(Capacity) /\ x.output = NewByteStream(Capacity)
      BY DEF IsReceiver, NewStreamReassembler
    <3>2. pop_output(x.output, len) = x.output
      BY <2>2, <3>1, NothingToPop, Assumptions
    <3> QED
      BY <2>1, <3>1, <3>2 DEF NewStreamReassembler
  <2>5. IsReceiver'
    BY <2>1, <2>3, <2>4 DEF IsReceiver
  <2>6. HistoryKept'
    BY <2>1, <2>3 DEF HistoryKept
  <2>7. P!Next /\ R!Next
    <3>1. P!Read(len) /\ R!Read(len)
      BY <2>1, SamePop DEF P!Read, R!Read
    <3> QED
      BY <3>1 DEF P!Next, R!Next
  <2>8. Forward
    BY <2>1, <2>3, GoodObject DEF IsReceiver, Forward, empty
  <2> QED
    BY <2>5, <2>6, <2>7, <2>8
<1> QED
  BY <1>1, <1>2, <1>3, <1>4 DEF Next

-----------------------------------------------------------------------------
(* The receiver is well formed, and the history kept, in every behaviour. *)
THEOREM Invariance == Spec => [](IsReceiver /\ HistoryKept)
  BY StartInv, StepInv, PTL DEF Spec

(***************************************************************************)
(* The segments of the peer, however they arrive, make the receiver use    *)
(* its StreamReassembler as StreamReassemblerSpec says: the first steps of *)
(* the proof are about the initial states and about every step.            *)
(***************************************************************************)
THEOREM Drives == Spec => DrivesReassembler
<1>1. Init => R!Init
  BY DEF Init, NewTCPReceiver, R!Init, NewStreamReassembler, R!NewStreamReassembler,
         NewByteStream, R!NewByteStream
<1>2. IsReceiver /\ HistoryKept /\ [Next]_vars => [R!Next]_(R!vars)
  BY StepInv DEF R!vars
<1> QED
  BY <1>1, <1>2, Invariance, PTL DEF Spec, DrivesReassembler, R!Spec

(* The same of the instance whose theorems are used below: the receiver's *)
(* steps are pushes and reads that StreamReassemblerProofs is about.      *)
THEOREM DrivesProved == Spec => P!Spec
<1>1. Init => P!Init
  BY DEF Init, NewTCPReceiver, P!Init, NewStreamReassembler, P!NewStreamReassembler,
         NewByteStream, P!NewByteStream
<1>2. IsReceiver /\ HistoryKept /\ [Next]_vars => [P!Next]_(P!vars)
  BY StepInv DEF P!vars
<1> QED
  BY <1>1, <1>2, Invariance, PTL DEF Spec, P!Spec

(***************************************************************************)
(* The application reads the peer's stream and nothing else: what is       *)
(* proved of the StreamReassembler holds of the one in the receiver.       *)
(***************************************************************************)
THEOREM OutputIsAlwaysPrefix == Spec => []OutputIsPrefix
<1>1. P!Spec => []P!OutputIsPrefix
  BY P!OutputIsAlwaysPrefix, Assumptions
<1>2. P!OutputIsPrefix => OutputIsPrefix
  BY DEF P!OutputIsPrefix, OutputIsPrefix, stream_out
<1> QED
  BY <1>1, <1>2, DrivesProved, PTL

(***************************************************************************)
(* Every sequence number a segment may carry is unwrapped to the absolute  *)
(* one closest to the ackno: Closest, for the receiver's checkpoint.       *)
(***************************************************************************)
THEOREM UnwrapsToTheClosest == Spec => []UnwrapsToClosest
<1>1. IsReceiver => UnwrapsToClosest
  <2> SUFFICES ASSUME IsReceiver, has_isn(rcv), NEW n \in WrappingInt32
               PROVE  LET u == unwrap(n, rcv.isn, abs_ackno(rcv))
                      IN  /\ u >= 0
                          /\ wrap(u, rcv.isn) = n
                          /\ \A v \in 0..(N + 2 + Modulus) :
                               wrap(v, rcv.isn) = n
                                 => Distance(u, abs_ackno(rcv)) <= Distance(v, abs_ackno(rcv))
    BY DEF UnwrapsToClosest
  <2>1. rcv.isn \in WrappingInt32
    BY PeerAssumption DEF IsReceiver, has_isn
  <2>2. abs_ackno(rcv) \in Nat
    BY Ackno DEF IsReceiver
  <2>3. 0..(N + 2 + Modulus) \subseteq Nat
    OBVIOUS
  <2> QED
    BY <2>1, <2>2, <2>3, Closest
<1> QED
  BY <1>1, Invariance, PTL

(* The sequence numbers of the SYN and of the FIN, once acknowledged. *)
SynBit(x) == num(x.isn # nullopt)

FinBit(x) == num(empty(x.reassembler))

LEMMA CapacityIsNat == Capacity \in Nat
  BY Assumptions

LEMMA Edge ==
  ASSUME NEW s \in Nat, NEW f \in Nat, NEW w \in Nat, NEW r \in Nat, NEW c \in Nat
  PROVE  (w + s + f) + (c - (w - r)) = s + f + c + r /\ w + s + f = s + f + w
  OBVIOUS

LEMMA Grow ==
  ASSUME NEW s \in Nat, NEW f \in Nat, NEW w \in Nat, NEW t \in Nat, NEW g \in Nat, NEW v \in Nat,
         t >= s, g >= f, v >= w
  PROVE  t + g + v >= s + f + w
  OBVIOUS

(***************************************************************************)
(* Neither the ackno nor the right edge of the window moves back.          *)
(***************************************************************************)
THEOREM NothingIsTakenBack == Spec => WindowNeverShrinks
<1>1. ASSUME IsReceiver, HistoryKept, [Next]_vars
      PROVE  [/\ abs_ackno(rcv') >= abs_ackno(rcv)
              /\ abs_ackno(rcv') + window_size(rcv') >= abs_ackno(rcv) + window_size(rcv)]_vars
  <2>1. Forward /\ IsReceiver'
    BY <1>1, StepInv
  <2>2. ASSUME NEW x, P!Good(x.reassembler)
        PROVE  /\ abs_ackno(x) + window_size(x)
                    = SynBit(x) + FinBit(x) + Capacity + x.reassembler.output.byte_read
               /\ abs_ackno(x) = SynBit(x) + FinBit(x) + x.reassembler.assembled_bytes
               /\ x.reassembler.assembled_bytes \in Nat
               /\ x.reassembler.output.byte_read \in Nat
               /\ SynBit(x) \in 0..1 /\ FinBit(x) \in 0..1
    <3>1. SynBit(x) \in 0..1 /\ FinBit(x) \in 0..1
      BY DEF num, SynBit, FinBit
    <3>2. /\ x.reassembler.assembled_bytes \in Nat /\ x.reassembler.output.byte_read \in Nat
          /\ x.reassembler.output.byte_written = x.reassembler.assembled_bytes
          /\ x.reassembler.output.capacity = Capacity
      BY <2>2, GoodObject
    <3>3. abs_ackno(x) = x.reassembler.assembled_bytes + SynBit(x) + FinBit(x)
      BY DEF abs_ackno, has_isn, SynBit, FinBit
    <3>4. window_size(x) = Capacity - (x.reassembler.assembled_bytes
                                         - x.reassembler.output.byte_read)
      BY <3>2 DEF window_size, stream_out, remaining_capacity, buffer_size
    <3> QED
      BY <3>1, <3>2, <3>3, <3>4, CapacityIsNat, Edge
  <2>3. SynBit(rcv') >= SynBit(rcv) /\ FinBit(rcv') >= FinBit(rcv)
    BY <2>1 DEF Forward, num, SynBit, FinBit
  <2>4. P!Good(rcv.reassembler) /\ P!Good(rcv'.reassembler)
    BY <1>1, <2>1 DEF IsReceiver
  <2>5. abs_ackno(rcv') >= abs_ackno(rcv)
    BY <2>1, <2>2, <2>3, <2>4, Grow DEF Forward
  <2>6. abs_ackno(rcv') + window_size(rcv') >= abs_ackno(rcv) + window_size(rcv)
    <3>1. ASSUME NEW x, P!Good(x.reassembler)
          PROVE  /\ abs_ackno(x) + window_size(x)
                      = SynBit(x) + FinBit(x) + (Capacity + x.reassembler.output.byte_read)
                 /\ Capacity + x.reassembler.output.byte_read \in Nat
      BY <2>2, <3>1, CapacityIsNat
    <3>2. Capacity + rcv'.reassembler.output.byte_read >= Capacity + rcv.reassembler.output.byte_read
      BY <2>1, <2>2, <2>4, CapacityIsNat DEF Forward
    <3> QED
      BY <2>2, <2>3, <2>4, <3>1, <3>2, Grow
  <2> QED
    BY <2>5, <2>6
<1> QED
  BY <1>1, Invariance, PTL DEF Spec, WindowNeverShrinks

(***************************************************************************)
(* Nothing is acknowledged that has not arrived, provided that no FIN is   *)
(* taken ahead of the bytes before it.                                     *)
(***************************************************************************)
THEOREM AcksArrived == ASSUME ~FinAhead PROVE Spec => []AcksOnlyArrived
<1>1. IsReceiver /\ HistoryKept => AcksOnlyArrived
  <2> SUFFICES ASSUME IsReceiver, HistoryKept, NEW s \in 0..(abs_ackno(rcv) - 1)
               PROVE  s \in arrived
    BY DEF AcksOnlyArrived
  <2> DEFINE x == rcv.reassembler
  <2>1. /\ N \in Nat /\ x.assembled_bytes \in 0..N
        /\ empty(x) => x.assembled_bytes = N
        /\ \A b \in 0..(x.assembled_bytes - 1) : b \in x.received
    BY GoodObject DEF IsReceiver
  <2>2. abs_ackno(rcv) = x.assembled_bytes + num(rcv.isn # nullopt) + num(empty(x))
    BY DEF abs_ackno, has_isn
  <2>3. rcv.isn # nullopt
    <3>1. SUFFICES ASSUME rcv.isn = nullopt PROVE FALSE
      OBVIOUS
    <3>2. x.assembled_bytes = 0 /\ ~empty(x)
      BY <3>1 DEF IsReceiver, NewStreamReassembler, empty
    <3> QED
      BY <2>2, <3>1, <3>2 DEF num
  <2>4. CASE s = 0
    BY <2>3, <2>4 DEF HistoryKept
  <2>5. CASE s \in 1..x.assembled_bytes
    <3>1. s - 1 \in x.received /\ (s - 1) + 1 = s
      BY <2>1, <2>5
    <3> QED
      BY <3>1 DEF HistoryKept
  <2>6. CASE empty(x) /\ s = x.assembled_bytes + 1
    BY <2>1, <2>6 DEF HistoryKept, empty
  <2> QED
    BY <2>1, <2>2, <2>3, <2>4, <2>5, <2>6 DEF num
<1> QED
  BY <1>1, Invariance, PTL

=============================================================================
