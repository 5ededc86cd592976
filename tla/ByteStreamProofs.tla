-------------------------- MODULE ByteStreamProofs --------------------------
(***************************************************************************)
(* Proofs, for every set of strings and lengths and every capacity, that a *)
(* ByteStream is a bounded first-in first-out channel.  The conjunction of *)
(* TypeOK, Fifo and Accounting is inductive: Fifo needs Accounting, since  *)
(* pop_output cuts the buffer at a length computed from the counters.      *)
(***************************************************************************)
EXTENDS ByteStreamSpec, SequenceTheorems, TLAPS

Inv == TypeOK /\ Fifo /\ Accounting

(* The first n elements of a sequence, and the rest. *)
LEMMA Cut ==
  ASSUME NEW S, NEW q \in Seq(S), NEW n \in 0..Len(q)
  PROVE  /\ SubSeq(q, 1, n) \in Seq(S) /\ Len(SubSeq(q, 1, n)) = n
         /\ SubSeq(q, n + 1, Len(q)) \in Seq(S)
         /\ Len(SubSeq(q, n + 1, Len(q))) = Len(q) - n
         /\ SubSeq(q, 1, n) \o SubSeq(q, n + 1, Len(q)) = q
<1>1. n \in Int /\ n + 1 \in Int /\ Len(q) \in Int /\ 1 \in Int
  OBVIOUS
<1>2. (\A i \in 1..n : q[i] \in S) /\ (\A i \in (n + 1)..Len(q) : q[i] \in S)
  OBVIOUS
<1>3. /\ SubSeq(q, 1, n) \in Seq(S)
      /\ Len(SubSeq(q, 1, n)) = IF 1 <= n THEN n - 1 + 1 ELSE 0
  BY <1>1, <1>2, SubSeqProperties
<1>4. /\ SubSeq(q, n + 1, Len(q)) \in Seq(S)
      /\ Len(SubSeq(q, n + 1, Len(q)))
           = IF n + 1 <= Len(q) THEN Len(q) - (n + 1) + 1 ELSE 0
  BY <1>1, <1>2, SubSeqProperties
<1>5. Len(SubSeq(q, 1, n)) = n /\ Len(SubSeq(q, n + 1, Len(q))) = Len(q) - n
  BY <1>3, <1>4
<1>6. SubSeq(q, 1, n) \o SubSeq(q, n + 1, Len(q)) = SubSeq(q, 1, Len(q))
  <2>1. 1 \in 1..(Len(q) + 1) /\ n \in (1 - 1)..Len(q) /\ Len(q) \in n..Len(q)
    OBVIOUS
  <2> QED
    BY <2>1, ConcatAdjacentSubSeq, Zenon
<1>7. SubSeq(q, 1, Len(q)) = q
  BY SubSeqFull
<1> QED
  BY <1>3, <1>4, <1>5, <1>6, <1>7, Zenon

(* Concatenation is associative. *)
LEMMA Assoc ==
  \A p, q, t \in Seq(Byte) : (p \o q) \o t = p \o (q \o t)
  BY ConcatAssociative

(* write keeps the invariant: it accepts what fits, and no more. *)
LEMMA WriteInv ==
  ASSUME Inv, NEW data \in Data, Write(data)
  PROVE  Inv'
<1> DEFINE n == accepted_len(stream, data)
           new == SubSeq(data, 1, n)
           buf == stream.buffer
<1>1. /\ data \in Seq(Byte) /\ buf \in Seq(Byte) /\ accepted \in Seq(Byte)
      /\ taken \in Seq(Byte) /\ stream.byte_written \in Nat /\ stream.byte_read \in Nat
      /\ Capacity \in Nat /\ stream.capacity = Capacity
      /\ stream.byte_written - stream.byte_read = Len(buf) /\ Len(buf) <= Capacity
      /\ stream.byte_written = Len(accepted) /\ accepted = taken \o buf
  BY DataAssumption, CapacityAssumption
  DEF Inv, TypeOK, Fifo, Accounting, ByteStreamType, buffer_size
<1>2. n \in 0..Len(data) /\ Len(buf) + n <= Capacity
  <2>1. n = IF Len(data) <= Capacity - Len(buf) THEN Len(data) ELSE Capacity - Len(buf)
    BY <1>1 DEF accepted_len, remaining_capacity, buffer_size, min
  <2>2. Len(data) \in Nat /\ Len(buf) \in Nat
    BY <1>1
  <2> HIDE DEF n, buf
  <2> QED
    BY <1>1, <2>1, <2>2
<1>3. /\ stream' = [stream EXCEPT !.buffer = buf \o new,
                                  !.byte_written = stream.byte_written + n]
      /\ accepted' = accepted \o new /\ taken' = taken
  BY DEF Write, write
<1> HIDE DEF n
<1>4. new \in Seq(Byte) /\ Len(new) = n /\ n \in Nat
  BY <1>1, <1>2, Cut
<1> HIDE DEF new
<1>5. /\ buf \o new \in Seq(Byte) /\ Len(buf \o new) = Len(buf) + n
      /\ accepted \o new \in Seq(Byte) /\ Len(accepted \o new) = Len(accepted) + n
      /\ (taken \o buf) \o new = taken \o (buf \o new)
  <2>1. buf \o new \in Seq(Byte) /\ Len(buf \o new) = Len(buf) + Len(new)
    BY <1>1, <1>4, ConcatProperties, ZenonT(30)
  <2>2. accepted \o new \in Seq(Byte) /\ Len(accepted \o new) = Len(accepted) + Len(new)
    BY <1>1, <1>4, ConcatProperties, Zenon
  <2>3. (taken \o buf) \o new = taken \o (buf \o new)
    <3>1. taken \in Seq(Byte) /\ buf \in Seq(Byte) /\ new \in Seq(Byte)
      BY <1>1, <1>4
    <3> HIDE DEF buf
    <3> QED
      BY <3>1, Assoc
  <2> QED
    BY <1>4, <2>1, <2>2, <2>3
<1>6. /\ stream'.buffer = buf \o new /\ stream'.byte_written = stream.byte_written + n
      /\ stream'.byte_read = stream.byte_read /\ stream'.capacity = stream.capacity
  BY <1>3 DEF Inv, TypeOK, ByteStreamType
<1>7. TypeOK'
  <2>1. stream.byte_written + n \in Nat
    BY <1>1, <1>4
  <2> QED
    BY <1>1, <1>3, <1>5, <2>1, Zenon DEF Inv, TypeOK, ByteStreamType
<1>8. Fifo'
  BY <1>1, <1>3, <1>5, <1>6, Zenon DEF Fifo
<1>9. Accounting'
  <2>1. stream'.byte_written - stream'.byte_read = Len(buf) + n
    <3> DEFINE w == stream.byte_written
               d == stream.byte_read
               b == Len(buf)
    <3>1. w \in Nat /\ d \in Nat /\ w - d = b
      BY <1>1
    <3> HIDE DEF w, d, b
    <3>2. (w + n) - d = b + n
      BY <1>4, <3>1
    <3> QED
      BY <1>6, <3>2 DEF w, d, b
  <2> QED
    BY <1>1, <1>2, <1>3, <1>5, <1>6, <2>1 DEF Accounting, buffer_size
<1> QED
  BY <1>7, <1>8, <1>9 DEF Inv

(* read keeps the invariant: what leaves the buffer is what is returned. *)
LEMMA ReadInv ==
  ASSUME Inv, NEW len \in ReadLens, Read(len)
  PROVE  Inv'
<1> DEFINE d == min(len, buffer_size(stream))
           buf == stream.buffer
           front == SubSeq(buf, 1, d)
           rest == SubSeq(buf, d + 1, Len(buf))
<1>1. /\ buf \in Seq(Byte) /\ accepted \in Seq(Byte) /\ len \in Nat
      /\ taken \in Seq(Byte) /\ stream.byte_written \in Nat /\ stream.byte_read \in Nat
      /\ Capacity \in Nat /\ stream.capacity = Capacity
      /\ stream.byte_written - stream.byte_read = Len(buf) /\ Len(buf) <= Capacity
      /\ buffer_size(stream) = Len(buf)
      /\ stream.byte_written = Len(accepted) /\ accepted = taken \o buf
  BY ReadLensAssumption, CapacityAssumption
  DEF Inv, TypeOK, Fifo, Accounting, ByteStreamType, buffer_size
<1>2. d \in 0..Len(buf) /\ d \in Nat /\ min(d, buffer_size(stream)) = d
  <2>1. Len(buf) \in Nat
    BY <1>1
  <2> QED
    BY <1>1, <2>1 DEF min
<1>3. /\ stream' = [stream EXCEPT !.buffer = rest, !.byte_read = stream.byte_read + d]
      /\ taken' = taken \o front /\ accepted' = accepted
  BY <1>2 DEF Read, peek_output, pop_output
<1> HIDE DEF d
<1>4. /\ front \in Seq(Byte) /\ rest \in Seq(Byte) /\ Len(rest) = Len(buf) - d
      /\ front \o rest = buf
  <2>1. buf \in Seq(Byte) /\ d \in 0..Len(buf)
    BY <1>1, <1>2
  <2> HIDE DEF buf
  <2> QED
    BY <2>1, Cut, Zenon
<1> HIDE DEF front, rest
<1>5. taken \o front \in Seq(Byte) /\ (taken \o front) \o rest = taken \o (front \o rest)
  <2>1. taken \o front \in Seq(Byte)
    BY <1>1, <1>4, ConcatProperties
  <2>2. taken \in Seq(Byte) /\ front \in Seq(Byte) /\ rest \in Seq(Byte)
    BY <1>1, <1>4
  <2>3. (taken \o front) \o rest = taken \o (front \o rest)
    BY <2>2, Assoc, SMTT(30)
  <2> QED
    BY <2>1, <2>3
<1>6. /\ stream'.buffer = rest /\ stream'.byte_read = stream.byte_read + d
      /\ stream'.byte_written = stream.byte_written /\ stream'.capacity = stream.capacity
  BY <1>3 DEF Inv, TypeOK, ByteStreamType
<1>7. TypeOK'
  <2>1. stream.byte_read + d \in Nat
    BY <1>1, <1>2
  <2> QED
    BY <1>1, <1>3, <1>4, <1>5, <2>1, Zenon DEF Inv, TypeOK, ByteStreamType
<1>8. Fifo'
  BY <1>1, <1>3, <1>4, <1>5, <1>6, Zenon DEF Fifo
<1>9. Accounting'
  <2> DEFINE w == stream.byte_written
             c == stream.byte_read
             b == Len(buf)
  <2>1. w \in Nat /\ c \in Nat /\ b \in Nat /\ w - c = b /\ b <= Capacity
    BY <1>1
  <2>2. d <= b
    BY <1>1, <1>2
  <2> HIDE DEF w, c, b
  <2>3. w - (c + d) = b - d /\ b - d <= Capacity
    BY <1>1, <1>2, <2>1, <2>2
  <2> QED
    BY <1>1, <1>3, <1>4, <1>6, <2>3 DEF Accounting, buffer_size, w, c, b
<1> QED
  BY <1>7, <1>8, <1>9 DEF Inv

(* The three properties hold of every behaviour. *)
THEOREM Correct == Spec => []Inv
<1>1. Init => Inv
  <2> SUFFICES ASSUME Init PROVE Inv
    OBVIOUS
  <2>1. /\ stream.capacity = Capacity /\ stream.buffer = << >>
        /\ stream.byte_written = 0 /\ stream.byte_read = 0
        /\ accepted = << >> /\ taken = << >>
    BY DEF Init, NewByteStream
  <2>2. TypeOK
    BY CapacityAssumption DEF TypeOK, ByteStreamType, Init, NewByteStream
  <2>3. Fifo /\ Accounting
    BY <2>1, CapacityAssumption DEF Fifo, Accounting, buffer_size
  <2> QED
    BY <2>2, <2>3 DEF Inv
<1>2. Inv /\ [Next]_vars => Inv'
  <2> SUFFICES ASSUME Inv, [Next]_vars PROVE Inv'
    OBVIOUS
  <2>1. ASSUME NEW data \in Data, Write(data) PROVE Inv'
    BY <2>1, WriteInv
  <2>2. ASSUME NEW len \in ReadLens, Read(len) PROVE Inv'
    BY <2>2, ReadInv
  <2>3. CASE EndInput
    BY <2>3, Zenon DEF EndInput, end_input, Inv, TypeOK, Fifo, Accounting, ByteStreamType,
                buffer_size
  <2>4. CASE SetError
    BY <2>4, Zenon DEF SetError, set_error, Inv, TypeOK, Fifo, Accounting, ByteStreamType,
                buffer_size
  <2>5. CASE UNCHANGED vars
    BY <2>5 DEF vars, Inv, TypeOK, Fifo, Accounting, buffer_size
  <2> QED
    BY <2>1, <2>2, <2>3, <2>4, <2>5 DEF Next
<1> QED
  BY <1>1, <1>2, PTL DEF Spec

(***************************************************************************)
(* No byte is lost, duplicated or reordered between write and read, for    *)
(* every sequence of calls.                                                *)
(***************************************************************************)
THEOREM FifoHolds == Spec => []Fifo
<1>1. Inv => Fifo
  BY DEF Inv
<1> QED
  BY <1>1, Correct, PTL

(***************************************************************************)
(* The counters always agree with the buffer and the buffer never exceeds  *)
(* the capacity, so the unsigned subtraction in remaining_capacity() never *)
(* wraps.                                                                  *)
(***************************************************************************)
THEOREM AccountingHolds == Spec => []Accounting
<1>1. Inv => Accounting
  BY DEF Inv
<1> QED
  BY <1>1, Correct, PTL

=============================================================================
