-------------------------- MODULE TCPSenderProofs ---------------------------
(***************************************************************************)
(* Proofs about TCPSenderSpec, for every stream, window, segment size and  *)
(* modulus: the retransmission timer runs exactly while something is       *)
(* outstanding, and nothing is sent beyond the window of a peer whose      *)
(* acknowledgments are not overtaken.  The sender knows an acknowledgment  *)
(* by a wrapped number; that it is the one meant is theorem RoundTrip of   *)
(* WrappingIntegersProofs.                                                 *)
(***************************************************************************)
EXTENDS TCPSenderSpec, WrappingIntegersProofs, SequenceTheorems

(* The SYN and the FIN as sequence numbers already used. *)
SynBit(x) == IF x.syn THEN 1 ELSE 0

FinBit(x) == IF x.fin THEN 1 ELSE 0

(* The objects, but for the sequences and sets these proofs do not need. *)
IsStream(b) ==
  b \in [capacity : Nat, buffer : {b.buffer}, byte_written : Nat, byte_read : Nat,
         end : BOOLEAN, error : BOOLEAN]

IsTimer(t) == t \in [remaining_time : Int, is_expired : BOOLEAN, is_stopped : BOOLEAN]

IsSender(x) ==
  /\ x \in [isn : {Isn}, initial_timeout : Nat, stream : {x.stream},
            next_seqno : Nat, bytes_in_flight : {x.bytes_in_flight},
            consecutive_retransmissions : Nat, ackno : Nat, rto : Nat,
            outstanding : {x.outstanding}, timer : {x.timer}, window_size : Nat,
            syn : BOOLEAN, fin : BOOLEAN, segments_out : {x.segments_out}]
  /\ IsStream(x.stream)
  /\ IsTimer(x.timer)

(***************************************************************************)
(* How the sequence numbers follow from what the stream has given away,    *)
(* and what a FIN that was sent means.                                     *)
(***************************************************************************)
Numbered(x) ==
  /\ x.stream.byte_read <= x.stream.byte_written
  /\ x.stream.byte_written <= x.stream.byte_read + x.stream.capacity
  /\ x.next_seqno = SynBit(x) + x.stream.byte_read + FinBit(x)
  /\ ~x.syn => x.stream.byte_read = 0 /\ ~x.fin
  /\ x.fin => x.stream.end /\ x.stream.byte_read = x.stream.byte_written
  /\ x.ackno <= x.next_seqno

Core(x) == IsSender(x) /\ Numbered(x)

Timed(x) == x.timer.is_stopped <=> x.outstanding = {}

(* What fill_window may reach: a window of zero counts as one. *)
RightEdge(x) == x.ackno + (IF x.window_size = 0 THEN 1 ELSE x.window_size)

(***************************************************************************)
(* What is not acknowledged can be sent again: there is an outstanding     *)
(* segment that ends at next_seqno.                                        *)
(***************************************************************************)
Kept(x) ==
  x.ackno < x.next_seqno =>
    \E o \in x.outstanding : o.first \in Nat /\ seq_end(o) = x.next_seqno

(* NoStall, of a sender that need not be s. *)
Busy(x) ==
  /\ ~CLOSED(x)
  /\ ~buffer_empty(x.stream) \/ SYN_ACKED_FIN_TO_SEND(x)
  => x.outstanding # {}

(* At least one segment for any number of bytes; the last one is not empty. *)
LEMMA SegmentCount ==
  ASSUME NEW n \in Nat \ {0}, NEW m \in Nat \ {0}
  PROVE  LET q == (n + m - 1) \div m
         IN  /\ q \in Int /\ q >= 1
             /\ (q - 1) * m \in Nat /\ (q - 1) * m < n /\ n <= (q - 1) * m + m
<1> DEFINE a == n + m - 1
           q == a \div m
           t == a % m
<1>1. a \in Nat /\ a >= m
  OBVIOUS
<1> HIDE DEF a
<1>2. q \in Int /\ t \in 0..(m - 1) /\ a = m * q + t
  BY <1>1
<1> HIDE DEF q, t
<1>3. ASSUME q <= 0 PROVE m * q <= 0
  BY <1>2, <1>3
<1>4. m * q \in Int
  BY <1>2
<1>5. q >= 1
  BY <1>1, <1>2, <1>3, <1>4
<1>6. (q - 1) * m = m * q - m
  BY <1>2
<1>7. (q - 1) * m >= 0
  BY <1>2, <1>5
<1>8. (q - 1) * m \in Nat /\ (q - 1) * m < n /\ n <= (q - 1) * m + m
  BY <1>2, <1>4, <1>6, <1>7 DEF a
<1> QED
  BY <1>2, <1>5, <1>8 DEF q, a

(* The length of an excerpt of any sequence. *)
LEMMA ExcerptLen ==
  ASSUME NEW q, NEW m \in Int, NEW n \in Int
  PROVE  Len(SubSeq(q, m, n)) = IF m <= n THEN n - m + 1 ELSE 0
<1> DEFINE S == { q[i] : i \in m..n }
<1>1. \A i \in m..n : q[i] \in S
  OBVIOUS
<1> HIDE DEF S
<1> QED
  BY <1>1, SubSeqProperties

(* The four counts of fill_window, as numbers. *)
LEMMA Counts ==
  ASSUME NEW x, Core(x), room(x) > 0
  PROVE  LET c == num(CLOSED(x))
             b == sent_bytes(x)
             f == num(sends_fin(x))
         IN  /\ c = 1 - SynBit(x) /\ b \in Nat /\ f \in {0, 1} /\ c \in {0, 1}
             /\ b <= x.stream.byte_written - x.stream.byte_read
             /\ c + b + f <= room(x)
             /\ sends_fin(x) <=> f = 1
             /\ f = 1 => /\ x.stream.end /\ ~x.fin
                         /\ b = x.stream.byte_written - x.stream.byte_read
             /\ x.fin => b = 0 /\ c = 0
<1> DEFINE c == num(CLOSED(x))
           b == sent_bytes(x)
           f == num(sends_fin(x))
           w == x.stream.byte_written
           d == x.stream.byte_read
<1>1. /\ w \in Nat /\ d \in Nat /\ x.next_seqno \in Nat /\ x.ackno \in Nat
      /\ x.window_size \in Nat /\ x.syn \in BOOLEAN /\ x.fin \in BOOLEAN
  BY DEF Core, IsSender, IsStream
<1>2. room(x) \in Int
  BY <1>1 DEF room
<1>3. c = IF x.next_seqno = 0 THEN 1 ELSE 0
  BY Zenon DEF num, CLOSED
<1>4. f = IF sends_fin(x) THEN 1 ELSE 0
  BY Zenon DEF num
<1>5. c = 1 - SynBit(x)
  BY <1>1, <1>3 DEF Core, Numbered, SynBit, FinBit
<1>6. c \in {0, 1} /\ f \in {0, 1} /\ (sends_fin(x) <=> f = 1)
  BY <1>3, <1>4
<1>7. b = IF w - d <= room(x) - c THEN w - d ELSE room(x) - c
  BY DEF sent_bytes, min, buffer_size
<1>8. sends_fin(x) => /\ x.stream.end /\ b = w - d /\ room(x) > c + b
                      /\ x.next_seqno < w + 2
  BY DEF sends_fin, buffer_size
<1> HIDE DEF c, b, f
<1>9. b \in Nat /\ b <= w - d /\ b <= room(x) - c
  BY <1>1, <1>2, <1>6, <1>7 DEF Core, Numbered
<1>10. x.fin => b = 0 /\ c = 0
  BY <1>1, <1>3, <1>9 DEF Core, Numbered, SynBit, FinBit
<1>11. sends_fin(x) => ~x.fin
  BY <1>1, <1>8 DEF Core, Numbered, SynBit, FinBit
<1>12. c + b + f <= room(x)
  BY <1>2, <1>6, <1>8, <1>9
<1> QED
  BY <1>5, <1>6, <1>8, <1>9, <1>10, <1>11, <1>12 DEF c, b, f

(* The segments of fill_window end where next_seqno will be. *)
LEMMA LastSegment ==
  ASSUME NEW x, Core(x), room(x) > 0
  PROVE  /\ new_segment(x, segment_count(x)).first \in Nat
         /\ seq_end(new_segment(x, segment_count(x)))
              = SynBit(x) + x.stream.byte_read
                  + (num(CLOSED(x)) + sent_bytes(x) + num(sends_fin(x)))
<1> DEFINE c == num(CLOSED(x))
           b == sent_bytes(x)
           f == num(sends_fin(x))
           d == x.stream.byte_read
           k == segment_count(x)
           from == (k - 1) * MAX_PAYLOAD_SIZE
           first == IF k = 1 THEN num(x.syn) + d ELSE 1 + d + from
           payload == SubSeq(x.stream.buffer, from + 1, min(from + MAX_PAYLOAD_SIZE, b))
           syn == CLOSED(x) /\ k = 1
           fin == sends_fin(x) /\ k = k
           nsyn == num(syn)
           nfin == num(fin)
           seg == [NewSegment EXCEPT !.seqno = wrap(first, x.isn), !.syn = syn,
                                     !.fin = fin, !.payload = payload]
<1>1. new_segment(x, k) = [first |-> first, seg |-> seg]
  BY Zenon DEF new_segment
<1>2. seg.payload = payload /\ seg.syn = syn /\ seg.fin = fin
  BY Zenon DEF NewSegment
<1>3. /\ new_segment(x, k).first = first
      /\ seq_end(new_segment(x, k)) = first + (Len(payload) + nsyn + nfin)
  <2> DEFINE new == new_segment(x, k)
  <2> HIDE DEF first, seg, payload, syn, fin, k, new
  <2>1. new.first = first /\ new.seg = seg
    BY <1>1 DEF new
  <2>2. seq_end(new) = new.first + (Len(new.seg.payload) + num(new.seg.syn) + num(new.seg.fin))
    BY Zenon DEF seq_end, length_in_sequence_space
  <2> QED
    BY <1>2, <2>1, <2>2, Zenon DEF new
<1>4. nfin = f
  BY Zenon DEF num
<1>5. nsyn = IF k = 1 THEN c ELSE 0
  BY Zenon DEF num
<1>6. d \in Nat /\ SynBit(x) \in {0, 1}
  BY Zenon DEF SynBit, Core, IsSender, IsStream
<1>7. c = 1 - SynBit(x) /\ b \in Nat /\ f \in {0, 1} /\ c \in {0, 1}
  BY Counts
<1>8. MAX_PAYLOAD_SIZE \in Nat \ {0}
  BY SenderAssumption
<1>9. k = IF b = 0 THEN 1 ELSE (b + MAX_PAYLOAD_SIZE - 1) \div MAX_PAYLOAD_SIZE
  BY DEF segment_count
<1> HIDE DEF c, b, f, k, syn, fin, nsyn, nfin
<1>10. k \in Int /\ from \in Nat /\ b <= from + MAX_PAYLOAD_SIZE
  <2>1. CASE b = 0
    BY <1>7, <1>8, <1>9, <2>1
  <2>2. CASE b # 0
    BY <1>7, <1>8, <1>9, <2>2, SegmentCount
  <2> QED
    BY <2>1, <2>2
<1>11. k = 1 => from = 0
  BY <1>8
<1>12. k # 1 => from < b
  BY <1>7, <1>8, <1>9, SegmentCount
<1> HIDE DEF from
<1>13. from <= b
  BY <1>7, <1>10, <1>11, <1>12
<1>14. min(from + MAX_PAYLOAD_SIZE, b) = b
  BY <1>7, <1>8, <1>10 DEF min
<1>15. Len(payload) = IF from + 1 <= b THEN b - (from + 1) + 1 ELSE 0
  BY <1>7, <1>10, <1>14, ExcerptLen
<1>16. first = IF k = 1 THEN SynBit(x) + d ELSE 1 + d + from
  BY Zenon DEF num, SynBit
<1> HIDE DEF payload, first, d
<1>17. Len(payload) = b - from
  BY <1>7, <1>10, <1>13, <1>15
<1>18. first + (Len(payload) + nsyn + nfin) = SynBit(x) + d + (c + b + f)
  <2> DEFINE len == Len(payload)
             bit == SynBit(x)
  <2>1. len = b - from /\ c = 1 - bit /\ bit \in {0, 1}
    BY <1>6, <1>7, <1>17
  <2>2. b \in Nat /\ f \in {0, 1} /\ d \in Nat /\ from \in Nat
    BY <1>6, <1>7, <1>10
  <2>3. IF k = 1 THEN first = bit + d /\ nsyn = c /\ from = 0
                 ELSE first = 1 + d + from /\ nsyn = 0
    BY <1>5, <1>11, <1>16, Zenon
  <2> HIDE DEF len, bit
  <2>4. first + (len + nsyn + f) = bit + d + (c + b + f)
    BY <2>1, <2>2, <2>3
  <2> QED
    BY <1>4, <2>4, Zenon DEF len, bit
<1>19. first \in Nat
  BY <1>6, <1>10, <1>16
<1> QED
  BY <1>3, <1>18, <1>19, Zenon DEF c, b, f, k, d

(* What fill_window keeps, how far it goes, and that it starts the timer. *)
LEMMA Fill ==
  ASSUME NEW x, Core(x)
  PROVE  LET y == fill_window(x)
         IN  /\ Core(y) /\ y.ackno = x.ackno /\ y.window_size = x.window_size
             /\ \/ y.next_seqno = x.next_seqno
                \/ x.next_seqno <= y.next_seqno /\ y.next_seqno <= RightEdge(x)
             /\ Timed(x) => Timed(y)
             /\ Kept(x) => Kept(y) /\ Busy(y)
<1> DEFINE c == num(CLOSED(x))
           b == sent_bytes(x)
           f == num(sends_fin(x))
           used == c + b + f
           k == segment_count(x)
           y == fill_window(x)
<1>1. CASE room(x) <= 0 \/ used = 0
  <2>1. y = x
    BY <1>1, Zenon DEF fill_window
  <2>2. ASSUME Kept(x) PROVE Busy(x)
    <3>1. /\ x.next_seqno \in Nat /\ x.ackno \in Nat /\ x.window_size \in Nat
          /\ x.stream.byte_written \in Nat /\ x.stream.byte_read \in Nat
      BY DEF Core, IsSender, IsStream
    <3>2. CASE room(x) <= 0
      <4>1. x.ackno < x.next_seqno
        BY <3>1, <3>2 DEF room
      <4> QED
        BY <2>2, <4>1 DEF Kept, Busy
    <3>3. CASE room(x) > 0 /\ used = 0
      <4>1. c = 0 /\ b = 0 /\ ~sends_fin(x)
        BY <3>3, Counts
      <4>2. x.stream.byte_written - x.stream.byte_read = 0
        <5>1. b = min(buffer_size(x.stream), room(x) - c)
          BY Zenon DEF sent_bytes
        <5> HIDE DEF b, c
        <5> QED
          BY <3>1, <3>3, <4>1, <5>1 DEF min, buffer_size, room
      <4>3. room(x) > c + b /\ b = buffer_size(x.stream)
        <5> HIDE DEF b, c
        <5> QED
          BY <3>1, <3>3, <4>1, <4>2 DEF buffer_size, room
      <4>4. ~(x.stream.end /\ x.next_seqno < x.stream.byte_written + 2)
        BY <4>1, <4>3, Zenon DEF sends_fin
      <4> QED
        BY <4>2, <4>4, Zenon DEF Busy, buffer_empty, buffer_size, SYN_ACKED_FIN_TO_SEND, eof
    <3>4. room(x) \in Int
      BY <3>1 DEF room
    <3> QED
      BY <1>1, <3>2, <3>3, <3>4
  <2> QED
    BY <2>1, <2>2
<1>2. CASE ~(room(x) <= 0 \/ used = 0)
  <2> DEFINE w == x.stream.byte_written
             d == x.stream.byte_read
             new == { new_segment(x, i) : i \in 1..k }
             sent == [i \in 1..k |-> new_segment(x, i).seg]
             timer == IF x.timer.is_stopped THEN set_new_timer(x.rto) ELSE x.timer
             stream == pop_output(x.stream, b)
  <2>1. /\ w \in Nat /\ d \in Nat /\ x.next_seqno \in Nat /\ x.ackno \in Nat
        /\ x.window_size \in Nat /\ x.syn \in BOOLEAN /\ x.fin \in BOOLEAN
        /\ x.rto \in Nat /\ x.stream.capacity \in Nat
    BY DEF Core, IsSender, IsStream
  <2>2. room(x) > 0
    BY <1>2, <2>1 DEF room
  <2>3. /\ c = 1 - SynBit(x) /\ b \in Nat /\ f \in {0, 1} /\ c \in {0, 1}
        /\ b <= w - d
        /\ used <= room(x)
        /\ sends_fin(x) <=> f = 1
        /\ f = 1 => x.stream.end /\ ~x.fin /\ b = w - d
        /\ x.fin => b = 0 /\ c = 0
    BY <2>2, Counts
  <2>4. num(x.syn) = SynBit(x)
    BY Zenon DEF num, SynBit
  <2>5. y = [x EXCEPT
               !.stream = stream, !.syn = TRUE, !.fin = x.fin \/ sends_fin(x),
               !.next_seqno = SynBit(x) + d + used,
               !.bytes_in_flight = x.bytes_in_flight + used,
               !.outstanding = x.outstanding \cup new,
               !.segments_out = x.segments_out \o sent, !.timer = timer]
    BY <1>2, <2>4, Zenon DEF fill_window
  <2>6. k \in Int /\ k >= 1
    BY <2>3, SegmentCount, SenderAssumption DEF segment_count
  <2>7. /\ new_segment(x, k) \in new /\ new_segment(x, k).first \in Nat
        /\ seq_end(new_segment(x, k)) = SynBit(x) + d + used
    BY <2>2, <2>6, LastSegment
  <2>8. stream = [x.stream EXCEPT !.buffer = SubSeq(x.stream.buffer, b + 1, Len(x.stream.buffer)),
                                  !.byte_read = d + b]
    BY <2>1, <2>3 DEF pop_output, min, buffer_size
  <2>9. IsTimer(timer) /\ ~timer.is_stopped
    BY <2>1 DEF Core, IsSender, IsTimer, set_new_timer
  <2>10. SynBit(x) \in {0, 1} /\ used \in Nat
    BY <2>3 DEF SynBit
  <2> HIDE DEF c, b, f, used, k, y, new, sent, timer
  <2>11. IsStream(stream) /\ stream.byte_read = d + b /\ stream.byte_written = w
         /\ stream.end = x.stream.end /\ stream.capacity = x.stream.capacity
    <3> DEFINE old == x.stream
               buf == SubSeq(x.stream.buffer, b + 1, Len(x.stream.buffer))
    <3>1. old \in [capacity : Nat, buffer : {old.buffer}, byte_written : Nat,
                   byte_read : Nat, end : BOOLEAN, error : BOOLEAN]
      BY DEF Core, IsSender, IsStream
    <3>2. stream = [old EXCEPT !.buffer = buf, !.byte_read = d + b] /\ d + b \in Nat
      BY <2>1, <2>3, <2>8
    <3> HIDE DEF old, buf, stream, d
    <3>3. /\ stream \in [capacity : Nat, buffer : {buf}, byte_written : Nat,
                         byte_read : Nat, end : BOOLEAN, error : BOOLEAN]
          /\ stream.byte_read = d + b /\ stream.byte_written = old.byte_written
          /\ stream.end = old.end /\ stream.capacity = old.capacity /\ stream.buffer = buf
      BY <3>1, <3>2
    <3> QED
      BY <3>3, Zenon DEF IsStream, old
  <2> HIDE DEF stream
  <2>12. /\ y.stream = stream /\ y.syn /\ (y.fin <=> x.fin \/ sends_fin(x))
         /\ y.next_seqno = SynBit(x) + d + used /\ y.outstanding = x.outstanding \cup new
         /\ y.timer = timer /\ y.ackno = x.ackno /\ y.window_size = x.window_size
    BY <2>5, Zenon DEF Core, IsSender
  <2>13. IsSender(y)
    <3>1. (x.fin \/ sends_fin(x)) \in BOOLEAN /\ SynBit(x) + d + used \in Nat
      BY <2>1, <2>10
    <3> QED
      BY <2>5, <2>9, <2>11, <2>12, <3>1, Zenon DEF Core, IsSender
  <2>14. FinBit(y) = FinBit(x) + f
    <3>1. y.fin <=> x.fin \/ f = 1
      BY <2>3, <2>12, Zenon
    <3> QED
      BY <2>1, <2>3, <3>1 DEF FinBit
  <2>15. SynBit(y) = 1
    BY <2>12 DEF SynBit
  <2>16. x.next_seqno = SynBit(x) + d + FinBit(x)
    BY DEF Core, Numbered
  <2>17. FinBit(x) = 1 => used = 0
    BY <2>1, <2>3 DEF FinBit, used
  <2>18. FinBit(x) = 0
    BY <1>2, <2>1, <2>17 DEF FinBit, used, c, b, f
  <2>19. y.next_seqno = SynBit(y) + stream.byte_read + FinBit(y)
    BY <2>1, <2>3, <2>10, <2>11, <2>12, <2>14, <2>15, <2>18 DEF used
  <2>20. x.next_seqno <= y.next_seqno /\ y.next_seqno <= RightEdge(x)
    BY <2>1, <2>3, <2>10, <2>12, <2>16, <2>18 DEF room, RightEdge
  <2>21. Numbered(y)
    <3>1. y.fin => x.stream.end /\ d + b = w
      BY <2>1, <2>3, <2>12 DEF Core, Numbered
    <3>2. d + b <= w /\ w <= d + b + x.stream.capacity /\ x.ackno <= y.next_seqno
      BY <2>1, <2>3, <2>10, <2>12, <2>20 DEF Core, Numbered
    <3> QED
      BY <2>11, <2>12, <2>19, <3>1, <3>2, Zenon DEF Numbered
  <2>22. Timed(y)
    BY <2>7, <2>9, <2>12, Zenon DEF Timed
  <2>23. Kept(y) /\ Busy(y)
    BY <2>7, <2>12, Zenon DEF Kept, Busy
  <2> QED
    BY <2>12, <2>13, <2>20, <2>21, <2>22, <2>23 DEF Core, y
<1> QED
  BY <1>1, <1>2

-----------------------------------------------------------------------------
(* What leaves the stream and the sequence numbers alone keeps Core. *)
LEMMA Frame ==
  ASSUME NEW x, NEW y, Core(x), IsSender(y), y.stream = x.stream, y.syn = x.syn,
         y.fin = x.fin, y.next_seqno = x.next_seqno, y.ackno <= y.next_seqno
  PROVE  Core(y)
  BY Zenon DEF Core, Numbered, SynBit, FinBit

(* Nor does what leaves the outstanding segments alone lose them. *)
LEMMA StillKept ==
  ASSUME NEW x, NEW y, y.stream = x.stream, y.next_seqno = x.next_seqno,
         y.ackno = x.ackno, y.outstanding = x.outstanding
  PROVE  (Kept(x) => Kept(y)) /\ (Busy(x) => Busy(y))
  BY Zenon DEF Kept, Busy, CLOSED, SYN_ACKED_FIN_TO_SEND

(* The owner's emptying of the queue. *)
LEMMA Emptied ==
  ASSUME NEW x, Core(x), NEW o
  PROVE  LET y == [x EXCEPT !.segments_out = o]
         IN  /\ Core(y) /\ y.ackno = x.ackno /\ y.window_size = x.window_size
             /\ y.next_seqno = x.next_seqno
             /\ Timed(x) => Timed(y)
             /\ Kept(x) => Kept(y)
             /\ Busy(x) => Busy(y)
<1> DEFINE y == [x EXCEPT !.segments_out = o]
<1>1. /\ IsSender(y) /\ y.stream = x.stream /\ y.syn = x.syn /\ y.fin = x.fin
      /\ y.next_seqno = x.next_seqno /\ y.ackno = x.ackno
      /\ y.window_size = x.window_size /\ y.timer = x.timer
      /\ y.outstanding = x.outstanding
  BY Zenon DEF Core, IsSender
<1> HIDE DEF y
<1>2. Core(y)
  BY <1>1, Frame, Zenon DEF Core, Numbered
<1>3. (Kept(x) => Kept(y)) /\ (Busy(x) => Busy(y))
  BY <1>1, StillKept, Zenon
<1> QED
  BY <1>1, <1>2, <1>3, Zenon DEF Timed, y

(* An acknowledgment of new data, and the window that came with it. *)
LEMMA NewData ==
  ASSUME NEW x, Core(x), Kept(x), NEW a \in Nat, x.ackno <= a, a <= x.next_seqno
  PROVE  LET y == new_data_acked(x, a)
         IN  /\ Core(y) /\ Timed(y) /\ Kept(y) /\ Busy(y)
             /\ y.ackno = a /\ y.window_size = x.window_size
             /\ \/ y.next_seqno = x.next_seqno
                \/ /\ x.next_seqno <= y.next_seqno
                   /\ y.next_seqno <= a + (IF x.window_size = 0 THEN 1 ELSE x.window_size)
<1> DEFINE q == [x EXCEPT !.ackno = a, !.rto = x.initial_timeout,
                          !.consecutive_retransmissions = 0]
           p == pop_outstanding_segment(q)
           z == fill_window(p)
           t == IF z.outstanding = {} THEN StoppedTimer ELSE set_new_timer(z.rto)
           y == [z EXCEPT !.timer = t]
<1>1. new_data_acked(x, a) = y
  BY Zenon DEF new_data_acked
<1>2. /\ IsSender(q) /\ q.stream = x.stream /\ q.syn = x.syn /\ q.fin = x.fin
      /\ q.next_seqno = x.next_seqno /\ q.ackno = a /\ q.window_size = x.window_size
      /\ q.outstanding = x.outstanding
  BY DEF Core, IsSender
<1> HIDE DEF q
<1>3. /\ IsSender(p) /\ p.stream = q.stream /\ p.syn = q.syn /\ p.fin = q.fin
      /\ p.next_seqno = q.next_seqno /\ p.ackno = q.ackno /\ p.window_size = q.window_size
      /\ p.outstanding = q.outstanding \ fully_acked(q)
  BY <1>2, Zenon DEF pop_outstanding_segment, IsSender
<1> HIDE DEF p
<1>4. Core(p)
  BY <1>2, <1>3, Frame
<1>10. Kept(p)
  <2> SUFFICES ASSUME a < x.next_seqno
               PROVE  \E o \in p.outstanding :
                        o.first \in Nat /\ seq_end(o) = x.next_seqno
    BY <1>2, <1>3 DEF Kept
  <2>1. x.ackno \in Nat /\ x.next_seqno \in Nat
    BY DEF Core, IsSender
  <2>2. x.ackno < x.next_seqno
    BY <2>1
  <2>3. PICK o \in x.outstanding : o.first \in Nat /\ seq_end(o) = x.next_seqno
    BY <2>2 DEF Kept
  <2>4. ~(seq_end(o) <= a)
    BY <2>1, <2>3
  <2>5. ASSUME o \in fully_acked(q) PROVE FALSE
    <3>1. o.first <= o.first => seq_end(o) <= q.ackno
      BY <2>5, Zenon DEF fully_acked
    <3> QED
      BY <1>2, <2>3, <2>4, <3>1
  <2> QED
    BY <1>2, <1>3, <2>3, <2>5
<1>5. /\ Core(z) /\ Kept(z) /\ Busy(z) /\ z.ackno = p.ackno /\ z.window_size = p.window_size
      /\ \/ z.next_seqno = p.next_seqno
         \/ p.next_seqno <= z.next_seqno /\ z.next_seqno <= RightEdge(p)
  BY <1>4, <1>10, Fill
<1> HIDE DEF z
<1>6. IsTimer(t) /\ (t.is_stopped <=> z.outstanding = {})
  BY <1>5 DEF IsTimer, StoppedTimer, set_new_timer, Core, IsSender
<1> HIDE DEF t
<1>7. /\ IsSender(y) /\ y.stream = z.stream /\ y.syn = z.syn /\ y.fin = z.fin
      /\ y.next_seqno = z.next_seqno /\ y.ackno = z.ackno /\ y.outstanding = z.outstanding
      /\ y.window_size = z.window_size /\ y.timer = t
  BY <1>5, <1>6, Zenon DEF Core, IsSender
<1> HIDE DEF y
<1>8. Core(y)
  BY <1>5, <1>7, Frame, Zenon DEF Core, Numbered
<1>9. Timed(y)
  BY <1>6, <1>7, Zenon DEF Timed
<1>11. Kept(y) /\ Busy(y)
  BY <1>5, <1>7, StillKept, Zenon
<1> QED
  BY <1>1, <1>2, <1>3, <1>5, <1>7, <1>8, <1>9, <1>11 DEF RightEdge

(***************************************************************************)
(* ack_received: an acknowledgment of a, at less than half of the modulus  *)
(* from the last one, is understood as one of a.                           *)
(***************************************************************************)
LEMMA Acked ==
  ASSUME NEW x, Core(x), Timed(x), Kept(x), Busy(x), NEW a \in Nat, NEW w \in Nat,
         2 * (a - x.ackno) < Modulus, 2 * (x.ackno - a) < Modulus
  PROVE  LET y == ack_received(x, wrap(a, x.isn), w).self
         IN  /\ Core(y) /\ Timed(y) /\ Kept(y) /\ Busy(y)
             /\ a > x.next_seqno => y = x
             /\ a <= x.next_seqno =>
                  /\ y.window_size = w /\ y.ackno = larger(x.ackno, a)
                  /\ \/ y.next_seqno = x.next_seqno
                     \/ /\ x.next_seqno <= y.next_seqno
                        /\ y.next_seqno <= y.ackno + (IF w = 0 THEN 1 ELSE w)
<1> DEFINE u == [x EXCEPT !.window_size = w]
           y == ack_received(x, wrap(a, x.isn), w).self
<1>1. x.ackno \in Nat /\ x.next_seqno \in Nat /\ x.isn \in WrappingInt32
  BY StreamAssumption DEF Core, IsSender
<1>2. 2 * Distance(a, x.ackno) < Modulus
  BY <1>1 DEF Distance
<1>3. unwrap(wrap(a, x.isn), x.isn, x.ackno) = a
  BY <1>1, <1>2, RoundTrip
<1>4. /\ IsSender(u) /\ u.stream = x.stream /\ u.syn = x.syn /\ u.fin = x.fin
      /\ u.next_seqno = x.next_seqno /\ u.ackno = x.ackno /\ u.window_size = w
      /\ u.timer = x.timer /\ u.outstanding = x.outstanding
  BY Zenon DEF Core, IsSender
<1>5. /\ a > x.next_seqno => y = x
      /\ ~(a > x.next_seqno) /\ a <= x.ackno => y = u
      /\ ~(a > x.next_seqno) /\ ~(a <= x.ackno) => y = new_data_acked(u, a)
  BY <1>3, Zenon DEF ack_received
<1> HIDE DEF u, y
<1>6. Core(u) /\ Timed(u) /\ Kept(u) /\ Busy(u)
  BY <1>4, Frame, StillKept, Zenon DEF Core, Numbered, Timed
<1>7. CASE a > x.next_seqno
  BY <1>1, <1>5, <1>7 DEF y
<1>8. CASE a <= x.next_seqno /\ a <= x.ackno
  BY <1>1, <1>4, <1>5, <1>6, <1>8 DEF y, larger
<1>9. CASE a <= x.next_seqno /\ a > x.ackno
  <2>1. y = new_data_acked(u, a)
    BY <1>1, <1>5, <1>9
  <2>2. /\ Core(y) /\ Timed(y) /\ Kept(y) /\ Busy(y) /\ y.ackno = a /\ y.window_size = u.window_size
        /\ \/ y.next_seqno = u.next_seqno
           \/ /\ u.next_seqno <= y.next_seqno
              /\ y.next_seqno <= a + (IF u.window_size = 0 THEN 1 ELSE u.window_size)
    BY <1>1, <1>4, <1>6, <1>9, <2>1, NewData
  <2> QED
    BY <1>1, <1>4, <1>9, <2>2 DEF y, larger
<1> QED
  BY <1>1, <1>7, <1>8, <1>9

(* tick: the timer runs on, or starts again when the oldest is sent again. *)
LEMMA Ticked ==
  ASSUME NEW x, Core(x), Timed(x), Kept(x), Busy(x), NEW ms \in Nat
  PROVE  LET y == tick(x, ms)
         IN  /\ Core(y) /\ Timed(y) /\ Kept(y) /\ Busy(y) /\ y.ackno = x.ackno
             /\ y.window_size = x.window_size /\ y.next_seqno = x.next_seqno
<1> DEFINE timer == time_expired(x.timer, ms)
           u == [x EXCEPT !.timer = timer]
           y == tick(x, ms)
<1>1. IsTimer(timer) /\ timer.is_stopped = x.timer.is_stopped
  <2> DEFINE old == x.timer
             left == old.remaining_time - ms
  <2>1. old \in [remaining_time : Int, is_expired : BOOLEAN, is_stopped : BOOLEAN]
    BY DEF Core, IsSender, IsTimer
  <2>2. left \in Int
    BY <2>1
  <2>3. \/ timer = old
        \/ timer = [old EXCEPT !.is_expired = TRUE]
        \/ timer = [old EXCEPT !.remaining_time = left]
    BY Zenon DEF time_expired
  <2> QED
    BY <2>1, <2>2, <2>3, Zenon DEF IsTimer
<1> HIDE DEF timer
<1>2. /\ IsSender(u) /\ u.stream = x.stream /\ u.syn = x.syn /\ u.fin = x.fin
      /\ u.next_seqno = x.next_seqno /\ u.ackno = x.ackno /\ u.timer = timer
      /\ u.window_size = x.window_size /\ u.outstanding = x.outstanding
  BY <1>1, Zenon DEF Core, IsSender
<1>3. \/ y = u
      \/ y = retransmit(u) /\ x.outstanding # {}
  BY Zenon DEF tick, timer
<1> HIDE DEF u, y
<1>4. Core(u) /\ Timed(u) /\ Kept(u) /\ Busy(u)
  BY <1>1, <1>2, Frame, StillKept, Zenon DEF Core, Numbered, Timed
<1>5. CASE y = retransmit(u) /\ x.outstanding # {}
  <2> DEFINE k == IF u.window_size > 0 THEN 1 ELSE 0
             n == u.consecutive_retransmissions + k
             rto == u.rto * (1 + k)
             out1 == IF n <= MAX_RETX_ATTEMPTS
                       THEN Append(u.segments_out, oldest(u).seg) ELSE u.segments_out
             t == set_new_timer(rto)
  <2>1. y = [u EXCEPT !.consecutive_retransmissions = n, !.rto = rto,
                      !.segments_out = out1, !.timer = t]
    BY <1>5, Zenon DEF retransmit
  <2>2. n \in Nat /\ rto \in Nat
    BY <1>2 DEF IsSender
  <2> HIDE DEF n, rto, out1
  <2>3. IsTimer(t) /\ ~t.is_stopped
    BY <2>2 DEF set_new_timer, IsTimer
  <2> HIDE DEF t
  <2>4. /\ IsSender(y) /\ y.stream = u.stream /\ y.syn = u.syn /\ y.fin = u.fin
        /\ y.next_seqno = u.next_seqno /\ y.ackno = u.ackno /\ y.timer = t
        /\ y.window_size = u.window_size /\ y.outstanding = u.outstanding
    BY <1>2, <2>1, <2>2, <2>3, Zenon DEF IsSender
  <2>5. Core(y)
    BY <1>4, <2>4, Frame, Zenon DEF Core, Numbered
  <2>6. Kept(y) /\ Busy(y)
    BY <1>4, <2>4, StillKept, Zenon
  <2> QED
    BY <1>2, <1>5, <2>3, <2>4, <2>5, <2>6, Zenon DEF Timed, y
<1> QED
  BY <1>2, <1>3, <1>4, <1>5 DEF y

(* The application's writes and its end of the stream, before fill_window. *)
LEMMA Written ==
  ASSUME NEW x, Core(x), NEW data \in Seq(Nat), ~x.stream.end
  PROVE  LET y == [x EXCEPT !.stream = write(@, data)]
         IN  /\ Core(y) /\ y.ackno = x.ackno /\ y.window_size = x.window_size
             /\ y.next_seqno = x.next_seqno
             /\ Timed(x) => Timed(y)
             /\ Kept(x) => Kept(y)
<1> DEFINE old == x.stream
           n == accepted_len(old, data)
           buf == old.buffer \o SubSeq(data, 1, n)
           new == [old EXCEPT !.buffer = buf, !.byte_written = old.byte_written + n]
           y == [x EXCEPT !.stream = new]
<1>1. [x EXCEPT !.stream = write(@, data)] = y
  BY Zenon DEF write
<1>2. /\ old \in [capacity : Nat, buffer : {old.buffer}, byte_written : Nat,
                   byte_read : Nat, end : BOOLEAN, error : BOOLEAN]
      /\ old.byte_written <= old.byte_read + old.capacity
      /\ old.byte_read <= old.byte_written /\ ~x.fin
  BY DEF Core, IsSender, IsStream, Numbered
<1>3. Len(data) \in Nat
  OBVIOUS
<1>4. n = IF Len(data) <= old.capacity - (old.byte_written - old.byte_read)
            THEN Len(data) ELSE old.capacity - (old.byte_written - old.byte_read)
  BY DEF accepted_len, min, remaining_capacity, buffer_size
<1> HIDE DEF n, buf, old
<1>5. /\ n \in Nat
      /\ old.byte_written + n \in Nat /\ old.byte_read <= old.byte_written + n
      /\ old.byte_written + n <= old.byte_read + old.capacity
  BY <1>2, <1>3, <1>4
<1>6. /\ new \in [capacity : Nat, buffer : {buf}, byte_written : Nat,
                  byte_read : Nat, end : BOOLEAN, error : BOOLEAN]
      /\ new.byte_read = old.byte_read /\ new.byte_written = old.byte_written + n
      /\ new.end = old.end /\ new.capacity = old.capacity /\ new.buffer = buf
  BY <1>2, <1>5, Zenon
<1>7. IsStream(new)
  BY <1>6, Zenon DEF IsStream
<1> HIDE DEF new
<1>8. /\ IsSender(y) /\ y.stream = new /\ y.syn = x.syn /\ y.fin = x.fin
      /\ y.next_seqno = x.next_seqno /\ y.ackno = x.ackno /\ y.timer = x.timer
      /\ y.window_size = x.window_size /\ y.outstanding = x.outstanding
  BY <1>7, Zenon DEF Core, IsSender
<1> HIDE DEF y
<1>9. Numbered(y)
  BY <1>2, <1>5, <1>6, <1>8, Zenon DEF Core, Numbered, SynBit, FinBit, old
<1> QED
  BY <1>1, <1>8, <1>9, Zenon DEF Core, Timed, Kept

LEMMA Ended ==
  ASSUME NEW x, Core(x)
  PROVE  LET y == [x EXCEPT !.stream = end_input(@)]
         IN  /\ Core(y) /\ y.ackno = x.ackno /\ y.window_size = x.window_size
             /\ y.next_seqno = x.next_seqno
             /\ Timed(x) => Timed(y)
             /\ Kept(x) => Kept(y)
<1> DEFINE new == [x.stream EXCEPT !.end = TRUE]
           y == [x EXCEPT !.stream = new]
<1>1. [x EXCEPT !.stream = end_input(@)] = y
  BY Zenon DEF end_input
<1>2. /\ IsStream(new) /\ new.byte_read = x.stream.byte_read
      /\ new.byte_written = x.stream.byte_written /\ new.end
      /\ new.capacity = x.stream.capacity
  BY Zenon DEF Core, IsSender, IsStream
<1> HIDE DEF new
<1>3. /\ IsSender(y) /\ y.stream = new /\ y.syn = x.syn /\ y.fin = x.fin
      /\ y.next_seqno = x.next_seqno /\ y.ackno = x.ackno /\ y.timer = x.timer
      /\ y.window_size = x.window_size /\ y.outstanding = x.outstanding
  BY <1>2, Zenon DEF Core, IsSender
<1> HIDE DEF y
<1>4. Numbered(y)
  BY <1>2, <1>3, Zenon DEF Core, Numbered, SynBit, FinBit
<1> QED
  BY <1>1, <1>3, <1>4, Zenon DEF Core, Timed, Kept

-----------------------------------------------------------------------------
(***************************************************************************)
(* The inductive invariant.  In order, the last acknowledgment is the one  *)
(* that reaches farthest, so that the sender's right edge is the peer's.   *)
(***************************************************************************)
InOrder == /\ s.ackno + s.window_size = edge
           /\ s.next_seqno <= larger(edge, s.ackno + 1)

Inv ==
  /\ Core(s) /\ Timed(s) /\ Kept(s) /\ Busy(s)
  /\ edge \in Nat /\ overtaken \in BOOLEAN
  /\ ~overtaken => InOrder

LEMMA StartInv == Init => Inv
<1> SUFFICES ASSUME Init PROVE Inv
  OBVIOUS
<1>1. s = NewTCPSender(Capacity, Timeout, Isn) /\ edge = 1 /\ overtaken = FALSE
  BY DEF Init
<1>2. /\ s.stream = NewByteStream(Capacity) /\ s.timer = StoppedTimer /\ s.ackno = 0
      /\ s.next_seqno = 0 /\ s.outstanding = {} /\ s.window_size = 1
      /\ s.syn = FALSE /\ s.fin = FALSE
  BY <1>1 DEF NewTCPSender
<1>3. IsStream(s.stream) /\ s.stream.byte_read = 0 /\ s.stream.byte_written = 0
      /\ s.stream.capacity \in Nat
  BY <1>2, CapacityAssumption DEF NewByteStream, IsStream
<1>4. IsTimer(s.timer) /\ s.timer.is_stopped = TRUE
  BY <1>2 DEF StoppedTimer, IsTimer
<1>5. s \in [isn : {Isn}, initial_timeout : Nat, stream : {s.stream},
            next_seqno : Nat, bytes_in_flight : {s.bytes_in_flight},
            consecutive_retransmissions : Nat, ackno : Nat, rto : Nat,
            outstanding : {s.outstanding}, timer : {s.timer}, window_size : Nat,
            syn : BOOLEAN, fin : BOOLEAN, segments_out : {s.segments_out}]
  BY <1>1, TimeAssumption DEF NewTCPSender
<1>6. Core(s)
  BY <1>2, <1>3, <1>4, <1>5 DEF Core, IsSender, Numbered, SynBit, FinBit
<1>7. Timed(s) /\ Kept(s) /\ Busy(s)
  BY <1>2, <1>4 DEF Timed, Kept, Busy, CLOSED
<1>8. edge = 1
  BY <1>1, Zenon
<1>9. InOrder /\ edge \in Nat
  BY <1>2, <1>8 DEF InOrder, larger
<1>10. overtaken \in BOOLEAN
  BY <1>1, Zenon
<1> QED
  BY <1>6, <1>7, <1>9, <1>10, Zenon DEF Inv

(* fill_window leaves the sender within the window. *)
LEMMA Filled ==
  ASSUME NEW x, Core(x), Timed(x), Kept(x), edge \in Nat
  PROVE  LET y == fill_window(x)
         IN  /\ Core(y) /\ Timed(y) /\ Kept(y) /\ Busy(y)
             /\ x.ackno + x.window_size = edge /\ x.next_seqno <= larger(edge, x.ackno + 1)
                => /\ y.ackno + y.window_size = edge
                   /\ y.next_seqno <= larger(edge, y.ackno + 1)
<1> DEFINE y == fill_window(x)
<1>1. /\ Core(y) /\ Timed(y) /\ Kept(y) /\ Busy(y)
      /\ y.ackno = x.ackno /\ y.window_size = x.window_size
      /\ \/ y.next_seqno = x.next_seqno
         \/ x.next_seqno <= y.next_seqno /\ y.next_seqno <= RightEdge(x)
  BY Fill
<1> HIDE DEF y
<1>2. /\ x.ackno \in Nat /\ x.window_size \in Nat /\ x.next_seqno \in Nat
      /\ y.next_seqno \in Nat
  BY <1>1 DEF Core, IsSender
<1>3. ASSUME x.ackno + x.window_size = edge, x.next_seqno <= larger(edge, x.ackno + 1)
      PROVE  /\ y.ackno + y.window_size = edge
             /\ y.next_seqno <= larger(edge, y.ackno + 1)
  BY <1>1, <1>2, <1>3 DEF RightEdge, larger
<1> QED
  BY <1>1, <1>3 DEF y

LEMMA StepInv == Inv /\ [Next]_vars => Inv'
<1> SUFFICES ASSUME Inv, [Next]_vars PROVE Inv'
  OBVIOUS
<1> USE DEF Inv
<1>1. ASSUME NEW x, Core(x), Timed(x), Kept(x), Busy(x), Collect(x),
             edge' \in Nat, overtaken' \in BOOLEAN,
             ~overtaken' => /\ x.ackno + x.window_size = edge'
                            /\ x.next_seqno <= larger(edge', x.ackno + 1)
      PROVE  Inv'
  <2>1. s' = [x EXCEPT !.segments_out = << >>]
    BY <1>1 DEF Collect
  <2>2. /\ Core(s') /\ Timed(s') /\ Kept(s') /\ Busy(s')
        /\ s'.ackno = x.ackno /\ s'.window_size = x.window_size
        /\ s'.next_seqno = x.next_seqno
    BY <1>1, <2>1, Emptied
  <2>3. (Core(s) /\ Timed(s) /\ Kept(s) /\ Busy(s))'
    BY <2>2, Zenon DEF Core, Timed, Kept, Busy
  <2>4. ~overtaken' => InOrder'
    BY <1>1, <2>2 DEF InOrder, larger
  <2> QED
    BY <1>1, <2>3, <2>4
<1>2. ASSUME NEW x, Core(x), Timed(x), Kept(x), Collect(fill_window(x)),
             x.ackno = s.ackno, x.window_size = s.window_size,
             x.next_seqno = s.next_seqno, UNCHANGED << edge, overtaken >>
      PROVE  Inv'
  <2> DEFINE y == fill_window(x)
  <2>1. /\ Core(y) /\ Timed(y) /\ Kept(y) /\ Busy(y)
        /\ x.ackno + x.window_size = edge /\ x.next_seqno <= larger(edge, x.ackno + 1)
           => /\ y.ackno + y.window_size = edge
              /\ y.next_seqno <= larger(edge, y.ackno + 1)
    BY <1>2, Filled
  <2>2. ~overtaken => /\ y.ackno + y.window_size = edge
                      /\ y.next_seqno <= larger(edge, y.ackno + 1)
    BY <1>2, <2>1 DEF InOrder
  <2> QED
    BY <1>1, <1>2, <2>1, <2>2
<1>3. CASE Open
  BY <1>2, <1>3 DEF Open
<1>4. ASSUME NEW len \in WriteLens, Write(len) PROVE Inv'
  <2> DEFINE data == SubSeq(Stream, s.stream.byte_written + 1, s.stream.byte_written + len)
             x == [s EXCEPT !.stream = write(@, data)]
  <2>1. data \in Seq(Nat)
    <3>1. /\ s.stream.byte_written \in Nat /\ len \in Nat
          /\ s.stream.byte_written + len <= Len(Stream) /\ Len(Stream) \in Nat
      BY <1>4, StreamAssumption, InputAssumption DEF Core, IsSender, IsStream, Write, N
    <3>2. \A i \in (s.stream.byte_written + 1)..(s.stream.byte_written + len) : Stream[i] \in Nat
      BY <3>1, StreamAssumption
    <3> QED
      BY <3>1, <3>2, SubSeqProperties
  <2>2. ~s.stream.end /\ Collect(fill_window(x)) /\ UNCHANGED << edge, overtaken >>
    BY <1>4, Zenon DEF Write
  <2> HIDE DEF data
  <2>3. /\ Core(x) /\ x.ackno = s.ackno /\ x.window_size = s.window_size
        /\ x.next_seqno = s.next_seqno /\ Timed(x) /\ Kept(x)
    BY <2>1, <2>2, Written
  <2> HIDE DEF x
  <2> QED
    BY <1>2, <2>2, <2>3
<1>5. CASE EndInput
  <2> DEFINE x == [s EXCEPT !.stream = end_input(@)]
  <2>1. Collect(fill_window(x)) /\ UNCHANGED << edge, overtaken >>
    BY <1>5, Zenon DEF EndInput
  <2>2. /\ Core(x) /\ x.ackno = s.ackno /\ x.window_size = s.window_size
        /\ x.next_seqno = s.next_seqno /\ Timed(x) /\ Kept(x)
    BY Ended
  <2> HIDE DEF x
  <2> QED
    BY <1>2, <2>1, <2>2
<1>6. ASSUME NEW a \in 0..(N + 3), NEW w \in Windows, Ack(a, w) PROVE Inv'
  <2> DEFINE x == ack_received(s, wrap(a, s.isn), w).self
  <2>1. a \in Nat /\ w \in Nat /\ s.ackno \in Nat /\ s.window_size \in Nat
        /\ s.next_seqno \in Nat /\ s.ackno <= s.next_seqno
    BY StreamAssumption, InputAssumption DEF N, Core, IsSender, Numbered
  <2>2. /\ Collect(x)
        /\ Fresh(a, w) \/ Overtaken(a, w) \/ a = s.next_seqno + 1
        /\ 2 * (a - s.ackno) < Modulus /\ 2 * (s.ackno - a) < Modulus
        /\ edge' = IF a <= s.next_seqno THEN larger(edge, a + w) ELSE edge
        /\ overtaken' = (overtaken \/ (Overtaken(a, w) /\ ~Fresh(a, w)))
    BY <1>6 DEF Ack
  <2>3. /\ Core(x) /\ Timed(x) /\ Kept(x) /\ Busy(x)
        /\ a > s.next_seqno => x = s
        /\ a <= s.next_seqno =>
             /\ x.window_size = w /\ x.ackno = larger(s.ackno, a)
             /\ \/ x.next_seqno = s.next_seqno
                \/ /\ s.next_seqno <= x.next_seqno
                   /\ x.next_seqno <= x.ackno + (IF w = 0 THEN 1 ELSE w)
    BY <2>1, <2>2, Acked
  <2>4. edge' \in Nat /\ overtaken' \in BOOLEAN
    BY <2>1, <2>2 DEF larger
  <2> HIDE DEF x
  <2>5. ASSUME ~overtaken'
        PROVE  /\ x.ackno + x.window_size = edge'
               /\ x.next_seqno <= larger(edge', x.ackno + 1)
    <3>1. ~overtaken /\ (Fresh(a, w) \/ a = s.next_seqno + 1)
      BY <2>2, <2>5, Zenon
    <3>2. s.ackno + s.window_size = edge /\ s.next_seqno <= larger(edge, s.ackno + 1)
      BY <3>1 DEF InOrder
    <3>3. CASE Fresh(a, w)
      <4>1. a >= s.ackno /\ a + w >= edge /\ a <= s.next_seqno
        BY <3>3 DEF Fresh
      <4>2. x.ackno = a /\ x.window_size = w /\ edge' = a + w
        BY <2>1, <2>2, <2>3, <4>1 DEF larger
      <4>3. x.next_seqno \in Nat
        BY <2>3 DEF Core, IsSender
      <4> QED
        BY <2>1, <2>3, <3>2, <4>1, <4>2, <4>3 DEF larger
    <3>4. CASE a = s.next_seqno + 1
      BY <2>1, <2>2, <2>3, <3>2, <3>4 DEF larger
    <3> QED
      BY <3>1, <3>3, <3>4
  <2> QED
    BY <1>1, <2>2, <2>3, <2>4, <2>5
<1>7. ASSUME NEW ms \in Ticks, Tick(ms) PROVE Inv'
  <2> DEFINE x == tick(s, ms)
  <2>1. Collect(x) /\ UNCHANGED << edge, overtaken >> /\ ms \in Nat
    BY <1>7, TimeAssumption DEF Tick
  <2>2. /\ Core(x) /\ Timed(x) /\ Kept(x) /\ Busy(x) /\ x.ackno = s.ackno
        /\ x.window_size = s.window_size /\ x.next_seqno = s.next_seqno
    BY <2>1, Ticked
  <2> HIDE DEF x
  <2> QED
    BY <1>1, <2>1, <2>2 DEF InOrder
<1>8. CASE SendEmpty
  <2> DEFINE o == Append(s.segments_out, [NewSegment EXCEPT !.seqno = wrap(s.next_seqno, s.isn)])
             x == [s EXCEPT !.segments_out = o]
  <2>1. Collect(x) /\ UNCHANGED << edge, overtaken >>
    BY <1>8, Zenon DEF SendEmpty, send_empty_segment
  <2> HIDE DEF o
  <2>2. /\ Core(x) /\ Timed(x) /\ Kept(x) /\ Busy(x) /\ x.ackno = s.ackno
        /\ x.window_size = s.window_size /\ x.next_seqno = s.next_seqno
    BY Emptied
  <2> HIDE DEF x
  <2> QED
    BY <1>1, <2>1, <2>2 DEF InOrder
<1>9. CASE UNCHANGED vars
  BY <1>9, Zenon DEF vars, InOrder, Core, Timed, Kept, Busy
<1> QED
  BY <1>3, <1>4, <1>5, <1>6, <1>7, <1>8, <1>9 DEF Next

(* The invariant holds in every behaviour. *)
THEOREM Invariance == Spec => []Inv
  BY StartInv, StepInv, PTL DEF Spec

(***************************************************************************)
(* The retransmission timer runs exactly while segments are outstanding.   *)
(***************************************************************************)
THEOREM TimerRuns == Spec => []TimerIffOutstanding
<1>1. Inv => TimerIffOutstanding
  BY Zenon DEF Inv, Timed, TimerIffOutstanding
<1> QED
  BY <1>1, Invariance, PTL

(***************************************************************************)
(* While bytes or a FIN wait on an open connection, something is           *)
(* outstanding: fill_window stops only where an acknowledgment, or the     *)
(* timer, will call it again.                                              *)
(***************************************************************************)
THEOREM NeverStalls == Spec => []NoStall
<1>1. Inv => NoStall
  BY Zenon DEF Inv, Busy, NoStall
<1> QED
  BY <1>1, Invariance, PTL

(***************************************************************************)
(* Nothing is sent beyond the right edge that the peer advertised, except  *)
(* the number that probes a closed window, as long as the acknowledgments  *)
(* arrive in the order in which they were sent.                            *)
(***************************************************************************)
THEOREM KeepsToTheWindow == Spec => []WithinWindowInOrder
<1>1. Inv => WithinWindowInOrder
  BY Zenon DEF Inv, InOrder, WithinWindowInOrder, WithinWindow
<1> QED
  BY <1>1, Invariance, PTL

=============================================================================
