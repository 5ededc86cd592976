--------------------------- MODULE FreeIntervals ----------------------------
(***************************************************************************)
(* How StreamReassembler counts bytes: _used_byte is an ordered set of     *)
(* half-open intervals << first, second >> of bytes not received yet, and  *)
(* push_substring cuts the new substring out of the intervals that it      *)
(* finds by two binary searches.  The intervals are kept here beside the   *)
(* object of StreamReassemblerSpec, which holds the set of bytes received. *)
(***************************************************************************)
EXTENDS StreamReassemblerSpec, FiniteSetsExt

CONSTANT SIZE_MAX   \* numeric_limits<size_t>::max()

ASSUME SizeMaxAssumption == SIZE_MAX > N

VARIABLES used_byte,      \* the intervals
          stored_bytes    \* the counter that remove_segement maintains

ivars == << r, used_byte, stored_bytes >>

(* std::pair's order. *)
Before(p, q) == p[1] < q[1] \/ (p[1] = q[1] /\ p[2] < q[2])

(* Faulty: starts at lower_bound, without the step back. *)
VisitedFromLowerBound(free, l, e) ==
  { p \in free : ~Before(p, <<l, l>>)
                 /\ \A q \in free : Before(q, p) => Before(q, <<e, e>>) }

(***************************************************************************)
(* The intervals that the loop of lines 60-70 passes to remove_segement:   *)
(* from the one before lower_bound(<<l, l>>), when there is one, to        *)
(* lower_bound(<<e, e>>) included.                                         *)
(***************************************************************************)
Visited(free, l, e) ==
  { p \in free :
      /\ \A q \in free : Before(p, q) /\ Before(p, <<l, l>>) => ~Before(q, <<l, l>>)
      /\ \A q \in free : Before(q, p) => Before(q, <<e, e>>) }

(* Lines 20-36: what is left of interval p, and how much of it was new. *)
Meets(p, l, e) == l < p[2] /\ e > p[1]

Remainders(p, l, e) ==
  { q \in (IF l >= p[1] THEN { <<p[1], l>>, <<e, p[2]>> } ELSE { <<e, p[2]>> }) :
      q[2] > q[1] }

NewBytes(p, l, e) == min(e, p[2]) - (IF l >= p[1] THEN l ELSE p[1])

(* Lines 59-72 on the substring [l, e). *)
Cut(l, e) ==
  LET hit == { p \in Visited(used_byte, l, e) : Meets(p, l, e) }
  IN  /\ used_byte' = (used_byte \ hit) \cup UNION { Remainders(p, l, e) : p \in hit }
      /\ stored_bytes' = stored_bytes
                           + MapThenSumSet(LAMBDA p : NewBytes(p, l, e), hit)

InitI == Init /\ used_byte = { <<0, SIZE_MAX>> } /\ stored_bytes = 0

(* push_substring: the two early returns leave the intervals alone. *)
PushI(index, len, is_eof) ==
  /\ Push(index, len, is_eof)
  /\ LET e == min(index + len, limit(r))
     IN  IF index < limit(r) /\ e > r.assembled_bytes
           THEN Cut(index, e)
           ELSE UNCHANGED << used_byte, stored_bytes >>

ReadI(len) == Read(len) /\ UNCHANGED << used_byte, stored_bytes >>

NextI ==
  \/ \E index, len \in 0..N, is_eof \in BOOLEAN : PushI(index, len, is_eof)
  \/ \E len \in ReadLens : ReadI(len)

SpecI == InitI /\ [][NextI]_ivars

FairSpecI == SpecI /\ Fairness

-----------------------------------------------------------------------------
BytesOf(p) == p[1]..(p[2] - 1)

(***************************************************************************)
(* The free intervals are exactly the bytes not received: no cut misses an *)
(* interval it should visit, keeps a byte it should remove, or removes one *)
(* it should keep.  They never overlap and are never empty (an empty       *)
(* substring may leave two adjacent ones), so that no byte is counted by   *)
(* two calls of remove_segement and the counter is the number of different *)
(* bytes received.                                                         *)
(***************************************************************************)
IntervalsAreComplement ==
  /\ UNION { BytesOf(p) : p \in used_byte } = (0..(SIZE_MAX - 1)) \ r.received
  /\ \A p \in used_byte :
       /\ p[1] < p[2]
       /\ \A q \in used_byte \ {p} : BytesOf(p) \cap BytesOf(q) = {}
  /\ stored_bytes = r.stored_bytes

=============================================================================
