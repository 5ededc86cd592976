---------------------- MODULE StreamReassemblerProofs -----------------------
(***************************************************************************)
(* Proofs, for every stream, capacity and set of read lengths, of the      *)
(* safety properties of StreamReassemblerSpec.  The argument is the        *)
(* inductive invariant IndInv; push_substring is taken apart into its      *)
(* three stages, and each stage has a lemma that says which parts of the   *)
(* invariant it keeps:                                                     *)
(*   store         keeps all parts but Ahead                               *)
(*   drain         restores Ahead                                          *)
(*   end_if_empty  restores EndSound                                       *)
(***************************************************************************)
EXTENDS StreamReassemblerSpec, FiniteSetTheorems, SequenceTheorems,
        WellFoundedInduction, TLAPS

(***************************************************************************)
(* Every non-empty set of natural numbers has a least element.  (Of the    *)
(* intervals 0..m with m in T, take a minimal one.)                        *)
(***************************************************************************)
LEMMA LeastNat ==
  ASSUME NEW T, T \subseteq Nat, T # {}
  PROVE  \E m \in T : \A k \in T : m <= k
<1> DEFINE R == StrictSubsetOrdering(Nat)
           D == { 0..m : m \in T }
<1>1. IsWellFoundedOn(R, FiniteSubsetsOf(Nat))
  BY FS_StrictSubsetOrderingWellFounded
<1>2. D \subseteq FiniteSubsetsOf(Nat)
  <2> SUFFICES ASSUME NEW m \in T PROVE 0..m \in FiniteSubsetsOf(Nat)
    OBVIOUS
  <2>1. IsFiniteSet(0..m)
    BY FS_Interval
  <2> QED
    BY <2>1 DEF FiniteSubsetsOf
<1>3. D # {}
  BY Zenon
<1> HIDE DEF D, R
<1>4. PICK d \in D : \A e \in D : ~(<<e, d>> \in R)
  BY <1>1, <1>2, <1>3, WFMin
<1> USE DEF D
<1>5. PICK m \in T : d = 0..m
  OBVIOUS
<1>6. ASSUME NEW k \in T, ~(m <= k) PROVE FALSE
  <2>1. 0..k \in D
    OBVIOUS
  <2>2. 0..k \subseteq 0..m /\ 0..k # 0..m
    BY <1>6
  <2>3. 0..k \in SUBSET Nat /\ 0..m \in SUBSET Nat
    BY <1>6
  <2>4. <<0..k, 0..m>> \in R
    BY <2>2, <2>3 DEF R, StrictSubsetOrdering
  <2> QED
    BY <2>1, <2>4, <1>4, <1>5, Zenon
<1> QED
  BY <1>6

(***************************************************************************)
(* first_gap is well defined whenever the byte at to is not held: it is    *)
(* the first byte not held, and all bytes before it are.                   *)
(***************************************************************************)
LEMMA FirstGap ==
  ASSUME NEW strs, NEW from \in Nat, NEW to \in Nat, from <= to,
         ~covered(strs, to)
  PROVE  /\ first_gap(strs, from, to) \in from..to
         /\ ~covered(strs, first_gap(strs, from, to))
         /\ \A b \in from..(first_gap(strs, from, to) - 1) : covered(strs, b)
<1> DEFINE T == { a \in from..to : ~covered(strs, a) }
<1>1. T \subseteq Nat /\ T # {}
  OBVIOUS
<1>2. PICK m \in T : \A k \in T : m <= k
  BY <1>1, LeastNat, Zenon
<1>3. m \in from..to /\ ~covered(strs, m)
  BY <1>2
<1>4. ASSUME NEW b \in from..(m - 1) PROVE covered(strs, b)
  BY <1>2, <1>3
<1> QED
  BY <1>3, <1>4 DEF first_gap

(***************************************************************************)
(* byte_at returns the byte of the stream, when the substrings that hold   *)
(* it agree with the stream.                                               *)
(***************************************************************************)
LEMMA ByteAt ==
  ASSUME NEW strs, DOMAIN strs \subseteq Nat, NEW b \in Nat, covered(strs, b),
         \A k \in DOMAIN strs :
            covers(strs, k, b) => strs[k][b - k + 1] = Stream[b + 1]
  PROVE  byte_at(strs, b) = Stream[b + 1]
<1> DEFINE T == { k \in DOMAIN strs : covers(strs, k, b) }
<1>1. T \subseteq Nat /\ T # {}
  BY DEF covered
<1>2. PICK m \in T : \A k \in T : m <= k
  BY <1>1, LeastNat, Zenon
<1> QED
  BY <1>2 DEF byte_at

-----------------------------------------------------------------------------
(* The parts that hold between any two stages of push_substring. *)
Core(x) ==
  IsObject(x) /\ CountersAgree(x) /\ OutputHeld(x) /\ StrsHeld(x) /\ Accounted(x)

(* An excerpt of the stream, cut at the capacity, that brings a new byte. *)
NewExcerpt(x, tmp, index) ==
  /\ index \in Nat /\ tmp \in Seq(Nat)
  /\ index + Len(tmp) <= N /\ index + Len(tmp) <= limit(x)
  /\ index + Len(tmp) > x.assembled_bytes
  /\ \A i \in 1..Len(tmp) : tmp[i] = Stream[index + i]

LEMMA NIsNat == N \in Nat
  BY StreamAssumption DEF N

(* The number of elements a union adds. *)
LEMMA AddedElements ==
  ASSUME NEW A, NEW B, IsFiniteSet(A), IsFiniteSet(B)
  PROVE  Cardinality(A \cup B) = Cardinality(A) + Cardinality(B \ A)
<1>1. IsFiniteSet(B \ A)
  BY FS_Difference, Zenon
<1>2. A \cup B = A \cup (B \ A) /\ A \cap (B \ A) = {}
  OBVIOUS
<1>3. Cardinality(A \cup (B \ A))
        = Cardinality(A) + Cardinality(B \ A) - Cardinality(A \cap (B \ A))
  BY <1>1, FS_Union
<1>4. Cardinality({}) = 0 /\ Cardinality(A) \in Nat /\ Cardinality(B \ A) \in Nat
  BY <1>1, FS_EmptySet, FS_CardinalityType
<1>5. Cardinality(A \cap (B \ A)) = 0
  BY <1>2, <1>4
<1>6. Cardinality(A \cup B) = Cardinality(A \cup (B \ A))
  BY <1>2
<1> QED
  BY <1>3, <1>4, <1>5, <1>6

(* What the waiting substrings hold after store. *)
LEMMA StoreCovers ==
  ASSUME NEW x, Core(x), NEW tmp, NEW index, NewExcerpt(x, tmp, index)
  PROVE  \A b \in Nat :
           covered(store(x, tmp, index).strs, b)
             <=> covered(x.strs, b) \/ b \in index..(index + Len(tmp) - 1)
<1> DEFINE keep_old == index \in DOMAIN x.strs /\ Len(tmp) <= Len(x.strs[index])
           new == [i \in DOMAIN x.strs \cup {index} |->
                     IF i = index THEN tmp ELSE x.strs[i]]
           y == store(x, tmp, index).strs
<1>1. y = IF keep_old THEN x.strs ELSE new
  BY DEF store, Core, IsObject
<1>2. /\ DOMAIN x.strs \subseteq Nat /\ index \in Nat /\ Len(tmp) \in Nat
      /\ \A k \in DOMAIN x.strs : Len(x.strs[k]) \in Nat
  BY NIsNat DEF Core, IsObject, NewExcerpt
<1> SUFFICES ASSUME NEW b \in Nat
             PROVE  covered(y, b)
                      <=> covered(x.strs, b) \/ b \in index..(index + Len(tmp) - 1)
  OBVIOUS
<1>3. CASE keep_old
  BY <1>1, <1>2, <1>3 DEF covered, covers
<1>4. CASE ~keep_old
  <2> HIDE DEF y
  <2>1. /\ y = new /\ DOMAIN y = DOMAIN x.strs \cup {index}
        /\ y[index] = tmp
        /\ \A k \in DOMAIN x.strs \ {index} : y[k] = x.strs[k]
    BY <1>1, <1>4
  <2>2. index \in DOMAIN x.strs => Len(x.strs[index]) < Len(tmp)
    BY <1>2, <1>4
  <2> HIDE DEF new, keep_old
  <2>3. ASSUME covered(y, b)
        PROVE  covered(x.strs, b) \/ b \in index..(index + Len(tmp) - 1)
    BY <1>2, <2>1, <2>3 DEF covered, covers
  <2>4. ASSUME b \in index..(index + Len(tmp) - 1) PROVE covered(y, b)
    BY <1>2, <2>1, <2>4 DEF covered, covers
  <2>5. ASSUME covered(x.strs, b) PROVE covered(y, b)
    <3>1. PICK k \in DOMAIN x.strs : covers(x.strs, k, b)
      BY <2>5 DEF covered
    <3>2. CASE k = index
      BY <1>2, <2>1, <2>2, <3>1, <3>2 DEF covered, covers
    <3>3. CASE k # index
      BY <2>1, <3>1, <3>3 DEF covered, covers
    <3> QED
      BY <3>2, <3>3
  <2> QED
    BY <2>3, <2>4, <2>5
<1> QED
  BY <1>3, <1>4

(***************************************************************************)
(* store keeps the core, takes in every byte of the excerpt, and leaves    *)
(* assembled_bytes, eof and the output alone.                              *)
(***************************************************************************)
LEMMA StoreLemma ==
  ASSUME NEW x, Core(x), NEW tmp, NEW index, NewExcerpt(x, tmp, index)
  PROVE  /\ Core(store(x, tmp, index))
         /\ store(x, tmp, index).received
              = x.received \cup (index..(index + Len(tmp) - 1))
         /\ store(x, tmp, index).eof = x.eof
         /\ store(x, tmp, index).output = x.output
         /\ store(x, tmp, index).assembled_bytes = x.assembled_bytes
<1> DEFINE claimed == index..(index + Len(tmp) - 1)
           keep_old == index \in DOMAIN x.strs /\ Len(tmp) <= Len(x.strs[index])
           new == [i \in DOMAIN x.strs \cup {index} |->
                     IF i = index THEN tmp ELSE x.strs[i]]
           y == store(x, tmp, index)
<1>1. /\ y = [x EXCEPT !.stored_bytes = x.stored_bytes + Cardinality(claimed \ x.received),
                       !.received = x.received \cup claimed,
                       !.strs = IF keep_old THEN x.strs ELSE new]
  BY DEF store
<1>2. /\ y.output = x.output /\ y.capacity = x.capacity /\ y.eof = x.eof
      /\ y.assembled_bytes = x.assembled_bytes
      /\ y.stored_bytes = x.stored_bytes + Cardinality(claimed \ x.received)
      /\ y.received = x.received \cup claimed
      /\ y.strs = IF keep_old THEN x.strs ELSE new
  BY <1>1 DEF Core, IsObject
<1>3. /\ index \in 0..N /\ Len(tmp) \in Nat /\ tmp \in Seq(Nat)
      /\ claimed \subseteq 0..(N - 1)
  BY NIsNat DEF NewExcerpt, Core, IsObject
<1>4. /\ IsFiniteSet(x.received) /\ IsFiniteSet(claimed)
      /\ Cardinality(claimed \ x.received) \in Nat
  <2>1. IsFiniteSet(0..(N - 1))
    BY NIsNat, FS_Interval
  <2>2. x.received \subseteq 0..(N - 1)
    BY DEF Core, IsObject
  <2>3. IsFiniteSet(claimed) /\ IsFiniteSet(x.received)
    BY <1>3, <2>1, <2>2, FS_Subset, ZenonT(30)
  <2> QED
    BY <2>3, FS_Difference, FS_CardinalityType, Zenon
<1>5. DOMAIN y.strs \subseteq 0..N /\ y.strs \in [DOMAIN y.strs -> Seq(Nat)]
  BY <1>2, <1>3 DEF Core, IsObject
<1>6. IsObject(y)
  <2>1. y.received \in SUBSET (0..(N - 1)) /\ y.stored_bytes \in Nat
    BY <1>2, <1>3, <1>4 DEF Core, IsObject
  <2> QED
    BY <1>1, <1>2, <1>5, <2>1, Zenon DEF Core, IsObject
<1>7. CountersAgree(y) /\ OutputHeld(y) /\ limit(y) = limit(x)
  BY <1>2 DEF Core, CountersAgree, OutputHeld, limit
<1>8. StrsHeld(y)
  <2> HIDE DEF y
  <2> SUFFICES ASSUME NEW k \in DOMAIN y.strs
               PROVE  /\ k + Len(y.strs[k]) <= N
                      /\ k + Len(y.strs[k]) <= limit(x)
                      /\ \A i \in 1..Len(y.strs[k]) : y.strs[k][i] = Stream[k + i]
    BY <1>7 DEF StrsHeld
  <2>1. \/ k \in DOMAIN x.strs /\ y.strs[k] = x.strs[k]
        \/ k = index /\ y.strs[k] = tmp
    BY <1>2
  <2> QED
    BY <2>1 DEF StrsHeld, Core, NewExcerpt
<1>9. Accounted(y)
  <2> HIDE DEF y
  <2>1. y.stored_bytes = Cardinality(y.received)
    BY <1>2, <1>4, AddedElements, ZenonT(30) DEF Core, Accounted
  <2>2. y.received = { b \in 0..(N - 1) : b < y.assembled_bytes \/ covered(y.strs, b) }
    <3>1. \A b \in 0..(N - 1) : covered(y.strs, b)
            <=> covered(x.strs, b) \/ b \in claimed
      BY StoreCovers DEF y
    <3>2. x.received = { b \in 0..(N - 1) : b < x.assembled_bytes \/ covered(x.strs, b) }
      BY DEF Core, Accounted
    <3> QED
      BY <1>2, <1>3, <3>1, <3>2, Zenon
  <2> QED
    BY <2>1, <2>2 DEF Accounted
<1> QED
  BY <1>2, <1>6, <1>7, <1>8, <1>9 DEF Core

(* Where drain stops, and what it writes. *)
LEMMA DrainStops ==
  ASSUME NEW x, Core(x),
         NEW a, a = first_gap(x.strs, x.assembled_bytes, limit(x))
  PROVE  /\ a \in x.assembled_bytes..limit(x) /\ a <= N
         /\ ~covered(x.strs, a)
         /\ \A b \in x.assembled_bytes..(a - 1) :
              covered(x.strs, b) /\ byte_at(x.strs, b) = Stream[b + 1]
<1>1. /\ x.assembled_bytes \in Nat /\ limit(x) \in Nat
      /\ x.assembled_bytes <= limit(x) /\ x.assembled_bytes <= N
      /\ DOMAIN x.strs \subseteq Nat
      /\ \A k \in DOMAIN x.strs : Len(x.strs[k]) \in Nat
  BY NIsNat, CapacityAssumption
  DEF Core, IsObject, CountersAgree, limit, ByteStreamType
<1>2. ~covered(x.strs, limit(x))
  BY <1>1 DEF covered, covers, Core, StrsHeld
<1>3. /\ a \in x.assembled_bytes..limit(x)
      /\ ~covered(x.strs, a)
      /\ \A b \in x.assembled_bytes..(a - 1) : covered(x.strs, b)
  BY <1>1, <1>2, FirstGap
<1>4. a <= N
  <2>1. CASE a = x.assembled_bytes
    BY <1>1, <2>1
  <2>2. CASE a # x.assembled_bytes
    <3>1. covered(x.strs, a - 1)
      BY <1>1, <1>3, <2>2
    <3>2. PICK k \in DOMAIN x.strs : covers(x.strs, k, a - 1)
      BY <3>1 DEF covered
    <3>3. k + Len(x.strs[k]) <= N /\ Len(x.strs[k]) \in Nat /\ k \in Nat
      BY <1>1 DEF Core, StrsHeld
    <3> QED
      BY <1>1, <1>3, <3>2, <3>3, NIsNat DEF covers
  <2> QED
    BY <2>1, <2>2
<1>5. ASSUME NEW b \in x.assembled_bytes..(a - 1)
      PROVE  byte_at(x.strs, b) = Stream[b + 1]
  <2>1. b \in Nat /\ covered(x.strs, b)
    BY <1>1, <1>3
  <2>2. ASSUME NEW k \in DOMAIN x.strs, covers(x.strs, k, b)
        PROVE  x.strs[k][b - k + 1] = Stream[b + 1]
    <3>1. k \in Nat /\ Len(x.strs[k]) \in Nat /\ b - k + 1 \in 1..Len(x.strs[k])
      BY <1>1, <2>1, <2>2 DEF covers
    <3>2. x.strs[k][b - k + 1] = Stream[k + (b - k + 1)]
      BY <3>1 DEF Core, StrsHeld
    <3>3. k + (b - k + 1) = b + 1
      BY <2>1, <3>1
    <3> QED
      BY <3>2, <3>3
  <2> QED
    BY <1>1, <2>1, <2>2, ByteAt
<1> QED
  BY <1>3, <1>4, <1>5

(* A prefix of the stream from read on, continued by its next bytes. *)
LEMMA ContinuedPrefix ==
  ASSUME NEW read \in Nat, NEW buf \in Seq(Nat), NEW ready \in Seq(Nat),
         \A i \in 1..Len(buf) : buf[i] = Stream[read + i],
         \A i \in 1..Len(ready) : ready[i] = Stream[read + Len(buf) + i]
  PROVE  /\ Len(buf \o ready) = Len(buf) + Len(ready)
         /\ \A i \in 1..Len(buf \o ready) : (buf \o ready)[i] = Stream[read + i]
<1>1. /\ Len(buf \o ready) = Len(buf) + Len(ready)
      /\ \A i \in 1..(Len(buf) + Len(ready)) :
           (buf \o ready)[i] = IF i <= Len(buf) THEN buf[i] ELSE ready[i - Len(buf)]
  BY ConcatProperties
<1>2. ASSUME NEW i \in 1..(Len(buf) + Len(ready))
      PROVE  (buf \o ready)[i] = Stream[read + i]
  <2>1. CASE i <= Len(buf)
    BY <1>1, <2>1
  <2>2. CASE i > Len(buf)
    <3>1. /\ i - Len(buf) \in 1..Len(ready)
          /\ read + Len(buf) + (i - Len(buf)) = read + i
      BY <2>2
    <3>2. (buf \o ready)[i] = ready[i - Len(buf)]
      BY <1>1, <2>2
    <3>3. ready[i - Len(buf)] = Stream[read + Len(buf) + (i - Len(buf))]
      BY <3>1
    <3> QED
      BY <3>1, <3>2, <3>3
  <2> QED
    BY <2>1, <2>2
<1> QED
  BY <1>1, <1>2

(***************************************************************************)
(* drain keeps the core and restores Ahead; the output takes every byte    *)
(* that it is offered.                                                     *)
(***************************************************************************)
LEMMA DrainLemma ==
  ASSUME NEW x, Core(x)
  PROVE  /\ Core(drain(x)) /\ Ahead(drain(x))
         /\ drain(x).received = x.received /\ drain(x).eof = x.eof
         /\ drain(x).output.end = x.output.end
         /\ drain(x).assembled_bytes >= x.assembled_bytes
         /\ drain(x).output.byte_read = x.output.byte_read
<1> DEFINE a == first_gap(x.strs, x.assembled_bytes, limit(x))
           ready == [i \in 1..(a - x.assembled_bytes) |->
                       byte_at(x.strs, x.assembled_bytes + i - 1)]
           strs == [k \in {i \in DOMAIN x.strs : i > a} |-> x.strs[k]]
           y == drain(x)
<1>1. y = [x EXCEPT !.output = write(x.output, ready),
                    !.assembled_bytes = a, !.strs = strs]
  BY DEF drain
<1>2. /\ y.output = write(x.output, ready) /\ y.assembled_bytes = a
      /\ y.strs = strs /\ y.capacity = x.capacity /\ y.eof = x.eof
      /\ y.received = x.received /\ y.stored_bytes = x.stored_bytes
  BY <1>1 DEF Core, IsObject
<1>3. /\ a \in x.assembled_bytes..limit(x) /\ a <= N
      /\ ~covered(x.strs, a)
      /\ \A b \in x.assembled_bytes..(a - 1) :
           covered(x.strs, b) /\ byte_at(x.strs, b) = Stream[b + 1]
  BY DrainStops
<1>4. /\ x.assembled_bytes \in Nat /\ limit(x) \in Nat /\ N \in Nat
      /\ x.output.byte_read \in Nat /\ x.output.buffer \in Seq(Nat)
      /\ x.output.byte_written = x.assembled_bytes
      /\ x.output.byte_read <= x.assembled_bytes
      /\ limit(x) = Capacity + x.output.byte_read
      /\ x.output.capacity = Capacity /\ Capacity \in Nat
      /\ Len(x.output.buffer) = x.assembled_bytes - x.output.byte_read
      /\ x.output \in ByteStreamType(Nat)
  BY NIsNat, CapacityAssumption
  DEF Core, IsObject, CountersAgree, limit, ByteStreamType, OutputHeld, buffer_size
<1> HIDE DEF a, y
<1>5. /\ Len(ready) = a - x.assembled_bytes /\ ready \in Seq(Nat)
      /\ \A i \in 1..Len(ready) : ready[i] = Stream[x.assembled_bytes + i]
  <2> DEFINE m == x.assembled_bytes
  <2>1. a \in Nat /\ m \in Nat /\ m <= a /\ a <= N /\ a - m \in Nat /\ N \in Nat
    BY <1>3, <1>4
  <2>2. ASSUME NEW i \in 1..(a - x.assembled_bytes)
        PROVE  /\ ready[i] = Stream[x.assembled_bytes + i]
               /\ Stream[x.assembled_bytes + i] \in Nat
    <3>1. /\ x.assembled_bytes + i - 1 \in x.assembled_bytes..(a - 1)
          /\ x.assembled_bytes + i - 1 + 1 = x.assembled_bytes + i
          /\ x.assembled_bytes + i \in 1..N
      <4>1. i \in 1..(a - m)
        OBVIOUS
      <4> HIDE DEF m
      <4>2. m + i - 1 \in m..(a - 1) /\ m + i - 1 + 1 = m + i /\ m + i \in 1..N
        BY <2>1, <4>1
      <4> QED
        BY <4>2 DEF m
    <3>2. ready[i] = byte_at(x.strs, x.assembled_bytes + i - 1)
      OBVIOUS
    <3>3. ready[i] = Stream[x.assembled_bytes + i]
      BY <1>3, <3>1, <3>2
    <3> QED
      BY <3>1, <3>3, StreamAssumption DEF N
  <2>3. ready \in [1..(a - x.assembled_bytes) -> Nat]
    BY <2>2, Zenon
  <2>4. ready \in Seq(Nat) /\ Len(ready) = a - x.assembled_bytes
    <3> HIDE DEF ready
    <3>1. a - m \in Nat /\ ready \in [1..(a - m) -> Nat]
      BY <2>1, <2>3
    <3>2. ready \in Seq(Nat) /\ DOMAIN ready = 1..(a - m)
      BY <3>1
    <3> QED
      BY <3>1, <3>2
  <2> QED
    BY <2>2, <2>4, Zenon
<1> HIDE DEF ready
<1>6. /\ y.output = [x.output EXCEPT !.buffer = x.output.buffer \o ready,
                                     !.byte_written = a]
  <2>1. accepted_len(x.output, ready) = Len(ready)
    BY <1>3, <1>4, <1>5, SMTT(30) DEF accepted_len, min, remaining_capacity, buffer_size
  <2>2. SubSeq(ready, 1, Len(ready)) = ready
    BY <1>5
  <2>3. x.output.byte_written + Len(ready) = a
    BY <1>3, <1>4, <1>5
  <2> QED
    BY <1>2, <2>1, <2>2, <2>3, Zenon DEF write
<1>7. /\ y.output \in ByteStreamType(Nat)
      /\ y.output.capacity = Capacity /\ y.output.byte_written = a
      /\ y.output.byte_read = x.output.byte_read
      /\ y.output.buffer = x.output.buffer \o ready
      /\ y.output.end = x.output.end
  <2>1. x.output.buffer \o ready \in Seq(Nat) /\ a \in Nat
    BY <1>3, <1>4, <1>5
  <2> QED
    BY <1>4, <1>6, <2>1, Zenon DEF ByteStreamType
<1>8. /\ DOMAIN strs = { i \in DOMAIN x.strs : i > a }
      /\ \A k \in DOMAIN strs : strs[k] = x.strs[k]
  OBVIOUS
<1>9. IsObject(y)
  <2>1. DOMAIN y.strs \subseteq 0..N /\ y.strs \in [DOMAIN y.strs -> Seq(Nat)]
    BY <1>2, <1>8 DEF Core, IsObject
  <2>2. y.assembled_bytes \in 0..N
    BY <1>2, <1>3, <1>4
  <2> QED
    BY <1>1, <1>2, <1>7, <2>1, <2>2, Zenon DEF Core, IsObject
<1>10. CountersAgree(y) /\ limit(y) = limit(x)
  BY <1>2, <1>3, <1>4, <1>7, SMTT(30) DEF CountersAgree, limit, Core, IsObject
<1>11. OutputHeld(y)
  <2>1. /\ a \in Nat /\ x.assembled_bytes <= a
        /\ \A i \in 1..Len(x.output.buffer) :
             x.output.buffer[i] = Stream[x.output.byte_read + i]
    BY <1>3, <1>4 DEF Core, OutputHeld
  <2>2. /\ Len(x.output.buffer \o ready) = a - x.output.byte_read
        /\ \A i \in 1..Len(x.output.buffer \o ready) :
             (x.output.buffer \o ready)[i] = Stream[x.output.byte_read + i]
    <3> DEFINE buf == x.output.buffer
               read == x.output.byte_read
               mid == x.assembled_bytes
    <3>1. /\ read \in Nat /\ mid \in Nat /\ buf \in Seq(Nat) /\ ready \in Seq(Nat)
          /\ Len(buf) = mid - read /\ Len(ready) = a - mid
      BY <1>4, <1>5
    <3>2. /\ \A i \in 1..Len(buf) : buf[i] = Stream[read + i]
          /\ \A i \in 1..Len(ready) : ready[i] = Stream[mid + i]
      BY <1>5, <2>1
    <3>3. a \in Nat
      BY <2>1
    <3> HIDE DEF buf, read, mid
    <3>4. read + Len(buf) = mid /\ Len(buf) + Len(ready) = a - read
      BY <3>1, <3>3
    <3>5. \A i \in 1..Len(ready) : ready[i] = Stream[read + Len(buf) + i]
      BY <3>2, <3>4
    <3>6. /\ Len(buf \o ready) = Len(buf) + Len(ready)
          /\ \A i \in 1..Len(buf \o ready) : (buf \o ready)[i] = Stream[read + i]
      BY <3>1, <3>2, <3>5, ContinuedPrefix, ZenonT(30)
    <3> QED
      BY <3>4, <3>6 DEF buf, read
  <2> QED
    BY <1>7, <2>2 DEF OutputHeld, buffer_size
<1>12. StrsHeld(y)
  BY <1>2, <1>8, <1>10 DEF StrsHeld, Core
<1>13. Accounted(y)
  <2>1. ASSUME NEW b \in 0..(N - 1), b < x.assembled_bytes \/ covered(x.strs, b)
        PROVE  b < a \/ covered(strs, b)
    <3>1. CASE b < x.assembled_bytes
      BY <1>3, <1>4, <3>1
    <3>2. CASE covered(x.strs, b) /\ ~(b < a)
      <4>1. PICK k \in DOMAIN x.strs : covers(x.strs, k, b)
        BY <3>2 DEF covered
      <4>2. k \in Nat /\ Len(x.strs[k]) \in Nat
        BY <1>4 DEF Core, IsObject
      <4>3. k > a
        <5> DEFINE l == Len(x.strs[k])
        <5>1. ~(k <= a /\ a < k + l)
          BY <1>3 DEF covered, covers
        <5>2. k <= b /\ b < k + l
          BY <4>1 DEF covers
        <5>3. a \in Nat /\ b \in Nat /\ k \in Nat /\ l \in Nat /\ a <= b
          <6>1. a \in Nat /\ b \in Nat
            BY <1>3, <1>4, SMTT(30)
          <6> QED
            BY <3>2, <4>2, <6>1
        <5> HIDE DEF l
        <5> QED
          BY <5>1, <5>2, <5>3
      <4> QED
        BY <1>8, <4>1, <4>3 DEF covered, covers
    <3> QED
      BY <2>1, <3>1, <3>2
  <2>2. ASSUME NEW b \in 0..(N - 1), b < a \/ covered(strs, b)
        PROVE  b < x.assembled_bytes \/ covered(x.strs, b)
    <3>1. CASE b < a
      BY <1>3, <1>4, <3>1, SMTT(30)
    <3>2. CASE covered(strs, b)
      BY <1>8, <3>2 DEF covered, covers
    <3> QED
      BY <2>2, <3>1, <3>2
  <2>3. x.received = { b \in 0..(N - 1) : b < x.assembled_bytes \/ covered(x.strs, b) }
    BY DEF Core, Accounted
  <2>4. x.received = { b \in 0..(N - 1) : b < a \/ covered(strs, b) }
    BY <2>1, <2>2, <2>3
  <2> QED
    BY <1>2, <2>4 DEF Accounted, Core
<1>14. Ahead(y)
  BY <1>2, <1>8 DEF Ahead
<1> QED
  BY <1>2, <1>3, <1>4, <1>7, <1>9, <1>10, <1>11, <1>12, <1>13, <1>14 DEF Core, y

(* The invariant of the object between two calls. *)
Good(x) == Core(x) /\ Ahead(x) /\ EofSound(x) /\ EndSound(x)

(***************************************************************************)
(* What a call may do to the object x, given an excerpt of the bytes seen: *)
(* it goes on from where it was, and receives nothing else.                *)
(***************************************************************************)
Advances(x, y, seen, is_eof) ==
  /\ y.assembled_bytes >= x.assembled_bytes
  /\ y.output.byte_read = x.output.byte_read
  /\ y.received \subseteq x.received \cup seen
  /\ y.eof => x.eof \/ is_eof

(* The bytes written are among the bytes received. *)
LEMMA WrittenReceived ==
  ASSUME NEW x, Core(x)
  PROVE  /\ x.assembled_bytes \in 0..N
         /\ 0..(x.assembled_bytes - 1) \subseteq x.received
         /\ x.received \subseteq 0..(N - 1)
         /\ IsFiniteSet(x.received)
         /\ Cardinality(0..(x.assembled_bytes - 1)) = x.assembled_bytes
<1>1. x.assembled_bytes \in 0..N /\ x.received \subseteq 0..(N - 1)
  BY DEF Core, IsObject
<1>2. 0..(x.assembled_bytes - 1) \subseteq x.received
  BY <1>1, NIsNat DEF Core, Accounted
<1>3. IsFiniteSet(0..(N - 1))
  BY NIsNat, FS_Interval
<1>4. IsFiniteSet(x.received)
  BY <1>1, <1>3, FS_Subset, Zenon
<1>5. x.assembled_bytes \in Nat /\ x.assembled_bytes - 1 \in Int
  BY <1>1, NIsNat
<1>6. Cardinality(0..(x.assembled_bytes - 1)) = x.assembled_bytes
  <2> DEFINE m == x.assembled_bytes
  <2>1. m \in Nat
    BY <1>5
  <2> HIDE DEF m
  <2>2. 0 \in Int /\ m - 1 \in Int
    BY <2>1
  <2>3. Cardinality(0..(m - 1)) = IF 0 > m - 1 THEN 0 ELSE (m - 1) - 0 + 1
    BY <2>2, FS_Interval
  <2>4. Cardinality(0..(m - 1)) = m
    BY <2>1, <2>3
  <2> QED
    BY <2>4 DEF m
<1> QED
  BY <1>1, <1>2, <1>4, <1>6

(***************************************************************************)
(* end_if_empty makes the end of the output mean what it should: if every  *)
(* byte counted is assembled, the bytes received are exactly the bytes     *)
(* before assembled_bytes, so the last byte of the stream is among them.   *)
(***************************************************************************)
LEMMA EndLemma ==
  ASSUME NEW x, Core(x), Ahead(x), EofSound(x),
         ~EofAhead /\ x.output.end => x.assembled_bytes = N
  PROVE  Good(end_if_empty(x)) /\ Advances(x, end_if_empty(x), {}, FALSE)
<1> DEFINE y == end_if_empty(x)
<1>1. /\ x.output \in ByteStreamType(Nat) /\ x.assembled_bytes \in Nat /\ N \in Nat
      /\ x.stored_bytes = Cardinality(x.received) /\ x.eof \in BOOLEAN
  BY NIsNat DEF Core, IsObject, Accounted
<1>2. CASE empty(x)
  <2>1. y = [x EXCEPT !.output = [x.output EXCEPT !.end = TRUE]]
    BY <1>2 DEF end_if_empty, end_input
  <2>2. /\ y.output = [x.output EXCEPT !.end = TRUE] /\ y.capacity = x.capacity
        /\ y.assembled_bytes = x.assembled_bytes /\ y.stored_bytes = x.stored_bytes
        /\ y.received = x.received /\ y.strs = x.strs /\ y.eof = x.eof
    BY <2>1 DEF Core, IsObject
  <2>3. /\ y.output \in ByteStreamType(Nat) /\ y.output.end = TRUE
        /\ y.output.capacity = x.output.capacity /\ y.output.buffer = x.output.buffer
        /\ y.output.byte_written = x.output.byte_written
        /\ y.output.byte_read = x.output.byte_read
    BY <1>1, <2>2, Zenon DEF ByteStreamType
  <2>4. IsObject(y)
    BY <2>1, <2>2, <2>3, Zenon DEF Core, IsObject
  <2> HIDE DEF y
  <2>5. CountersAgree(y) /\ OutputHeld(y) /\ StrsHeld(y) /\ Accounted(y) /\ Ahead(y)
    BY <2>2, <2>3
    DEF Core, CountersAgree, OutputHeld, StrsHeld, Accounted, Ahead, limit, buffer_size
  <2>6. EofSound(y)
    BY <2>2 DEF EofSound
  <2>7. ASSUME ~EofAhead PROVE x.assembled_bytes = N
    <3>1. x.stored_bytes = x.assembled_bytes /\ x.eof
      BY <1>2 DEF empty
    <3>2. x.received = 0..(x.assembled_bytes - 1)
      BY <1>1, <3>1, WrittenReceived, FS_Subset, Zenon
    <3>3. N = 0 \/ N - 1 \in x.received
      BY <2>7, <3>1 DEF EofSound
    <3>4. x.assembled_bytes <= N
      BY <1>1, WrittenReceived
    <3> QED
      BY <1>1, <3>2, <3>3, <3>4
  <2>8. EndSound(y)
    BY <2>2, <2>3, <2>7 DEF EndSound
  <2>9. Advances(x, y, {}, FALSE)
    BY <1>1, <2>2, <2>3 DEF Advances
  <2> QED
    BY <2>4, <2>5, <2>6, <2>8, <2>9 DEF Good, Core, y
<1>3. CASE ~empty(x)
  <2>1. y = x
    BY <1>3 DEF end_if_empty
  <2>2. ASSUME x.eof, x.assembled_bytes = N PROVE FALSE
    <3>1. x.received = 0..(x.assembled_bytes - 1)
      BY <2>2, WrittenReceived, Zenon
    <3>2. x.stored_bytes = x.assembled_bytes
      BY <1>1, <3>1, WrittenReceived
    <3> QED
      BY <1>3, <2>2, <3>2 DEF empty
  <2>3. Advances(x, y, {}, FALSE)
    BY <1>1, <2>1 DEF Advances
  <2> QED
    BY <1>3, <2>1, <2>2, <2>3 DEF Good, EndSound
<1> QED
  BY <1>2, <1>3

(* An excerpt of the stream, as the excerpt Push passes. *)
LEMMA ExcerptLemma ==
  ASSUME NEW index \in 0..N, NEW len \in 0..N, index + len <= N, NEW cut \in 0..len
  PROVE  LET data == SubSeq(Stream, index + 1, index + len)
             tmp == SubSeq(data, 1, cut)
         IN  /\ Len(data) = len /\ tmp \in Seq(Nat) /\ Len(tmp) = cut
             /\ \A i \in 1..Len(tmp) : tmp[i] = Stream[index + i]
<1> DEFINE data == SubSeq(Stream, index + 1, index + len)
           tmp == SubSeq(data, 1, cut)
<1>1. N \in Nat /\ \A i \in 1..N : Stream[i] \in Nat
  BY StreamAssumption DEF N
<1>2. \A i \in (index + 1)..(index + len) : Stream[i] \in Nat
  BY <1>1
<1>3. index + 1 \in Int /\ index + len \in Int
  BY <1>1
<1>4. /\ Len(data) = IF index + 1 <= index + len THEN (index + len) - (index + 1) + 1 ELSE 0
      /\ \A i \in 1..((index + len) - (index + 1) + 1) : data[i] = Stream[(index + 1) + i - 1]
  BY <1>2, <1>3, SubSeqProperties
<1> HIDE DEF data
<1>5. Len(data) = len /\ \A i \in 1..len : data[i] = Stream[index + i]
  BY <1>1, <1>4
<1>6. ASSUME NEW i \in 1..cut PROVE data[i] \in Nat
  <2>1. i \in 1..len /\ index + i \in 1..N
    BY <1>1
  <2> QED
    BY <1>1, <1>5, <2>1
<1>7. 1 \in Int /\ cut \in Int
  BY <1>1
<1>8. /\ tmp \in Seq(Nat)
      /\ Len(tmp) = IF 1 <= cut THEN cut - 1 + 1 ELSE 0
      /\ \A i \in 1..(cut - 1 + 1) : tmp[i] = data[1 + i - 1]
  BY <1>6, <1>7, SubSeqProperties
<1> HIDE DEF tmp
<1>9. Len(tmp) = cut /\ \A i \in 1..cut : tmp[i] = Stream[index + i]
  BY <1>1, <1>5, <1>8
<1> QED
  BY <1>5, <1>8, <1>9 DEF data, tmp

(* Two steps of a call. *)
LEMMA AdvancesOn ==
  ASSUME NEW x, NEW y, NEW z, NEW seen, NEW is_eof \in BOOLEAN,
         x.assembled_bytes \in Nat, y.assembled_bytes \in Nat, z.assembled_bytes \in Nat,
         Advances(x, y, seen, is_eof), Advances(y, z, {}, FALSE)
  PROVE  Advances(x, z, seen, is_eof)
  BY DEF Advances

(* push_substring preserves the invariant. *)
LEMMA PushLemma ==
  ASSUME NEW x, Good(x),
         NEW index \in 0..N, NEW len \in 0..N, NEW is_eof \in BOOLEAN,
         index + len <= N, is_eof => index + len = N,
         is_eof /\ len = 0 /\ ~EofAhead => x.assembled_bytes = N
  PROVE  LET y == push_substring(x, SubSeq(Stream, index + 1, index + len), index, is_eof)
         IN  Good(y) /\ Advances(x, y, index..(index + len - 1), is_eof)
<1> DEFINE seen == index..(index + len - 1)
           data == SubSeq(Stream, index + 1, index + len)
           cut == min(Len(data), limit(x) - index)
           tmp == SubSeq(data, 1, cut)
           fits == index + Len(data) <= limit(x)
           r1 == [x EXCEPT !.eof = x.eof \/ (fits /\ is_eof)]
           y == store(r1, tmp, index)
<1>1. push_substring(x, data, index, is_eof) =
        IF index >= limit(x) THEN x
        ELSE IF index + Len(tmp) <= x.assembled_bytes THEN end_if_empty(r1)
        ELSE end_if_empty(drain(y))
  <2>1. r1.assembled_bytes = x.assembled_bytes
    BY DEF Good, Core, IsObject
  <2> QED
    BY <2>1 DEF push_substring
<1>0. x.assembled_bytes \in Nat
  BY NIsNat DEF Good, Core, IsObject
<1>2. CASE index >= limit(x)
  <2>1. Advances(x, x, seen, is_eof)
    BY <1>0 DEF Advances
  <2> QED
    BY <1>1, <1>2, <2>1
<1>3. CASE ~(index >= limit(x))
  <2>1. /\ limit(x) \in Nat /\ N \in Nat /\ x.assembled_bytes \in Nat
        /\ x.assembled_bytes <= N
    BY NIsNat, CapacityAssumption
    DEF Good, Core, IsObject, ByteStreamType, limit
  <2>2. Len(data) = len
    <3>1. 0 \in 0..len
      BY <2>1
    <3> QED
      BY <3>1, ExcerptLemma
  <2>3. cut \in 0..len /\ index + cut <= limit(x) /\ (fits => cut = len)
    BY <1>3, <2>1, <2>2 DEF min
  <2>4. /\ tmp \in Seq(Nat) /\ Len(tmp) = cut
        /\ \A i \in 1..Len(tmp) : tmp[i] = Stream[index + i]
    BY <2>3, ExcerptLemma, SMTT(30)
  <2>5. /\ r1.output = x.output /\ r1.capacity = x.capacity
        /\ r1.assembled_bytes = x.assembled_bytes /\ r1.stored_bytes = x.stored_bytes
        /\ r1.received = x.received /\ r1.strs = x.strs
        /\ r1.eof = (x.eof \/ (fits /\ is_eof))
    BY DEF Good, Core, IsObject
  <2>6. Core(r1) /\ Ahead(r1) /\ limit(r1) = limit(x)
    <3>1. IsObject(r1)
      BY <2>5, SMTT(30) DEF Good, Core, IsObject
    <3> HIDE DEF r1
    <3>2. CountersAgree(r1) /\ OutputHeld(r1) /\ StrsHeld(r1) /\ Accounted(r1)
          /\ Ahead(r1) /\ limit(r1) = limit(x)
      BY <2>5 DEF Good, Core, CountersAgree, OutputHeld, StrsHeld, Accounted,
                  Ahead, limit
    <3> QED
      BY <3>1, <3>2 DEF Core
  <2>7. fits /\ is_eof => index + cut = N
    BY <2>3
  <2> HIDE DEF r1, fits, cut, tmp, data
  <2>8. CASE index + Len(tmp) <= x.assembled_bytes
    <3>1. EofSound(r1)
      <4> SUFFICES ASSUME ~EofAhead, r1.eof, N # 0 PROVE N - 1 \in x.received
        BY <2>5 DEF EofSound
      <4>1. CASE x.eof
        BY <4>1 DEF Good, EofSound
      <4>2. CASE fits /\ is_eof
        <5>1. N <= x.assembled_bytes
          BY <2>4, <2>7, <2>8, <4>2
        <5>2. N - 1 \in 0..(x.assembled_bytes - 1)
          BY <2>1, <5>1
        <5> QED
          BY <5>2, WrittenReceived DEF Good
      <4> QED
        BY <2>5, <4>1, <4>2, ZenonT(30)
    <3>2. ~EofAhead /\ r1.output.end => r1.assembled_bytes = N
      BY <2>5 DEF Good, EndSound
    <3>3. Good(end_if_empty(r1)) /\ Advances(r1, end_if_empty(r1), {}, FALSE)
      BY <2>6, <3>1, <3>2, EndLemma
    <3>4. Advances(x, end_if_empty(r1), seen, is_eof)
      <4>1. end_if_empty(r1).assembled_bytes \in Nat
        BY <3>3, NIsNat DEF Good, Core, IsObject
      <4>2. Advances(x, r1, seen, is_eof) /\ r1.assembled_bytes \in Nat
        BY <1>0, <2>5 DEF Advances
      <4> QED
        BY <1>0, <3>3, <4>1, <4>2, SMTT(30) DEF Advances
    <3> QED
      BY <1>1, <1>3, <2>8, <3>3, <3>4 DEF data
  <2>9. CASE ~(index + Len(tmp) <= x.assembled_bytes)
    <3>1. NewExcerpt(r1, tmp, index)
      BY <2>1, <2>3, <2>4, <2>5, <2>6, <2>9, SMTT(30) DEF NewExcerpt
    <3>2. /\ Core(y) /\ y.eof = r1.eof /\ y.output = r1.output
          /\ y.received = r1.received \cup (index..(index + Len(tmp) - 1))
          /\ y.assembled_bytes = r1.assembled_bytes
      BY <2>6, <3>1, StoreLemma
    <3> HIDE DEF y
    <3>3. /\ Core(drain(y)) /\ Ahead(drain(y)) /\ drain(y).received = y.received
          /\ drain(y).eof = y.eof /\ drain(y).output.end = y.output.end
          /\ drain(y).assembled_bytes >= y.assembled_bytes
          /\ drain(y).output.byte_read = y.output.byte_read
      BY <3>2, DrainLemma
    <3>4. EofSound(drain(y))
      <4> SUFFICES ASSUME ~EofAhead, r1.eof, N # 0
                   PROVE  N - 1 \in x.received \cup (index..(index + Len(tmp) - 1))
        BY <2>5, <3>2, <3>3 DEF EofSound
      <4>1. CASE x.eof
        BY <4>1 DEF Good, EofSound
      <4>2. CASE fits /\ is_eof
        <5>1. index + Len(tmp) = N
          BY <2>4, <2>7, <4>2
        <5>2. len # 0
          BY <2>9, <4>2, <5>1, <2>1
        <5>3. Len(tmp) > 0
          BY <2>1, <4>2, <5>1, <5>2
        <5> QED
          BY <2>1, <2>3, <2>4, <5>1, <5>3, SMTT(30)
      <4> QED
        BY <2>5, <4>1, <4>2, Zenon
    <3>5. x.assembled_bytes # N
      BY <2>1, <2>3, <2>4, <2>9, SMTT(30)
    <3>6. ~EofAhead => ~drain(y).output.end
      BY <2>5, <3>2, <3>3, <3>5, SMTT(30) DEF Good, EndSound
    <3>7. /\ Good(end_if_empty(drain(y)))
          /\ Advances(drain(y), end_if_empty(drain(y)), {}, FALSE)
      BY <3>3, <3>4, <3>6, EndLemma
    <3>8. Advances(x, end_if_empty(drain(y)), seen, is_eof)
      <4>1. /\ end_if_empty(drain(y)).assembled_bytes \in Nat
            /\ drain(y).assembled_bytes \in Nat
        BY <3>3, <3>7, NIsNat DEF Good, Core, IsObject
      <4>2. index..(index + Len(tmp) - 1) \subseteq seen
        BY <2>1, <2>3, <2>4
      <4>3. Advances(x, drain(y), seen, is_eof)
        BY <2>5, <3>2, <3>3, <4>2 DEF Advances
      <4> QED
        BY <1>0, <3>7, <4>1, <4>3, AdvancesOn
    <3> QED
      BY <1>1, <1>3, <2>9, <3>7, <3>8 DEF data, y
  <2> QED
    BY <2>8, <2>9
<1> QED
  BY <1>2, <1>3

(* Reading the output preserves the invariant. *)
LEMMA ReadLemma ==
  ASSUME NEW x, Good(x), NEW len \in Nat
  PROVE  Good([x EXCEPT !.output = pop_output(x.output, len)])
<1> DEFINE d == min(len, buffer_size(x.output))
           buf == x.output.buffer
           read == x.output.byte_read
           out == [x.output EXCEPT !.buffer = SubSeq(buf, d + 1, Len(buf)),
                                   !.byte_read = read + d]
           y == [x EXCEPT !.output = out]
<1>1. [x EXCEPT !.output = pop_output(x.output, len)] = y
  BY DEF pop_output
<1>2. /\ y.output = out /\ y.capacity = x.capacity
      /\ y.assembled_bytes = x.assembled_bytes /\ y.stored_bytes = x.stored_bytes
      /\ y.received = x.received /\ y.strs = x.strs /\ y.eof = x.eof
  BY DEF Good, Core, IsObject
<1>3. /\ x.output \in ByteStreamType(Nat) /\ buf \in Seq(Nat) /\ read \in Nat
      /\ x.assembled_bytes \in Nat /\ read <= x.assembled_bytes
      /\ x.output.byte_written = x.assembled_bytes
      /\ Len(buf) = x.assembled_bytes - read
      /\ \A i \in 1..Len(buf) : buf[i] = Stream[read + i]
      /\ N \in Nat
  BY NIsNat DEF Good, Core, IsObject, CountersAgree, OutputHeld, buffer_size,
                ByteStreamType
<1>4. d \in 0..Len(buf)
  BY <1>3 DEF min, buffer_size
<1>5. /\ out.capacity = x.output.capacity /\ out.byte_written = x.assembled_bytes
      /\ out.byte_read = read + d /\ out.buffer = SubSeq(buf, d + 1, Len(buf))
      /\ out.end = x.output.end
  BY <1>3, Zenon DEF ByteStreamType
<1> HIDE DEF d
<1>6. /\ SubSeq(buf, d + 1, Len(buf)) \in Seq(Nat)
      /\ Len(SubSeq(buf, d + 1, Len(buf))) = Len(buf) - d
      /\ \A i \in 1..(Len(buf) - d) : SubSeq(buf, d + 1, Len(buf))[i] = Stream[(read + d) + i]
  <2> HIDE DEF buf, read
  <2>1. \A i \in (d + 1)..Len(buf) : buf[i] \in Nat
    BY <1>3, <1>4, SMTT(30)
  <2>2. d \in Nat /\ Len(buf) \in Nat /\ d + 1 \in Int /\ Len(buf) \in Int /\ d <= Len(buf)
    BY <1>3, <1>4
  <2>3. /\ SubSeq(buf, d + 1, Len(buf)) \in Seq(Nat)
        /\ Len(SubSeq(buf, d + 1, Len(buf)))
             = IF d + 1 <= Len(buf) THEN Len(buf) - (d + 1) + 1 ELSE 0
        /\ \A i \in 1..(Len(buf) - (d + 1) + 1) :
             SubSeq(buf, d + 1, Len(buf))[i] = buf[(d + 1) + i - 1]
    BY <2>1, <2>2, SubSeqProperties
  <2>4. ASSUME NEW i \in 1..(Len(buf) - d)
        PROVE  SubSeq(buf, d + 1, Len(buf))[i] = Stream[(read + d) + i]
    <3>1. /\ i \in 1..(Len(buf) - (d + 1) + 1) /\ (d + 1) + i - 1 = d + i
          /\ d + i \in 1..Len(buf) /\ read + (d + i) = (read + d) + i
      BY <1>3, <2>2, SMTT(30)
    <3> QED
      BY <1>3, <2>3, <3>1, Zenon
  <2>5. Len(SubSeq(buf, d + 1, Len(buf))) = Len(buf) - d
    BY <2>2, <2>3
  <2> QED
    BY <2>3, <2>4, <2>5
<1>7. out \in ByteStreamType(Nat)
  <2>1. read + d \in Nat
    BY <1>3, <1>4
  <2> QED
    BY <1>3, <1>6, <2>1, Zenon DEF ByteStreamType
<1>8. IsObject(y)
  BY <1>2, <1>7 DEF Good, Core, IsObject
<1> HIDE DEF y, out
<1>9. limit(x) \in Nat /\ limit(y) = limit(x) + d /\ read + d <= x.assembled_bytes
  <2>1. x.capacity = Capacity /\ Capacity \in Nat
    BY CapacityAssumption DEF Good, Core, IsObject
  <2>2. limit(x) = Capacity + read /\ limit(y) = Capacity + (read + d)
    BY <1>2, <1>5, <2>1 DEF limit
  <2>3. /\ d \in Nat /\ d <= Len(buf) /\ Len(buf) = x.assembled_bytes - read
        /\ read \in Nat /\ x.assembled_bytes \in Nat
    BY <1>3, <1>4, SMTT(30)
  <2> HIDE DEF read
  <2> QED
    BY <2>1, <2>2, <2>3
<1>10. CountersAgree(y)
  BY <1>2, <1>3, <1>4, <1>5, <1>9, SMTT(30) DEF CountersAgree, Good, Core
<1>11. OutputHeld(y)
  <2>1. Len(buf) - d = x.assembled_bytes - (read + d)
    BY <1>3, <1>4, SMTT(30)
  <2>2. Len(y.output.buffer) = Len(buf) - d /\ buffer_size(y.output) = Len(buf) - d
    BY <1>2, <1>5, <1>6, <2>1 DEF buffer_size
  <2> QED
    BY <1>2, <1>5, <1>6, <2>2, SMTT(30) DEF OutputHeld
<1>12. StrsHeld(y)
  <2> SUFFICES ASSUME NEW k \in DOMAIN x.strs
               PROVE  k + Len(x.strs[k]) <= limit(x) + d
    BY <1>2, <1>9 DEF StrsHeld, Good, Core
  <2>1. k \in Nat /\ Len(x.strs[k]) \in Nat /\ k + Len(x.strs[k]) <= limit(x)
    BY <1>3 DEF StrsHeld, Good, Core, IsObject
  <2> QED
    BY <1>3, <1>4, <1>9, <2>1, SMTT(30)
<1>13. Accounted(y) /\ Ahead(y) /\ EofSound(y)
  BY <1>2 DEF Accounted, Ahead, EofSound, Good, Core
<1>14. EndSound(y)
  BY <1>2, <1>5 DEF EndSound, Good, empty
<1> QED
  BY <1>1, <1>8, <1>10, <1>11, <1>12, <1>13, <1>14, SMTT(30) DEF Good, Core

-----------------------------------------------------------------------------
(* A new object is good. *)
LEMMA NewIsGood == Good(NewStreamReassembler(Capacity))
<1> DEFINE x == NewStreamReassembler(Capacity)
<1>1. /\ x.output = [capacity |-> Capacity, buffer |-> << >>, byte_written |-> 0,
                     byte_read |-> 0, end |-> FALSE, error |-> FALSE]
      /\ x.capacity = Capacity /\ x.assembled_bytes = 0 /\ x.stored_bytes = 0
      /\ x.received = {} /\ x.strs = [i \in {} |-> << >>] /\ x.eof = FALSE
  BY DEF NewStreamReassembler, NewByteStream
<1>2. DOMAIN x.strs = {}
  BY <1>1
<1>3. IsObject(x)
  <2>1. x.output \in ByteStreamType(Nat)
    BY <1>1, CapacityAssumption DEF ByteStreamType
  <2>2. x.strs \in [DOMAIN x.strs -> Seq(Nat)]
    BY <1>1, <1>2
  <2> QED
    BY <1>1, <1>2, <2>1, <2>2, NIsNat
    DEF IsObject, NewStreamReassembler
<1>4. CountersAgree(x) /\ OutputHeld(x)
  BY <1>1, CapacityAssumption DEF CountersAgree, OutputHeld, limit, buffer_size
<1>5. StrsHeld(x) /\ Ahead(x)
  BY <1>2 DEF StrsHeld, Ahead
<1>6. Accounted(x)
  BY <1>1, <1>2, FS_EmptySet, NIsNat DEF Accounted, covered
<1>7. EofSound(x) /\ EndSound(x)
  BY <1>1 DEF EofSound, EndSound, empty
<1> QED
  BY <1>3, <1>4, <1>5, <1>6, <1>7 DEF Good, Core

(* The inductive invariant holds of every behaviour. *)
THEOREM Invariance == Spec => []IndInv
<1>1. IndInv <=> Good(r)
  BY DEF IndInv, Good, Core, TypeOK
<1>2. Init => Good(r)
  BY NewIsGood DEF Init
<1>3. Good(r) /\ [Next]_vars => Good(r)'
  <2> SUFFICES ASSUME Good(r), [Next]_vars PROVE Good(r')
    BY SMTT(30) DEF Good, Core, IsObject, CountersAgree, OutputHeld, StrsHeld, Accounted,
           Ahead, EofSound, EndSound, limit, covered, covers, buffer_size, empty
  <2>1. ASSUME NEW index \in 0..N, NEW len \in 0..N, NEW is_eof \in BOOLEAN,
               Push(index, len, is_eof)
        PROVE  Good(r')
    BY <2>1, PushLemma DEF Push
  <2>2. ASSUME NEW len \in ReadLens, Read(len) PROVE Good(r')
    BY <2>2, ReadLemma, ReadLensAssumption DEF Read
  <2>3. CASE UNCHANGED vars
    BY <2>3 DEF vars
  <2> QED
    BY <2>1, <2>2, <2>3, SMTT(30) DEF Next
<1> QED
  BY <1>1, <1>2, <1>3, PTL DEF Spec

(* The object is always well formed. *)
THEOREM TypeCorrect == Spec => []TypeOK
<1>1. IndInv => TypeOK
  BY DEF IndInv
<1> QED
  BY <1>1, Invariance, PTL

(***************************************************************************)
(* Whatever excerpts push_substring is given, in whatever order, the bytes *)
(* in the output are the bytes of the stream between the read and the      *)
(* written position.                                                       *)
(***************************************************************************)
THEOREM OutputIsAlwaysPrefix == Spec => []OutputIsPrefix
<1>1. IndInv => OutputIsPrefix
  <2> SUFFICES ASSUME IndInv PROVE OutputIsPrefix
    OBVIOUS
  <2> DEFINE buf == r.output.buffer
             read == r.output.byte_read
             written == r.output.byte_written
  <2>1. /\ buf \in Seq(Nat) /\ read \in Nat /\ written \in Nat /\ read <= written
        /\ Len(buf) = written - read /\ written <= N /\ N \in Nat
        /\ \A i \in 1..Len(buf) : buf[i] = Stream[read + i]
    BY NIsNat DEF IndInv, TypeOK, IsObject, ByteStreamType, CountersAgree, OutputHeld,
                  buffer_size
  <2> HIDE DEF buf, read, written
  <2>2. \A i \in (read + 1)..written : Stream[i] \in Nat
    BY <2>1, StreamAssumption DEF N
  <2>3. read + 1 \in Int /\ written \in Int
    BY <2>1
  <2>4. /\ SubSeq(Stream, read + 1, written) \in Seq(Nat)
        /\ Len(SubSeq(Stream, read + 1, written))
             = IF read + 1 <= written THEN written - (read + 1) + 1 ELSE 0
        /\ \A i \in 1..(written - (read + 1) + 1) :
             SubSeq(Stream, read + 1, written)[i] = Stream[(read + 1) + i - 1]
    BY <2>2, <2>3, SubSeqProperties
  <2>5. Len(SubSeq(Stream, read + 1, written)) = Len(buf)
    BY <2>1, <2>4
  <2>6. ASSUME NEW i \in 1..Len(buf)
        PROVE  buf[i] = SubSeq(Stream, read + 1, written)[i]
    <3>1. i \in 1..(written - (read + 1) + 1) /\ (read + 1) + i - 1 = read + i
      BY <2>1
    <3> QED
      BY <2>1, <2>4, <3>1
  <2>7. buf = SubSeq(Stream, read + 1, written)
    BY <2>1, <2>4, <2>5, <2>6, SeqEqual, SMTT(30)
  <2> QED
    BY <2>7 DEF buf, read, written, OutputIsPrefix
<1> QED
  BY <1>1, Invariance, PTL

(***************************************************************************)
(* push_substring may ignore the return value of write: the output accepts *)
(* all it is offered.                                                      *)
(***************************************************************************)
THEOREM NothingIsDropped == Spec => []NothingDropped
<1>1. IndInv => NothingDropped
  BY DEF IndInv, CountersAgree, NothingDropped
<1> QED
  BY <1>1, Invariance, PTL

(* unassembled_bytes() counts each waiting byte exactly once. *)
THEOREM EachCountedOnce == Spec => []CountedOnce
<1>1. IndInv => CountedOnce
  <2> SUFFICES ASSUME IndInv PROVE CountedOnce
    OBVIOUS
  <2> DEFINE held == { b \in 0..(N - 1) : covered(r.strs, b) }
             done == 0..(r.assembled_bytes - 1)
  <2>1. Core(r)
    BY DEF IndInv, Core, TypeOK
  <2>2. /\ r.received = { b \in 0..(N - 1) : b < r.assembled_bytes \/ covered(r.strs, b) }
        /\ r.stored_bytes = Cardinality(r.received)
    BY <2>1 DEF Core, Accounted
  <2>3. r.assembled_bytes \in 0..N /\ N \in Nat
    BY <2>1, WrittenReceived, NIsNat
  <2>4. held \subseteq r.received
    BY <2>2
  <2>5. \A b \in held : ~(b < r.assembled_bytes)
    <3> SUFFICES ASSUME NEW b \in held PROVE ~(b < r.assembled_bytes)
      OBVIOUS
    <3>1. PICK k \in DOMAIN r.strs : covers(r.strs, k, b)
      BY DEF covered
    <3>2. k \in Nat /\ k > r.assembled_bytes
      BY <2>3 DEF IndInv, Ahead, TypeOK, IsObject
    <3> QED
      BY <2>3, <3>1, <3>2 DEF covers
  <2>6. r.received \ done = held
    <3>1. \A b \in 0..(N - 1) : b \in done <=> b < r.assembled_bytes
      BY <2>3
    <3> QED
      BY <2>2, <2>5, <3>1
  <2>7. done \cup r.received = r.received /\ IsFiniteSet(r.received) /\ IsFiniteSet(done)
        /\ Cardinality(done) = r.assembled_bytes
    BY <2>1, WrittenReceived, FS_Subset
  <2> HIDE DEF held, done
  <2>8. Cardinality(r.received) = r.assembled_bytes + Cardinality(held)
    BY <2>6, <2>7, AddedElements
  <2>9. IsFiniteSet(held)
    BY <2>4, <2>7, FS_Subset
  <2>10. Cardinality(held) \in Nat
    BY <2>9, FS_CardinalityType
  <2>11. unassembled_bytes(r) = Cardinality(held)
    BY <2>2, <2>3, <2>8, <2>10, SMTT(30) DEF unassembled_bytes
  <2> QED
    BY <2>11 DEF CountedOnce, held
<1> QED
  BY <1>1, Invariance, PTL

(* Nothing waits that could be written, and nothing beyond the capacity. *)
THEOREM WaitsAhead == Spec => []WaitingAhead
<1>1. IndInv => WaitingAhead
  BY DEF IndInv, Ahead, StrsHeld, WaitingAhead
<1> QED
  BY <1>1, Invariance, PTL

(***************************************************************************)
(* If no empty excerpt announces the end ahead of a hole, the output ends  *)
(* only when it is complete.  (Without that hypothesis it does not: run    *)
(* reassembler_eof.)                                                       *)
(***************************************************************************)
THEOREM EndIsComplete ==
  ASSUME ~EofAhead
  PROVE  Spec => []EndsOnlyWhenComplete
<1>1. IndInv => EndsOnlyWhenComplete
  BY DEF IndInv, EndSound, EndsOnlyWhenComplete
<1> QED
  BY <1>1, Invariance, PTL

(***************************************************************************)
(* Under the same hypothesis nothing is written to an ended output: all of *)
(* the stream is in it, and no step takes the output past the stream.      *)
(***************************************************************************)
THEOREM EndStays ==
  ASSUME ~EofAhead
  PROVE  Spec => EndIsFinal
<1>1. ASSUME IndInv, IndInv', [Next]_vars
      PROVE  [r.output.end => r'.output.byte_written = r.output.byte_written]_vars
  <2> SUFFICES ASSUME r.output.end PROVE r'.output.byte_written = r.output.byte_written
    OBVIOUS
  <2>1. Good(r) /\ Good(r')
    BY <1>1 DEF IndInv, Good, Core, TypeOK
  <2>2. /\ r.output.byte_written = N /\ r.assembled_bytes = N
        /\ r'.output.byte_written = r'.assembled_bytes /\ r'.assembled_bytes \in 0..N
    BY <2>1 DEF Good, Core, EndSound, CountersAgree, IsObject
  <2>3. r'.assembled_bytes >= r.assembled_bytes
    <3>1. ASSUME NEW index \in 0..N, NEW len \in 0..N, NEW is_eof \in BOOLEAN,
                 Push(index, len, is_eof)
          PROVE  Advances(r, r', index..(index + len - 1), is_eof)
      BY <2>1, <3>1, PushLemma DEF Push
    <3>2. ASSUME NEW len \in ReadLens, Read(len) PROVE r'.assembled_bytes = r.assembled_bytes
      BY <2>1, <3>2 DEF Read, Good, Core, IsObject
    <3>3. CASE UNCHANGED vars
      BY <2>2, <3>3, NIsNat DEF vars
    <3> QED
      BY <1>1, <2>2, <3>1, <3>2, <3>3, NIsNat DEF Next, Advances
  <2> QED
    BY <2>2, <2>3, NIsNat
<1> QED
  BY <1>1, Invariance, PTL DEF Spec, EndIsFinal

(* A complete stream whose eof was taken in has been ended. *)
THEOREM CompleteIsEnded == Spec => []EndsWhenComplete
<1>1. IndInv => EndsWhenComplete
  BY DEF IndInv, EndSound, EndsWhenComplete
<1> QED
  BY <1>1, Invariance, PTL

=============================================================================
