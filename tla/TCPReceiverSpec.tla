-------------------------- MODULE TCPReceiverSpec ---------------------------
(***************************************************************************)
(* A TCPReceiver and the segments of one peer, which arrive in any order   *)
(* and any number of times: the SYN, excerpts of the peer's stream cut     *)
(* anywhere, the FIN, bare acknowledgments, and keep-alive probes, which   *)
(* carry one meaningless byte before the window.                           *)
(***************************************************************************)
EXTENDS TCPReceiver

CONSTANTS Stream,     \* the bytes the peer sends
          PeerISN,    \* the peer's initial sequence number
          Capacity,   \* of the receiver
          ReadLens,   \* the lengths the application reads
          Garbage,    \* the byte of a keep-alive probe
          FinAhead    \* may a FIN without payload overtake bytes of the stream?

ASSUME PeerAssumption == Stream \in Seq(Nat) /\ PeerISN \in WrappingInt32 /\ Modulus > 2
ASSUME CapacityAssumption == Capacity \in Nat \ {0}
ASSUME SizeMaxAssumption == SIZE_MAX \in Nat /\ SIZE_MAX > Len(Stream) + Capacity
ASSUME ReadLensAssumption == ReadLens \subseteq Nat
ASSUME FlagsAssumption == FinAhead \in BOOLEAN /\ Garbage \in Nat

VARIABLES rcv,      \* the receiver
          arrived   \* history: absolute sequence numbers of accepted segments

vars == << rcv, arrived >>

N == Len(Stream)

Init == rcv = NewTCPReceiver(Capacity) /\ arrived = {}

(* The segment from absolute sequence number first, of len bytes. *)
PeerSegment(first, len, syn, fin) ==
  [NewSegment EXCEPT
     !.seqno = wrap(first, PeerISN), !.syn = syn, !.fin = fin,
     !.payload = IF syn THEN SubSeq(Stream, 1, len)
                 ELSE SubSeq(Stream, first, first + len - 1)]

(***************************************************************************)
(* Maximum segment lifetime: a segment that still travels is less than     *)
(* half the sequence space away from the receiver's ackno, which is what   *)
(* TCP assumes of the network to tell old segments from new ones.          *)
(***************************************************************************)
Lives(first) ==
  /\ 2 * (first - abs_ackno(rcv)) < Modulus
  /\ 2 * (abs_ackno(rcv) - first) < Modulus

Receive(first, len, syn, fin) ==
  LET last == first + num(syn) + len   \* where a FIN goes
  IN  /\ syn => first = 0
      /\ ~syn => first > 0
      /\ last <= N + 1
      /\ fin => last = N + 1
      /\ fin /\ len = 0 /\ ~FinAhead => rcv.reassembler.assembled_bytes = N
      /\ Lives(first)
      /\ LET call == segment_received(rcv, PeerSegment(first, len, syn, fin))
         IN  /\ rcv' = call.self
             /\ arrived' = IF call.result
                             THEN arrived \cup first..(last - 1 + num(fin))
                             ELSE arrived

(* A keep-alive probe: one byte from just before what we acknowledged. *)
KeepAlive ==
  /\ has_isn(rcv)
  /\ rcv' = segment_received(rcv,
              [NewSegment EXCEPT !.seqno = wrap(abs_ackno(rcv) - 1, PeerISN),
                                 !.payload = << Garbage >>]).self
  /\ UNCHANGED arrived

(* The application reads from stream_out(). *)
Read(len) ==
  /\ rcv' = [rcv EXCEPT !.reassembler.output = pop_output(@, len)]
  /\ UNCHANGED arrived

Next ==
  \/ \E first \in 0..(N + 1), len \in 0..N, syn, fin \in BOOLEAN :
       Receive(first, len, syn, fin)
  \/ KeepAlive
  \/ \E len \in ReadLens : Read(len)

Spec == Init /\ [][Next]_vars

-----------------------------------------------------------------------------
(***************************************************************************)
(* The receiver hands its StreamReassembler excerpts of the peer's stream, *)
(* each at its place, and the end of the stream where it is: what holds of *)
(* a StreamReassembler that is used as it should holds of this one, with   *)
(* sequence numbers that wrap, the SYN's, duplicates, old segments and     *)
(* keep-alive bytes in between (tcp_receiver.cc:29-41).                    *)
(***************************************************************************)
R == INSTANCE StreamReassemblerSpec WITH
  r <- rcv.reassembler, EofAhead <- FinAhead

DrivesReassembler == R!Spec

(***************************************************************************)
(* "the absolute sequence number that wraps to n and is closest to         *)
(* checkpoint" (wrapping_integers.hh:30): with the receiver's checkpoint,  *)
(* whatever number a segment carries and however often the numbers have    *)
(* wrapped, the result of unwrap wraps to that number and no absolute one  *)
(* that does is closer.                                                    *)
(***************************************************************************)
UnwrapsToClosest ==
  has_isn(rcv) =>
    \A n \in WrappingInt32 :
      LET u == unwrap(n, rcv.isn, abs_ackno(rcv))
      IN  /\ u >= 0
          /\ wrap(u, rcv.isn) = n
          /\ \A v \in 0..(N + 2 + Modulus) :
               wrap(v, rcv.isn) = n
                 => Distance(u, abs_ackno(rcv)) <= Distance(v, abs_ackno(rcv))

(***************************************************************************)
(* The application reads the peer's stream and nothing else: sequence      *)
(* numbers that wrapped, duplicates, reordering and keep-alive bytes never *)
(* put a wrong byte in the output.                                         *)
(***************************************************************************)
OutputIsPrefix ==
  LET out == stream_out(rcv)
  IN  out.buffer = SubSeq(Stream, out.byte_read + 1, out.byte_written)

(***************************************************************************)
(* "the sequence number of the first byte in the stream that the receiver  *)
(* hasn't received" (tcp_receiver.hh:39-40): everything before the ackno,  *)
(* SYN and FIN included, has arrived.                                      *)
(***************************************************************************)
AcksOnlyArrived == \A s \in 0..(abs_ackno(rcv) - 1) : s \in arrived

(***************************************************************************)
(* The next byte of the stream is always welcome while the window is open: *)
(* a segment that starts at the ackno moves it forward, so that a sender   *)
(* that retransmits what is not acknowledged makes progress.               *)
(***************************************************************************)
NextByteAccepted ==
  LET next == rcv.reassembler.assembled_bytes
      after == segment_received(rcv, PeerSegment(next + 1, 1, FALSE, FALSE)).self
  IN  SYN_RECV(rcv) /\ window_size(rcv) > 0 /\ next < N
        => abs_ackno(after) > abs_ackno(rcv)

(***************************************************************************)
(* Neither the ackno nor the right edge of the window ever moves back: the *)
(* receiver never takes back an acknowledgment, nor room it has offered.   *)
(***************************************************************************)
WindowNeverShrinks ==
  [][/\ abs_ackno(rcv') >= abs_ackno(rcv)
     /\ abs_ackno(rcv') + window_size(rcv') >= abs_ackno(rcv) + window_size(rcv)]_vars

=============================================================================
