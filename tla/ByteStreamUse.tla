--------------------------- MODULE ByteStreamUse ----------------------------
(* How the two sides of one ByteStream use it. *)
EXTENDS Integers, Sequences

CONSTANTS Byte,        \* the values of a byte
          Data,        \* the strings a writer offers
          ReadLens,    \* the lengths a reader asks for
          Capacity,    \* the constructor's argument
          MaxWritten   \* bound: no write is tried once this many bytes are in

ASSUME DataAssumption == Data \subseteq Seq(Byte)
ASSUME ReadLensAssumption == ReadLens \subseteq Nat
ASSUME CapacityAssumption == Capacity \in Nat

=============================================================================
