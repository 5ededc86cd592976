------------------------- MODULE MCByteStreamDeque --------------------------
(* TLC instances of ByteStreamDeque. *)
EXTENDS ByteStreamDeque

MCData == UNION { [1..n -> Byte] : n \in 0..3 }

MCReadLens == 0..3
=============================================================================
