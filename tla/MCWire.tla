------------------------------- MODULE MCWire -------------------------------
(* Instances of Wire for TLC. *)
EXTENDS Wire

MCHere == [host |-> << 43518, 36873 >>, port |-> 65535]

MCThere == [host |-> << 2560, 1 >>, port |-> 80]

Headers ==
  { [NewTCPHeader EXCEPT !.syn = TRUE, !.seqno = << 65535, 65535 >>, !.win = 64],
    [NewTCPHeader EXCEPT !.syn = TRUE, !.ack = TRUE, !.doff = 6, !.ackno = << 255, 256 >>],
    [NewTCPHeader EXCEPT !.ack = TRUE, !.psh = TRUE, !.fin = TRUE, !.win = 65535],
    [NewTCPHeader EXCEPT !.rst = TRUE, !.syn = TRUE, !.urg = TRUE, !.uptr = 1] }

Payloads == { << >>, << 255 >>, << 7, 0 >>, << 0, 1, 0 >> }

MCSegments == { [header |-> h, payload |-> NewBuffer(s)] : h \in Headers, s \in Payloads }

MCWords == {0, 1, 256, 17664, 18176, 65280, 65535}
=============================================================================
