------------------------------ MODULE FdAdapter -----------------------------
(***************************************************************************)
(* The adapters between datagrams and TCP segments: FdAdapterBase and      *)
(* TCPOverUDPSocketAdapter (libsponge/tcp_helpers/fd_adapter.hh, .cc),     *)
(* TCPOverIPv4Adapter (tcp_over_ip.cc) over a TUN device                   *)
(* (tuntap_adapter.hh), and LossyFdAdapter around them                     *)
(* (lossy_fd_adapter.hh).  An address is a host and a port.  A datagram    *)
(* says where it is from and to, whether it claims to hold TCP, whether it *)
(* parses, and what it then holds; an optional segment is a sequence.      *)
(***************************************************************************)
EXTENDS Integers, Sequences

NewFdAdapter(over, source, destination, listens) ==
  [over |-> over, source |-> source, destination |-> destination,
   listening |-> listens]

NewDatagram(from, to, seg) ==
  [from |-> from, to |-> to, tcp |-> TRUE, parses |-> TRUE, seg |-> seg]

opens(seg) == seg.syn /\ ~seg.rst

udp_takes(a, d) ==
  /\ ~a.listening => d.from = a.destination
  /\ d.parses
  /\ a.listening => opens(d.seg)

(* The port of the segment is looked at before and after the listening. *)
ip_takes(a, d) ==
  /\ d.parses /\ d.tcp
  /\ ~a.listening => /\ d.to.host = a.source.host
                     /\ d.from = a.destination
  /\ d.to.port = a.source.port
  /\ a.listening => opens(d.seg)

(* Faulty: goes on listening. *)
targeted_listening(a, d) ==
  IF ~a.listening THEN a
  ELSE [a EXCEPT !.destination = d.from,
                 !.source.host = IF a.over = "ip" THEN d.to.host ELSE @]

(* A SYN ends the listening; over IP, replies come from where it went. *)
targeted(a, d) ==
  IF ~a.listening THEN a
  ELSE [a EXCEPT !.destination = d.from, !.listening = FALSE,
                 !.source.host = IF a.over = "ip" THEN d.to.host ELSE @]

adapter_read(a, d) ==
  IF CASE a.over = "udp" -> udp_takes(a, d) [] a.over = "ip" -> ip_takes(a, d)
    THEN [adapter |-> targeted(a, d), seg |-> << d.seg >>]
    ELSE [adapter |-> a, seg |-> << >>]

(* The datagram is dropped after the adapter has read it. *)
lossy_read(a, d, drop) ==
  IF drop THEN [adapter_read(a, d) EXCEPT !.seg = << >>] ELSE adapter_read(a, d)

adapter_write(a, seg) == NewDatagram(a.source, a.destination, seg)

=============================================================================
