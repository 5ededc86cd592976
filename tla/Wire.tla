-------------------------------- MODULE Wire --------------------------------
(***************************************************************************)
(* One segment on its way from the adapter of one end to that of the       *)
(* other, in bytes: as the payload of a UDP datagram                       *)
(* (TCPOverUDPSocketAdapter, UDPSocket::sendto and recv), or in an IPv4    *)
(* datagram through a TUN device (TCPOverIPv4Adapter, tuntap_adapter.hh).  *)
(* On the way, one 16-bit word may be changed, and a datagram of a TUN     *)
(* device cut short.  What the bytes say becomes a datagram of FdAdapter,  *)
(* which decides whether it is taken.                                      *)
(***************************************************************************)
EXTENDS TCPHeader, IPv4Datagram, FdAdapter

CONSTANTS Here, There,      \* the addresses of the sender and the receiver
          Segments,         \* the segments to send
          Words             \* what a word may be changed to

ASSUME WireAssumption ==
  /\ Here.port \in 0..65535 /\ There.port \in 0..65535
  /\ Words \subseteq 0..65535

VARIABLES pc,         \* idle, sent or read
          sender, receiver,   \* the two adapters
          sent,       \* the segment, with the ports that write() set
          flight,     \* the bytes on their way
          fault,      \* what happened to them
          got         \* what read() returned

vars == << pc, sender, receiver, sent, flight, fault, got >>

NewTCPSegment == [header |-> NewTCPHeader, payload |-> NewBuffer(<< >>)]

NoFault == [kind |-> "none", place |-> 0, old |-> 0, new |-> 0]

Init ==
  \E over \in {"udp", "ip"}, listens \in BOOLEAN :
    /\ pc = "idle"
    /\ sender = NewFdAdapter(over, Here, There, FALSE)
    /\ receiver = NewFdAdapter(over, There, Here, listens)
    /\ sent = NewTCPSegment /\ flight = << >> /\ fault = NoFault /\ got = << >>

(* write() sets the ports in the segment it is given. *)
with_ports(a, seg) ==
  [seg EXCEPT !.header.sport = a.source.port, !.header.dport = a.destination.port]

wrap_tcp_in_ip(a, seg) ==
  LET h == [NewIPv4Header EXCEPT
              !.src = a.source.host, !.dst = a.destination.host,
              !.len = (4 * NewIPv4Header.hlen + 4 * seg.header.doff + Len(buffer_str(seg.payload))) % 65536]
  IN  [header |-> h, payload |-> segment_serialize(seg, pseudo_cksum(h))]

(* sendmsg or writev takes a datagram in whole. *)
written(a, seg) ==
  LET ip == wrap_tcp_in_ip(a, seg)
  IN  as_iovecs(ViewsOf(IF a.over = "udp" THEN segment_serialize(seg, 0)
                        ELSE datagram_serialize(ip.header, ip.payload)))

Send(seg) ==
  /\ pc = "idle" /\ pc' = "sent"
  /\ sent' = with_ports(sender, seg)
  /\ flight' = written(sender, sent')
  /\ UNCHANGED << sender, receiver, fault, got >>

-----------------------------------------------------------------------------
(* The network.  An odd byte at the end is the high half of a word. *)
word(bytes, i) == 256 * bytes[2 * i - 1] + (IF 2 * i <= Len(bytes) THEN bytes[2 * i] ELSE 0)

Damage(i, w) ==
  /\ pc = "sent" /\ fault = NoFault
  /\ 2 * i > Len(flight) => w % 256 = 0
  /\ w # word(flight, i)
  /\ flight' = [j \in DOMAIN flight |->
                  IF j = 2 * i - 1 THEN w \div 256
                  ELSE IF j = 2 * i THEN w % 256 ELSE flight[j]]
  /\ fault' = [kind |-> "word", place |-> i, old |-> word(flight, i), new |-> w]
  /\ UNCHANGED << pc, sender, receiver, sent, got >>

Cut(n) ==
  /\ pc = "sent" /\ fault = NoFault /\ sender.over = "ip"
  /\ flight' = SubSeq(flight, 1, n)
  /\ fault' = [NoFault EXCEPT !.kind = "cut", !.place = n]
  /\ UNCHANGED << pc, sender, receiver, sent, got >>

-----------------------------------------------------------------------------
(* What read() of the two adapters finds in the bytes. *)
as_segment(parsed) ==
  [header |-> parsed.header, payload |-> parsed.payload,
   syn |-> parsed.header.syn, rst |-> parsed.header.rst]

udp_datagram(bytes, from) ==
  LET seg == segment_parse(NewBuffer(bytes), 0)
  IN  [NewDatagram(from, There, as_segment(seg)) EXCEPT !.parses = seg.result = NoError]

carried(ip, seg) ==
  [from |-> [host |-> ip.header.src, port |-> seg.header.sport],
   to |-> [host |-> ip.header.dst, port |-> seg.header.dport],
   tcp |-> ip.header.proto = PROTO_TCP,
   parses |-> ip.result = NoError /\ seg.result = NoError,
   seg |-> as_segment(seg)]

segment_in(ip) == segment_parse(as_buffer(ip.payload), pseudo_cksum(ip.header))

ip_datagram(bytes) ==
  LET ip == datagram_parse(NewBuffer(bytes)) IN carried(ip, segment_in(ip))

Read ==
  /\ pc = "sent" /\ pc' = "read"
  /\ LET r == adapter_read(receiver, IF receiver.over = "udp" THEN udp_datagram(flight, Here)
                                     ELSE ip_datagram(flight))
     IN  got' = r.seg /\ receiver' = r.adapter
  /\ UNCHANGED << sender, sent, flight, fault >>

Next ==
  \/ \E seg \in Segments : Send(seg)
  \/ \E i \in 1..((Len(flight) + 1) \div 2), w \in Words : Damage(i, w)
  \/ \E n \in 0..(Len(flight) - 1) : Cut(n)
  \/ Read

Spec == Init /\ [][Next]_vars

-----------------------------------------------------------------------------
(* The two segments say the same. *)
Same(seg, other) ==
  /\ same_header(seg.header, other.header)
  /\ seg.header.sport = other.header.sport /\ seg.header.dport = other.header.dport
  /\ buffer_str(seg.payload) = buffer_str(other.payload)

(***************************************************************************)
(* A segment that nothing happens to arrives as it was sent, whatever its  *)
(* flags, options and numbers are and however long its payload is, in both *)
(* kinds of datagrams; only a receiver that listens takes no other segment *)
(* than a SYN.  What the other parts assume of the wire rests on this      *)
(* (tcp_header.cc:17-78, ipv4_header.cc:23-131, tcp_segment.cc:12-44).     *)
(***************************************************************************)
SegmentSurvives ==
  pc = "read" /\ fault = NoFault =>
    /\ receiver.listening = (got = << >>)
    /\ receiver.listening => ~(sent.header.syn /\ ~sent.header.rst)
    /\ \A i \in DOMAIN got : Same(got[i], sent)

(***************************************************************************)
(* Of a datagram with one changed word, read() makes no other segment: it  *)
(* is refused, or the change was in a part of the IPv4 header that does    *)
(* not matter to TCP (tos, id, fragment, ttl, checksum, version).  The     *)
(* ones' complement sum takes 0 and 65535 for the same, and a header       *)
(* length that grows takes words of the TCP header for options: the header *)
(* checksum tells, and IPv4Header::parse reports any change of the header, *)
(* but IPv4Datagram::parse ignores the result (ipv4_datagram.cc:13).       *)
(***************************************************************************)
Alike(f) == f.old % 65535 = f.new % 65535

HeaderLengthChanged(f) == f.place = 1 /\ (f.old \div 256) % 16 # (f.new \div 256) % 16

DamageNoticed ==
  fault.kind = "word" /\ ~Alike(fault) =>
    /\ sender.over = "udp" \/ ~HeaderLengthChanged(fault) =>
         \A i \in DOMAIN got : Same(got[i], sent)
    /\ sender.over = "ip" /\ fault.place <= 10 /\ ~HeaderLengthChanged(fault) =>
         ip_header_parse(NewNetParser(NewBuffer(flight))).result # NoError

(***************************************************************************)
(* A datagram that is cut short is refused wherever the cut is, in the     *)
(* headers or in a payload whose last bytes do not change the checksum: a  *)
(* header that cannot be read promises 65516 bytes (ipv4_header.cc:27-29,  *)
(* 112, ipv4_datagram.cc:16-18).                                           *)
(***************************************************************************)
CutRefused == fault.kind = "cut" => got = << >>

=============================================================================
