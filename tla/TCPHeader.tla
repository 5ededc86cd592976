----------------------------- MODULE TCPHeader ------------------------------
(***************************************************************************)
(* TCPHeader (libsponge/tcp_helpers/tcp_header.hh, .cc) and how TCPSegment *)
(* is parsed and serialized (tcp_segment.cc).                              *)
(***************************************************************************)
EXTENDS NetParser

NewTCPHeader ==
  [sport |-> 0, dport |-> 0, seqno |-> << 0, 0 >>, ackno |-> << 0, 0 >>, doff |-> 5,
   urg |-> FALSE, ack |-> FALSE, psh |-> FALSE, rst |-> FALSE, syn |-> FALSE,
   fin |-> FALSE, win |-> 0, cksum |-> 0, uptr |-> 0]

(* From bit 5 down to bit 0 of the byte that holds them. *)
Flags == << "urg", "ack", "psh", "rst", "syn", "fin" >>

flag_byte(h) == FoldLeft(LAMBDA byte, f : 2 * byte + (IF h[f] THEN 1 ELSE 0), 0, Flags)

flag_set(byte, i) == (byte \div 2^(6 - i)) % 2 = 1

(***************************************************************************)
(* TCPHeader::parse: the header and the parser after it.  The caller looks *)
(* at the error of the parser and not at the result, so that a doff below  *)
(* 5 only keeps the options, if any, in front of the payload.              *)
(***************************************************************************)
tcp_header_fields(v) ==
  [sport |-> v[1], dport |-> v[2], seqno |-> v[3], ackno |-> v[4], doff |-> v[5] \div 16,
   urg |-> flag_set(v[6], 1), ack |-> flag_set(v[6], 2), psh |-> flag_set(v[6], 3),
   rst |-> flag_set(v[6], 4), syn |-> flag_set(v[6], 5), fin |-> flag_set(v[6], 6),
   win |-> v[7], cksum |-> v[8], uptr |-> v[9]]

after_tcp_header(q, h) ==
  [parser |-> IF h.doff < 5 THEN q ELSE skip_options(q, h.doff), header |-> h]

tcp_header_parse(p) ==
  LET q == parse_ints(p, << 2, 2, 4, 4, 1, 1, 2, 2, 2 >>)
  IN  after_tcp_header(q, tcp_header_fields(q.values))

(* TCPHeader::serialize, which throws when doff < 5. *)
tcp_header_serialize(h) ==
  u16(h.sport) \o u16(h.dport) \o u32(h.seqno) \o u32(h.ackno)
    \o u8(16 * h.doff) \o u8(flag_byte(h)) \o u16(h.win) \o u16(h.cksum)
    \o u16(h.uptr) \o zeros(4 * h.doff - 20)

(* operator== leaves out the ports and the checksum. *)
same_header(h, other) ==
  \A f \in DOMAIN h \ {"sport", "dport", "cksum"} : h[f] = other[f]

-----------------------------------------------------------------------------
parsed_segment(parsed) ==
  [result |-> parsed.parser.error, header |-> parsed.header,
   payload |-> parsed.parser.buffer]

(* Faulty: does not look at the checksum. *)
segment_parse_unchecked(buf, datagram_layer_checksum) ==
  parsed_segment(tcp_header_parse(NewNetParser(buf)))

(* TCPSegment: the result of parse, and the segment after it. *)
segment_parse(buf, datagram_layer_checksum) ==
  LET check == checksum_add(NewInternetChecksum(datagram_layer_checksum), buffer_str(buf))
  IN  IF checksum_value(check) # 0
        THEN [result |-> "BadChecksum", header |-> NewTCPHeader, payload |-> NewBuffer(<< >>)]
        ELSE parsed_segment(tcp_header_parse(NewNetParser(buf)))

segment_serialize(seg, datagram_layer_checksum) ==
  LET header == checksum_add(NewInternetChecksum(datagram_layer_checksum),
                             tcp_header_serialize([seg.header EXCEPT !.cksum = 0]))
      check  == checksum_add(header, buffer_str(seg.payload))
      header_out == [seg.header EXCEPT !.cksum = checksum_value(check)]
  IN  append(BufferListOfString(tcp_header_serialize(header_out)),
             BufferListOf(seg.payload))

=============================================================================
