---------------------------- MODULE IPv4Datagram ----------------------------
(***************************************************************************)
(* IPv4Header and IPv4Datagram (libsponge/tcp_helpers/ipv4_header.hh, .cc, *)
(* ipv4_datagram.hh, .cc).                                                 *)
(***************************************************************************)
EXTENDS NetParser

PROTO_TCP == 6

NewIPv4Header ==
  [ver |-> 4, hlen |-> 5, tos |-> 0, len |-> 0, id |-> 0, df |-> TRUE, mf |-> FALSE,
   offset |-> 0, ttl |-> 128, proto |-> PROTO_TCP, cksum |-> 0,
   src |-> << 0, 0 >>, dst |-> << 0, 0 >>]

(* An uint16_t: a header that claims more than there is wraps around. *)
payload_length(h) == (h.len - 4 * h.hlen) % 65536

pseudo_cksum(h) ==
  h.src[1] + h.src[2] + h.dst[1] + h.dst[2] + h.proto + payload_length(h)

(***************************************************************************)
(* IPv4Header::parse: the header, the parser, and the result.  Only the    *)
(* first check comes before the fields are filled in; all the others leave *)
(* the options, if any, in front of the payload.                           *)
(***************************************************************************)
ip_header_fields(v) ==
  [ver |-> v[1] \div 16, hlen |-> v[1] % 16, tos |-> v[2], len |-> v[3], id |-> v[4],
   df |-> (v[5] \div 2^14) % 2 = 1, mf |-> (v[5] \div 2^13) % 2 = 1,
   offset |-> v[5] % 2^13, ttl |-> v[6], proto |-> v[7], cksum |-> v[8],
   src |-> v[9], dst |-> v[10]]

ip_header_result(h, data_size, after, bytes) ==
  CASE data_size < 4 * h.hlen -> "PacketTooShort"
    [] h.ver # 4 -> "WrongIPVersion"
    [] h.hlen < 5 -> "HeaderTooShort"
    [] data_size # h.len -> "TruncatedPacket"
    [] parse_failed(after) -> after.error
    [] checksum_value(checksum_add(NewInternetChecksum(0), SubSeq(bytes, 1, 4 * h.hlen))) # 0
         -> "BadChecksum"
    [] OTHER -> NoError

after_ip_header(q, h, bytes) ==
  LET fits  == 4 * h.hlen <= Len(bytes) /\ h.ver = 4 /\ h.hlen >= 5 /\ Len(bytes) = h.len
      after == IF fits THEN skip_options(q, h.hlen) ELSE q
  IN  [parser |-> after, header |-> h,
       result |-> ip_header_result(h, Len(bytes), after, bytes)]

ip_header_parse(p) ==
  LET bytes == buffer_str(p.buffer)
      q     == parse_ints(p, << 1, 1, 2, 2, 2, 1, 1, 2, 4, 4 >>)
  IN  IF Len(bytes) < 20
        THEN [parser |-> p, header |-> NewIPv4Header, result |-> "PacketTooShort"]
        ELSE after_ip_header(q, ip_header_fields(q.values), bytes)

(* IPv4Header::serialize, which throws when ver # 4 or hlen < 5. *)
ip_header_serialize(h) ==
  u8(16 * h.ver + (h.hlen % 16)) \o u8(h.tos) \o u16(h.len) \o u16(h.id)
    \o u16((IF h.df THEN 2^14 ELSE 0) + (IF h.mf THEN 2^13 ELSE 0) + (h.offset % 2^13))
    \o u8(h.ttl) \o u8(h.proto) \o u16(h.cksum) \o u32(h.src) \o u32(h.dst)
    \o zeros(4 * h.hlen - 20)

-----------------------------------------------------------------------------
(* Faulty: does not compare the lengths. *)
parsed_datagram_any_length(parsed) ==
  LET payload == BufferListOf(parsed.parser.buffer)
  IN  [result |-> parsed.parser.error, header |-> parsed.header, payload |-> payload]

(***************************************************************************)
(* IPv4Datagram::parse ignores the result of IPv4Header::parse: what it    *)
(* refuses is a payload whose length is not that which the header tells.   *)
(***************************************************************************)
parsed_datagram(parsed) ==
  LET payload == BufferListOf(parsed.parser.buffer)
  IN  [result |-> IF list_size(payload) # payload_length(parsed.header)
                    THEN "PacketTooShort" ELSE parsed.parser.error,
       header |-> parsed.header, payload |-> payload]

datagram_parse(buf) == parsed_datagram(ip_header_parse(NewNetParser(buf)))

(* IPv4Datagram::serialize, which throws when the payload has another size. *)
datagram_serialize(header, payload) ==
  LET zero  == ip_header_serialize([header EXCEPT !.cksum = 0])
      cksum == checksum_value(checksum_add(NewInternetChecksum(0), zero))
  IN  append(BufferListOfString(ip_header_serialize([header EXCEPT !.cksum = cksum])),
             payload)

=============================================================================
