----------------------------- MODULE NetParser ------------------------------
(***************************************************************************)
(* NetParser and NetUnparser (libsponge/util/parser.hh, .cc), and          *)
(* InternetChecksum (libsponge/util/util.hh, .cc).  A byte is a number     *)
(* below 256.  An uint32_t is the pair of its 16-bit halves, the high one  *)
(* first, so that no number exceeds what TLC counts to.                    *)
(***************************************************************************)
EXTENDS Buffer

NoError == "NoError"

(* The Buffer that is left, the first error, and the integers so far. *)
NewNetParser(buf) == [buffer |-> buf, error |-> NoError, values |-> << >>]

parse_failed(p) == p.error # NoError

check_size(p, size) ==
  IF size > Len(buffer_str(p.buffer)) THEN [p EXCEPT !.error = "PacketTooShort"] ELSE p

(* Of the one, two or four bytes of an integer, the first is the highest. *)
number(bytes) ==
  CASE Len(bytes) = 1 -> bytes[1]
    [] Len(bytes) = 2 -> 256 * bytes[1] + bytes[2]
    [] Len(bytes) = 4 -> << 256 * bytes[1] + bytes[2], 256 * bytes[3] + bytes[4] >>

zeros(len) == [i \in 1..len |-> 0]

(* An error stays, and makes this and all later integers zero. *)
parse_int(p, len) ==
  LET q == check_size(p, len)
  IN  IF parse_failed(q) THEN [q EXCEPT !.values = Append(@, number(zeros(len)))]
      ELSE [q EXCEPT !.values = Append(@, number(SubSeq(buffer_str(p.buffer), 1, len))),
                     !.buffer = buffer_remove_prefix(@, len)]

(* Calls of u8, u16 and u32 in a row, given as the sizes of their results. *)
parse_ints(p, sizes) == FoldLeft(parse_int, p, sizes)

skip_prefix(p, n) ==
  LET q == check_size(p, n)
  IN  IF parse_failed(q) THEN q ELSE [q EXCEPT !.buffer = buffer_remove_prefix(@, n)]

(* What follows the 20 bytes of both headers, in a header of so many words. *)
skip_options(p, words) == skip_prefix(p, 4 * words - 20)

u8(val) == << val % 256 >>

u16(val) == << (val \div 256) % 256, val % 256 >>

u32(val) == u16(val[1]) \o u16(val[2])

-----------------------------------------------------------------------------
(***************************************************************************)
(* InternetChecksum.  The sum of the words of 64 KiB is below 2^31, so     *)
(* that _sum does not overflow.                                            *)
(***************************************************************************)
NewInternetChecksum(initial_sum) == [sum |-> initial_sum, parity |-> FALSE]

(* The loop of add(): every other byte is the high half of a word. *)
odd(n) == n % 2 = 1

checksum_add(check, data) ==
  LET val(i) == IF check.parity = odd(i) THEN data[i] ELSE 256 * data[i]
      sum[i \in 0..Len(data)] == IF i = 0 THEN check.sum ELSE sum[i - 1] + val(i)
  IN  [sum |-> sum[Len(data)], parity |-> check.parity # odd(Len(data))]

(* The loop of value(), which brings the carries back in. *)
folded[sum \in Nat] ==
  IF sum > 65535 THEN folded[(sum \div 65536) + (sum % 65536)] ELSE sum

checksum_value(check) == 65535 - folded[check.sum]

=============================================================================
