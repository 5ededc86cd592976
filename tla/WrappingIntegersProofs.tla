----------------------- MODULE WrappingIntegersProofs -----------------------
(***************************************************************************)
(* Proofs, for every modulus (2^32 among them), initial sequence number,   *)
(* absolute number and checkpoint, that unwrap inverts wrap as documented. *)
(* The provers do not reason about % with a symbolic modulus, so the proof *)
(* rests on the uniqueness of quotient and remainder (lemma Remainder).    *)
(***************************************************************************)
EXTENDS WrappingIntegers, TLAPS

(* Quotient and remainder. *)
LEMMA DivMod ==
  ASSUME NEW a \in Int
  PROVE  /\ a \div Modulus \in Int /\ a % Modulus \in 0..(Modulus - 1)
         /\ a = Modulus * (a \div Modulus) + (a % Modulus)
  BY ModulusAssumption

(* Multiples of the modulus: their type, their size, and distributivity. *)
LEMMA Multiple ==
  ASSUME NEW k \in Int
  PROVE  /\ Modulus * k \in Int
         /\ k >= 1 => Modulus * k >= Modulus
         /\ k <= -1 => Modulus * k <= -Modulus
  BY ModulusAssumption

LEMMA Distribute ==
  ASSUME NEW a \in Int, NEW b \in Int
  PROVE  Modulus * (a - b) = Modulus * a - Modulus * b
  BY ModulusAssumption

(* Two numbers with the same remainder are equal or a modulus apart. *)
LEMMA Apart ==
  ASSUME NEW p \in Int, NEW q \in Int
  PROVE  \/ p = q
         \/ p > q /\ Modulus * p >= Modulus * q + Modulus
         \/ p < q /\ Modulus * p <= Modulus * q - Modulus
<1>1. Modulus * (p - q) = Modulus * p - Modulus * q
  BY Distribute
<1>2. Modulus * p \in Int /\ Modulus * q \in Int /\ Modulus \in Int
  BY Multiple, ModulusAssumption
<1>3. CASE p - q >= 1
  <2>1. Modulus * (p - q) >= Modulus
    BY <1>3, Multiple
  <2> QED
    BY <1>1, <1>2, <1>3, <2>1
<1>4. CASE p - q <= -1
  <2>1. Modulus * (p - q) <= -Modulus
    BY <1>4, Multiple
  <2> QED
    BY <1>1, <1>2, <1>4, <2>1
<1> QED
  BY <1>3, <1>4

(* The remainder is determined by the equation. *)
LEMMA Remainder ==
  ASSUME NEW a \in Int, NEW q \in Int, NEW t \in 0..(Modulus - 1),
         a = Modulus * q + t
  PROVE  a % Modulus = t
<1> DEFINE p == a \div Modulus
           u == a % Modulus
<1>1. p \in Int /\ u \in 0..(Modulus - 1) /\ a = Modulus * p + u
  BY DivMod
<1> HIDE DEF p, u
<1>2. Modulus * p \in Int /\ Modulus * q \in Int /\ Modulus \in Int
  BY <1>1, Multiple, ModulusAssumption
<1>3. p = q
  BY <1>1, <1>2, Apart
<1>4. u = t
  BY <1>1, <1>2, <1>3
<1> QED
  BY <1>4 DEF u

(* A difference or sum of two remainders, reduced. *)
LEMMA Reduce ==
  ASSUME NEW a \in Int, -Modulus < a, a < 2 * Modulus
  PROVE  a % Modulus = IF a < 0 THEN a + Modulus
                       ELSE IF a < Modulus THEN a ELSE a - Modulus
<1>1. Modulus \in Nat \ {0}
  BY ModulusAssumption
<1>2. CASE a < 0
  <2>1. a + Modulus \in 0..(Modulus - 1) /\ a = Modulus * (-1) + (a + Modulus)
    BY <1>1, <1>2
  <2> QED
    BY <1>2, <2>1, Remainder
<1>3. CASE 0 <= a /\ a < Modulus
  <2>1. a \in 0..(Modulus - 1) /\ a = Modulus * 0 + a
    BY <1>1, <1>3
  <2> QED
    BY <1>1, <1>3, <2>1, Remainder
<1>4. CASE Modulus <= a
  <2>1. a - Modulus \in 0..(Modulus - 1) /\ a = Modulus * 1 + (a - Modulus)
    BY <1>1, <1>4
  <2>2. a % Modulus = a - Modulus
    BY <2>1, Remainder
  <2> QED
    BY <1>1, <1>4, <2>2
<1> QED
  BY <1>1, <1>2, <1>3, <1>4

(* unwrap first recovers the absolute number modulo the modulus. *)
LEMMA Offset ==
  ASSUME NEW n \in Nat, NEW i \in WrappingInt32
  PROVE  minus(wrap(n, i), i) = n % Modulus
<1> DEFINE m == n % Modulus
           w == (i + m) % Modulus
<1>1. Modulus \in Nat \ {0} /\ i \in 0..(Modulus - 1) /\ m \in 0..(Modulus - 1)
  BY ModulusAssumption, DivMod DEF WrappingInt32
<1> HIDE DEF m
<1>2. w = IF i + m < Modulus THEN i + m ELSE i + m - Modulus
  BY <1>1, Reduce
<1> HIDE DEF w
<1>3. (w - i) % Modulus = m
  BY <1>1, <1>2, Reduce
<1> QED
  BY <1>3 DEF m, w, minus, wrap, plus

(***************************************************************************)
(* What unwrap returns, in terms of the quotient q and remainder of the    *)
(* checkpoint c: the number with remainder m in the block of c, or in the  *)
(* block before or after it, never negative and never further from c than  *)
(* another number with that remainder.                                     *)
(***************************************************************************)
LEMMA Unwraps ==
  ASSUME NEW n \in Nat, NEW i \in WrappingInt32, NEW c \in Nat
  PROVE  /\ unwrap(wrap(n, i), i, c) \in Nat
         /\ unwrap(wrap(n, i), i, c) % Modulus = n % Modulus
         /\ \A v \in Nat : v % Modulus = n % Modulus
              => Distance(unwrap(wrap(n, i), i, c), c) <= Distance(v, c)
<1> DEFINE u == unwrap(wrap(n, i), i, c)
           m == n % Modulus
           cm == c % Modulus
           q == c \div Modulus
           back == (cm - m) % Modulus
           forward == (m - cm) % Modulus
<1>1. /\ Modulus \in Nat \ {0} /\ m \in 0..(Modulus - 1) /\ cm \in 0..(Modulus - 1)
      /\ q \in Int /\ c = Modulus * q + cm
  <2>1. n \in Int /\ c \in Int
    OBVIOUS
  <2> QED
    BY <2>1, ModulusAssumption, DivMod
<1>2. u = IF m = cm THEN c
          ELSE IF back < forward /\ c >= back THEN c - back ELSE c + forward
  BY Offset DEF unwrap, minus
<1> HIDE DEF u, m, cm, q
<1>3. /\ back = IF cm - m < 0 THEN cm - m + Modulus ELSE cm - m
      /\ forward = IF m - cm < 0 THEN m - cm + Modulus ELSE m - cm
  <2>1. ASSUME NEW a \in 0..(Modulus - 1), NEW b \in 0..(Modulus - 1)
        PROVE  (a - b) % Modulus = IF a - b < 0 THEN a - b + Modulus ELSE a - b
    <3>1. a - b \in Int /\ -Modulus < a - b /\ a - b < Modulus /\ a - b < 2 * Modulus
      BY <1>1
    <3> QED
      BY <3>1, Reduce
  <2> QED
    BY <1>1, <2>1
<1> HIDE DEF back, forward
<1>4. /\ Modulus * q \in Int
      /\ Modulus * (q - 1) = Modulus * q - Modulus
      /\ Modulus * (q + 1) = Modulus * q + Modulus
  BY <1>1
<1>5. u \in Nat
  BY <1>1, <1>2, <1>3
<1>6. \E k \in Int : u = Modulus * k + m
  <2>1. \/ u = Modulus * q + m \/ u = Modulus * (q - 1) + m \/ u = Modulus * (q + 1) + m
    BY <1>1, <1>2, <1>3, <1>4
  <2>2. q - 1 \in Int /\ q + 1 \in Int
    BY <1>1
  <2> QED
    BY <1>1, <2>1, <2>2, Zenon
<1>7. u % Modulus = m
  BY <1>1, <1>5, <1>6, Remainder, SMTT(30)
<1>8. ASSUME NEW v \in Nat, v % Modulus = m
      PROVE  Distance(u, c) <= Distance(v, c)
  <2> DEFINE p == v \div Modulus
  <2>1. p \in Int /\ v = Modulus * p + m
    BY <1>8, DivMod
  <2> HIDE DEF p
  <2>2. /\ Modulus * p \in Int
        /\ \/ p = q
           \/ Modulus * p >= Modulus * q + Modulus
           \/ Modulus * p <= Modulus * q - Modulus
    BY <1>1, <2>1, Multiple, Apart
  <2>3. v - c >= forward \/ c - v >= back
    BY <1>1, <1>3, <1>4, <2>1, <2>2
  <2>4. CASE m = cm
    BY <1>1, <1>2, <1>8, <2>4 DEF Distance
  <2>5. CASE m # cm /\ back < forward /\ c >= back
    BY <1>1, <1>2, <1>3, <1>8, <2>3, <2>5 DEF Distance
  <2>6. CASE m # cm /\ ~(back < forward /\ c >= back)
    BY <1>1, <1>2, <1>3, <1>8, <2>3, <2>6 DEF Distance
  <2> QED
    BY <2>4, <2>5, <2>6
<1> QED
  BY <1>5, <1>7, <1>8 DEF m, u

(* Every number on the wire is that of an absolute one. *)
LEMMA Wraps ==
  ASSUME NEW n \in WrappingInt32, NEW i \in WrappingInt32
  PROVE  minus(n, i) \in Nat /\ wrap(minus(n, i), i) = n
<1> DEFINE d == (n - i) % Modulus
<1>1. Modulus \in Nat \ {0} /\ i \in 0..(Modulus - 1) /\ n \in 0..(Modulus - 1)
  BY ModulusAssumption DEF WrappingInt32
<1>2. d = IF n - i < 0 THEN n - i + Modulus ELSE n - i
  BY <1>1, Reduce
<1> HIDE DEF d
<1>3. d \in 0..(Modulus - 1) /\ d % Modulus = d
  <2>1. d \in 0..(Modulus - 1)
    BY <1>1, <1>2
  <2> QED
    BY <1>1, <2>1, Reduce
<1>4. (i + d) % Modulus = n
  BY <1>1, <1>2, <1>3, Reduce
<1> QED
  BY <1>3, <1>4 DEF d, minus, wrap, plus

(***************************************************************************)
(* unwrap(n, isn, checkpoint) wraps to n, and no absolute number that does *)
(* is closer to the checkpoint (wrapping_integers.hh:30).                  *)
(***************************************************************************)
THEOREM Closest ==
  ASSUME NEW n \in WrappingInt32, NEW i \in WrappingInt32, NEW c \in Nat
  PROVE  /\ unwrap(n, i, c) \in Nat
         /\ wrap(unwrap(n, i, c), i) = n
         /\ \A v \in Nat : wrap(v, i) = n => Distance(unwrap(n, i, c), c) <= Distance(v, c)
<1> DEFINE value == minus(n, i)
           u == unwrap(wrap(value, i), i, c)
<1>1. value \in Nat
  BY Wraps
<1>n. n = wrap(value, i)
  BY Wraps
<1> HIDE DEF value
<1>2. /\ u \in Nat /\ u % Modulus = value % Modulus
      /\ \A v \in Nat : v % Modulus = value % Modulus => Distance(u, c) <= Distance(v, c)
  BY <1>1, Unwraps, Zenon
<1>u. u = unwrap(n, i, c)
  BY <1>n
<1> HIDE DEF u
<1>3. wrap(u, i) = n
  BY <1>n, <1>2 DEF wrap
<1>4. ASSUME NEW v \in Nat, wrap(v, i) = n
      PROVE  Distance(u, c) <= Distance(v, c)
  <2>1. v % Modulus = value % Modulus
    BY <1>1, <1>n, <1>4, Offset
  <2> QED
    BY <1>2, <2>1
<1> QED
  BY <1>2, <1>3, <1>4, <1>u

(***************************************************************************)
(* What the sender and the receiver rely on: an absolute number less than  *)
(* half the modulus away from the checkpoint survives wrap and unwrap.     *)
(***************************************************************************)
THEOREM RoundTrip ==
  ASSUME NEW value \in Nat, NEW i \in WrappingInt32, NEW c \in Nat,
         2 * Distance(value, c) < Modulus
  PROVE  unwrap(wrap(value, i), i, c) = value
<1> DEFINE u == unwrap(wrap(value, i), i, c)
           p == u \div Modulus
           q == value \div Modulus
           m == value % Modulus
<1>1. Modulus \in Nat
  BY ModulusAssumption
<1>2. u \in Nat /\ u % Modulus = m /\ Distance(u, c) <= Distance(value, c)
  BY Unwraps
<1> HIDE DEF u
<1>3. /\ p \in Int /\ q \in Int /\ m \in 0..(Modulus - 1)
      /\ u = Modulus * p + m /\ value = Modulus * q + m
  BY <1>2, DivMod
<1> HIDE DEF p, q, m
<1>4. u - value < Modulus /\ value - u < Modulus
  BY <1>1, <1>2 DEF Distance
<1>5. Modulus * p \in Int /\ Modulus * q \in Int
  BY <1>3, Multiple
<1>6. p = q
  BY <1>1, <1>3, <1>4, <1>5, Apart
<1> QED
  BY <1>3, <1>6 DEF u

=============================================================================
