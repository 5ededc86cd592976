-------------------------- MODULE WrappingIntegers --------------------------
(***************************************************************************)
(* libsponge/wrapping_integers.hh, .cc: sequence numbers on the wire are   *)
(* WrappingInt32, numbers modulo 2^32 relative to an initial sequence      *)
(* number; inside, they are absolute 64-bit numbers.                       *)
(***************************************************************************)
EXTENDS Integers

CONSTANT Modulus   \* 2^32 in the code

ASSUME ModulusAssumption == Modulus \in Nat \ {0}

WrappingInt32 == 0..(Modulus - 1)

(* operator+ and operator-, which returns an uint32_t. *)
plus(a, b) == (a + b) % Modulus

minus(a, b) == (a - b) % Modulus

wrap(n, isn) == plus(isn, n % Modulus)

(* Faulty: goes back below zero. *)
unwrap_below_zero(n, isn, checkpoint) ==
  LET back    == minus(checkpoint % Modulus, minus(n, isn))
      forward == minus(minus(n, isn), checkpoint % Modulus)
  IN  IF back < forward THEN checkpoint - back ELSE checkpoint + forward

unwrap(n, isn, checkpoint) ==
  LET checkpoint_mod == checkpoint % Modulus
      index   == minus(n, isn)
      back    == minus(checkpoint_mod, index)
      forward == minus(index, checkpoint_mod)
  IN  IF index = checkpoint_mod THEN checkpoint
      ELSE IF back < forward /\ checkpoint >= back THEN checkpoint - back
      ELSE checkpoint + forward

(* How far two absolute numbers are apart: what "closest" is about. *)
Distance(a, b) == IF a <= b THEN b - a ELSE a - b

=============================================================================
