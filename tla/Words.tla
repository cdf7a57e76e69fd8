-------------------------------- MODULE Words --------------------------------
(***************************************************************************)
(* The bit operators of Rust on words of 16 bits, digit by digit of their  *)
(* hexadecimal notation, in which the masks of the code are written.       *)
(***************************************************************************)
EXTENDS Integers

Digit(n, place) == (n \div place) % 16

(* A digit as the set of the weights of its bits, and back.                *)
Bits(n) == {w \in {1, 2, 4, 8} : (n \div w) % 2 = 1}

DigitOf(bits) ==
  LET Weight(w) == IF w \in bits THEN w ELSE 0
  IN Weight(8) + Weight(4) + Weight(2) + Weight(1)

AndDigit(a, b) == DigitOf(Bits(a) \cap Bits(b))
OrDigit(a, b)  == DigitOf(Bits(a) \cup Bits(b))
XorDigit(a, b) == DigitOf((Bits(a) \cup Bits(b)) \ (Bits(a) \cap Bits(b)))

And(m, n) ==
  LET At(place) == AndDigit(Digit(m, place), Digit(n, place))
  IN (4096 * At(4096)) + (256 * At(256)) + (16 * At(16)) + At(1)

Or(m, n) ==
  LET At(place) == OrDigit(Digit(m, place), Digit(n, place))
  IN (4096 * At(4096)) + (256 * At(256)) + (16 * At(16)) + At(1)

Xor(m, n) ==
  LET At(place) == XorDigit(Digit(m, place), Digit(n, place))
  IN (4096 * At(4096)) + (256 * At(256)) + (16 * At(16)) + At(1)
=============================================================================
