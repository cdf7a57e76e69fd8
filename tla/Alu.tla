--------------------------------- MODULE Alu ---------------------------------
(***************************************************************************)
(* The arithmetic of the 6502 (mos6502/src/cpu.rs, common/src/lib.rs): how *)
(* a byte is added, subtracted, compared, shifted and rotated, and which   *)
(* flags come out.  The width is a parameter: Sign is the weight of the    *)
(* sign bit, 128 in the code.  A flag is 0 or 1, as in Cpu.flags.          *)
(* Definitions marked "Mutant", here and in the modules above, are         *)
(* variants a bug in the code would make: no specification uses them, each *)
(* of them breaks a property of the runs.                                  *)
(***************************************************************************)
EXTENDS Integers

CONSTANT Sign

ASSUME SignAssumption == Sign \in Nat \ {0}

Byte == 0 .. 2*Sign - 1
Carry == {0, 1}

Flag(condition) == IF condition THEN 1 ELSE 0

Wrap(n) == n % (2*Sign) \* wrapping_add, wrapping_sub and overflowing_add

is_signed(n) == n >= Sign

is_overflow(res, lhs, rhs) ==
  \/ is_signed(lhs) /\ is_signed(rhs) /\ ~is_signed(res)
  \/ ~is_signed(lhs) /\ ~is_signed(rhs) /\ is_signed(res)

(* Mutant: a carry out of the first of the two additions is lost.          *)
add_with_carryOfOneStep(lhs, rhs, carry) ==
  LET res == Wrap(lhs + carry + rhs)
  IN [res |-> res,
      V |-> Flag(is_overflow(res, lhs, rhs)),
      C |-> Flag(Wrap(lhs + carry) + rhs >= 2*Sign)]

add_with_carry(lhs, rhs, carry) ==
  LET step1 == Wrap(lhs + carry)
      res == Wrap(step1 + rhs)
  IN [res |-> res,
      V |-> Flag(is_overflow(res, lhs, rhs)),
      C |-> Flag(lhs + carry >= 2*Sign \/ step1 + rhs >= 2*Sign)]

Complement(n) == 2*Sign - 1 - n \* rhs ^ 0xff

sub_with_borrow(lhs, rhs, carry) == add_with_carry(lhs, Complement(rhs), carry)

cmp(lhs, rhs) == [res |-> Wrap(lhs - rhs), C |-> Flag(lhs >= rhs)]

shift_right(val) == [res |-> val \div 2, C |-> val % 2]

shift_left(val) == [res |-> Wrap(2*val), C |-> Flag(is_signed(val))]

rotate_left(val, carry) ==
  [res |-> shift_left(val).res + carry, C |-> shift_left(val).C]

rotate_right(val, carry) ==
  [res |-> shift_right(val).res + (Sign * carry), C |-> shift_right(val).C]

(* offset as i8 *)
Signed(n) == IF is_signed(n) THEN n - 2*Sign ELSE n
=============================================================================
