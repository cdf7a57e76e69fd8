--------------------------- MODULE Debugger_proofs ---------------------------
(***************************************************************************)
(* The CPU and its debugger, for every program in memory, every machine to *)
(* start from and every set of breakpoints: what the arithmetic computes,  *)
(* that every instruction and interrupt keeps the registers, flags and     *)
(* memory of a CPU, that what an instruction adds or subtracts is exact,   *)
(* and that the debugger stops.                                            *)
(***************************************************************************)
EXTENDS Debugger, SequenceTheorems, FiniteSetTheorems, TLAPS

-----------------------------------------------------------------------------
(* The arithmetic.  Nothing here needs more of Sign than SignAssumption.   *)

(* A value that is less than two bytes' worth wraps by one byte's worth.   *)
LEMMA WrapOnce ==
  ASSUME NEW n \in Nat, n < 4*Sign
  PROVE  Wrap(n) = IF n >= 2*Sign THEN n - 2*Sign ELSE n
<1> DEFINE m == 2*Sign
           q == n \div m
<1>1. m \in Nat \ {0} /\ n < 2*m
  BY SignAssumption
<1>2. n % m \in 0 .. m - 1 /\ q \in Nat /\ n = m*q + (n % m)
  <2> HIDE DEF m
  <2> QED BY <1>1
<1> HIDE DEF m, q
<1>3. q \in {0, 1}
  <2>1. SUFFICES ASSUME q >= 2 PROVE FALSE
    BY <1>2
  <2>2. m*q >= m*2
    BY <1>1, <1>2, <2>1
  <2> QED BY <1>1, <1>2, <2>2
<1>4. CASE q = 0
  BY <1>1, <1>2, <1>4 DEF Wrap, m
<1>5. CASE q = 1
  BY <1>1, <1>2, <1>5 DEF Wrap, m
<1> QED BY <1>3, <1>4, <1>5

(* add_with_carry: the result and the carry together are the sum of the    *)
(* two bytes and the carry that came in.                                   *)
THEOREM AdditionIsExact ==
  ASSUME NEW lhs \in Byte, NEW rhs \in Byte, NEW carry \in Carry
  PROVE  LET sum == add_with_carry(lhs, rhs, carry)
         IN /\ sum.res \in Byte /\ sum.C \in Carry
            /\ sum.res + (2*Sign)*sum.C = lhs + rhs + carry
<1> DEFINE step1 == Wrap(lhs + carry)
           res == Wrap(step1 + rhs)
<1>1. /\ step1 \in Byte
      /\ step1 = IF lhs + carry >= 2*Sign THEN lhs + carry - 2*Sign ELSE lhs + carry
  BY WrapOnce, SignAssumption DEF Byte, Carry
<1>2. /\ res \in Byte
      /\ res = IF step1 + rhs >= 2*Sign THEN step1 + rhs - 2*Sign ELSE step1 + rhs
  <2> HIDE DEF step1
  <2> QED BY <1>1, WrapOnce, SignAssumption DEF Byte
<1>3. ~(lhs + carry >= 2*Sign /\ step1 + rhs >= 2*Sign)
  <2> HIDE DEF step1
  <2> QED BY <1>1, SignAssumption DEF Byte, Carry
<1>4. add_with_carry(lhs, rhs, carry).res = res
  BY DEF add_with_carry
<1>5. add_with_carry(lhs, rhs, carry).C
        = IF lhs + carry >= 2*Sign \/ step1 + rhs >= 2*Sign THEN 1 ELSE 0
  BY DEF add_with_carry, Flag
<1> HIDE DEF step1, res
<1>6. CASE lhs + carry >= 2*Sign
  <2>1. add_with_carry(lhs, rhs, carry).C = 1
    BY <1>5, <1>6
  <2>2. res = lhs + carry - 2*Sign + rhs
    BY <1>1, <1>2, <1>3, <1>6, SignAssumption DEF Byte, Carry
  <2> QED BY <2>1, <2>2, <1>2, <1>4, SignAssumption DEF Byte, Carry
<1>7. CASE ~(lhs + carry >= 2*Sign) /\ step1 + rhs >= 2*Sign
  <2>1. add_with_carry(lhs, rhs, carry).C = 1
    BY <1>5, <1>7
  <2>2. res = lhs + carry + rhs - 2*Sign
    BY <1>1, <1>2, <1>7, SignAssumption DEF Byte, Carry
  <2> QED BY <2>1, <2>2, <1>2, <1>4, SignAssumption DEF Byte, Carry
<1>8. CASE ~(lhs + carry >= 2*Sign) /\ ~(step1 + rhs >= 2*Sign)
  <2>1. add_with_carry(lhs, rhs, carry).C = 0
    BY <1>5, <1>8
  <2>2. res = lhs + carry + rhs
    BY <1>1, <1>2, <1>8, SignAssumption DEF Byte, Carry
  <2> QED BY <2>1, <2>2, <1>2, <1>4, SignAssumption DEF Byte, Carry
<1> QED BY <1>6, <1>7, <1>8

(* is_overflow: V is set just when the signed sum does not fit, and when   *)
(* it fits the result is that sum.                                         *)
THEOREM OverflowIsSignedOverflow ==
  ASSUME NEW lhs \in Byte, NEW rhs \in Byte, NEW carry \in Carry
  PROVE  LET sum == add_with_carry(lhs, rhs, carry)
             signedSum == Signed(lhs) + Signed(rhs) + carry
         IN /\ sum.V = Flag(signedSum \notin -Sign .. Sign - 1)
            /\ sum.V = 0 => Signed(sum.res) = signedSum
<1> DEFINE sum == add_with_carry(lhs, rhs, carry)
<1>1. /\ sum.res \in Byte /\ sum.C \in Carry
      /\ sum.res + (2*Sign)*sum.C = lhs + rhs + carry
  BY AdditionIsExact
<1>2. sum.V = Flag(is_overflow(sum.res, lhs, rhs))
  BY DEF add_with_carry
<1> HIDE DEF sum
<1>3. /\ sum.res \in Int /\ lhs \in Int /\ rhs \in Int /\ carry \in {0, 1}
      /\ 0 <= sum.res /\ sum.res < 2*Sign
      /\ 0 <= lhs /\ lhs < 2*Sign /\ 0 <= rhs /\ rhs < 2*Sign
      /\ \/ sum.res = lhs + rhs + carry
         \/ sum.res = lhs + rhs + carry - 2*Sign
  BY <1>1, SignAssumption DEF Byte, Carry
<1>4. CASE lhs >= Sign /\ rhs >= Sign
  BY <1>2, <1>3, <1>4, SignAssumption DEF is_overflow, is_signed, Signed, Flag, sum
<1>5. CASE lhs >= Sign /\ ~(rhs >= Sign)
  BY <1>2, <1>3, <1>5, SignAssumption DEF is_overflow, is_signed, Signed, Flag, sum
<1>6. CASE ~(lhs >= Sign) /\ rhs >= Sign
  BY <1>2, <1>3, <1>6, SignAssumption DEF is_overflow, is_signed, Signed, Flag, sum
<1>7. CASE ~(lhs >= Sign) /\ ~(rhs >= Sign)
  BY <1>2, <1>3, <1>7, SignAssumption DEF is_overflow, is_signed, Signed, Flag, sum
<1> QED BY <1>4, <1>5, <1>6, <1>7

(* sub_with_borrow ("Do not understand how this works, but it works"):     *)
(* adding the complement subtracts, and the carry is the absence of a      *)
(* borrow.                                                                 *)
THEOREM SubtractionIsExact ==
  ASSUME NEW lhs \in Byte, NEW rhs \in Byte, NEW carry \in Carry
  PROVE  LET difference == sub_with_borrow(lhs, rhs, carry)
             signedDifference == Signed(lhs) - Signed(rhs) - (1 - carry)
         IN /\ difference.res \in Byte /\ difference.C \in Carry
            /\ difference.res =
                 lhs - rhs - (1 - carry) + (2*Sign)*(1 - difference.C)
            /\ difference.V = Flag(signedDifference \notin -Sign .. Sign - 1)
            /\ difference.V = 0 => Signed(difference.res) = signedDifference
<1> DEFINE other == Complement(rhs)
           sum == add_with_carry(lhs, other, carry)
<1>1. other \in Byte /\ other = 2*Sign - 1 - rhs
  BY SignAssumption DEF Byte, Complement
<1>2. Signed(other) = -1 - Signed(rhs)
  BY <1>1, SignAssumption DEF Byte, Signed, is_signed
<1> HIDE DEF other
<1>3. /\ sum.res \in Byte /\ sum.C \in Carry
      /\ sum.res + (2*Sign)*sum.C = lhs + other + carry
  BY <1>1, AdditionIsExact
<1>4. /\ sum.V = Flag(Signed(lhs) + Signed(other) + carry \notin -Sign .. Sign - 1)
      /\ sum.V = 0 => Signed(sum.res) = Signed(lhs) + Signed(other) + carry
  BY <1>1, OverflowIsSignedOverflow
<1>5. sub_with_borrow(lhs, rhs, carry) = sum
  BY DEF sub_with_borrow, other
<1> HIDE DEF sum
<1>6. Signed(lhs) + Signed(other) + carry = Signed(lhs) - Signed(rhs) - (1 - carry)
  BY <1>2, SignAssumption DEF Byte, Carry, Signed, is_signed
<1>7. sum.res = lhs - rhs - (1 - carry) + (2*Sign)*(1 - sum.C)
  BY <1>1, <1>3, SignAssumption DEF Byte, Carry
<1> QED BY <1>3, <1>4, <1>5, <1>6, <1>7

(* Rotating left and then right, or right and then left, through the carry *)
(* gives the byte and the carry back: no bit is lost on the way.           *)
THEOREM RotationsAreInverse ==
  ASSUME NEW val \in Byte, NEW carry \in Carry
  PROVE  LET left == rotate_left(val, carry)
             right == rotate_right(val, carry)
         IN /\ left.res \in Byte /\ right.res \in Byte
            /\ rotate_right(left.res, left.C) = [res |-> val, C |-> carry]
            /\ rotate_left(right.res, right.C) = [res |-> val, C |-> carry]
<1>1. /\ 2*val \in Nat /\ 2*val < 4*Sign
      /\ val \in Nat /\ val < 2*Sign /\ carry \in {0, 1}
  BY SignAssumption DEF Byte, Carry
<1>2. Wrap(2*val) = IF val >= Sign THEN 2*val - 2*Sign ELSE 2*val
  BY <1>1, WrapOnce, SignAssumption
<1>3. \A a \in Nat, c \in {0, 1} : (2*a + c) \div 2 = a /\ (2*a + c) % 2 = c
  OBVIOUS
<1>4. PICK half \in Nat, bit \in {0, 1} : val = 2*half + bit
  <2>1. val \div 2 \in Nat /\ val % 2 \in {0, 1} /\ val = 2*(val \div 2) + (val % 2)
    BY <1>1
  <2> QED BY <2>1
<1>5. val \div 2 = half /\ val % 2 = bit /\ half < Sign
  BY <1>1, <1>3, <1>4, SignAssumption
<1>6. rotate_left(val, carry) = [res |-> (IF val >= Sign THEN 2*val - 2*Sign ELSE 2*val) + carry,
                                 C |-> IF val >= Sign THEN 1 ELSE 0]
  BY <1>2 DEF rotate_left, shift_left, is_signed, Flag
<1>7. rotate_right(val, carry) = [res |-> half + (Sign * carry), C |-> bit]
  BY <1>5 DEF rotate_right, shift_right
<1>8. rotate_left(val, carry).res \in Byte /\ rotate_right(val, carry).res \in Byte
  BY <1>1, <1>5, <1>6, <1>7, SignAssumption DEF Byte
<1>9. rotate_right(rotate_left(val, carry).res, rotate_left(val, carry).C)
        = [res |-> val, C |-> carry]
  <2>1. CASE val >= Sign
    <3>1. val - Sign \in Nat /\ rotate_left(val, carry).res = 2*(val - Sign) + carry
      BY <1>1, <1>6, <2>1, SignAssumption
    <3>2. rotate_left(val, carry).res \div 2 = val - Sign
          /\ rotate_left(val, carry).res % 2 = carry
      BY <1>1, <1>3, <3>1
    <3>3. rotate_left(val, carry).C = 1
      BY <1>6, <2>1
    <3>4. (val - Sign) + (Sign * 1) = val
      BY <1>1, SignAssumption
    <3> QED BY <3>2, <3>3, <3>4 DEF rotate_right, shift_right
  <2>2. CASE ~(val >= Sign)
    <3>1. rotate_left(val, carry).res = 2*val + carry
      BY <1>6, <2>2
    <3>2. rotate_left(val, carry).res \div 2 = val
          /\ rotate_left(val, carry).res % 2 = carry
      BY <1>1, <1>3, <3>1
    <3>3. rotate_left(val, carry).C = 0
      BY <1>6, <2>2
    <3>4. val + (Sign * 0) = val
      BY <1>1, SignAssumption
    <3> QED BY <3>2, <3>3, <3>4 DEF rotate_right, shift_right
  <2> QED BY <2>1, <2>2
<1>10. rotate_left(rotate_right(val, carry).res, rotate_right(val, carry).C)
         = [res |-> val, C |-> carry]
  <2> DEFINE r == half + (Sign * carry)
  <2>1. r \in Nat /\ r < 2*Sign /\ (r >= Sign <=> carry = 1)
    BY <1>1, <1>5, SignAssumption
  <2>2. Wrap(2*r) = 2*half
    <3>1. 2*r \in Nat /\ 2*r < 4*Sign
      BY <2>1, SignAssumption
    <3>2. Wrap(2*r) = IF 2*r >= 2*Sign THEN 2*r - 2*Sign ELSE 2*r
      <4> HIDE DEF r
      <4> QED BY <3>1, WrapOnce
    <3>3. CASE carry = 1
      BY <2>1, <3>2, <3>3, <1>5, SignAssumption
    <3>4. CASE carry = 0
      BY <2>1, <3>2, <3>4, <1>5, SignAssumption
    <3> QED BY <1>1, <3>3, <3>4
  <2>3. Flag(is_signed(r)) = carry
    <3> HIDE DEF r
    <3> QED BY <1>1, <2>1 DEF Flag, is_signed
  <2>4. rotate_left(r, bit) = [res |-> 2*half + bit, C |-> carry]
    BY <2>2, <2>3 DEF rotate_left, shift_left
  <2> QED BY <1>4, <1>7, <2>4
<1> QED BY <1>8, <1>9, <1>10

-----------------------------------------------------------------------------
(* The table of the instructions: which modes an opcode comes with.        *)

Combining == {"ADC", "SBC", "USBC", "AND", "ORA", "EOR", "CMP", "CPX", "CPY"}
Readers == DOMAIN LoadedBy \union {"LAX", "BIT", "ANC", "ANC2", "ALR"} \union Combining
Writers == {"STA", "STX", "STY", "SAX", "JMP", "JSR", "DEC", "INC"} \union DOMAIN Combination
Shifts == {"LSR", "ASL", "ROL", "ROR"}
Others == {"JAM", "NOP", "TXS", "RTS", "BRK", "RTI", "PHA", "PHP", "PLA", "PLP"}
            \union DOMAIN CountedBy \union DOMAIN FlagOps
            \union DOMAIN Moves \union DOMAIN BranchesOn

Legal(op, mode) ==
  \/ op \in Readers /\ mode \in Addressed \union {"Imm"}
  \/ op \in Writers /\ mode \in Addressed
  \/ op \in Shifts /\ mode \in Addressed \union {"Impl"}
  \/ op \in Others

LegalRow(row) == Legal(row.op, row.mode) /\ row.cycles \in Nat

(* A family is legal if its modes are for its opcodes.                     *)
LEMMA LegalFamily ==
  ASSUME NEW op, NEW base, NEW modes,
         \A m \in modes : Legal(op, m[2]) /\ m[3] \in Nat
  PROVE  \A row \in Family(op, base, modes) : LegalRow(row)
BY DEF Family, Row, LegalRow

LEMMA LegalFamilies ==
  ASSUME NEW bases, NEW modes,
         \A op \in DOMAIN bases, m \in modes : Legal(op, m[2]) /\ m[3] \in Nat
  PROVE  \A row \in Families(bases, modes) : LegalRow(row)
BY LegalFamily DEF Families

LEMMA LegalImplied ==
  ASSUME NEW bytes, NEW cycles \in Nat, \A op \in DOMAIN bytes : Legal(op, "Impl")
  PROVE  \A row \in Implied(bytes, cycles) : LegalRow(row)
BY DEF Implied, Row, LegalRow

LEMMA LegalRowIs ==
  ASSUME NEW byte, NEW op, NEW mode, NEW cycles \in Nat, Legal(op, mode)
  PROVE  LegalRow(Row(byte, op, mode, cycles))
BY DEF Row, LegalRow

LEMMA FlagRowsLegal == \A row \in FlagRows : LegalRow(row)
<1> USE DEF Legal, Readers, Combining, Writers, Shifts, Others, Addressed,
            CountedBy, FlagOps, LoadedBy, Moves, BranchesOn, Combination
<1>1. \A row \in {Row(b, "JAM", "Impl", 0) : b \in JamBytes} : LegalRow(row)
  BY LegalRowIs
<1>2. \A row \in Implied([BRK |-> \h00], 7) \union Implied([RTI |-> \h40], 6) : LegalRow(row)
  BY LegalImplied
<1>3. \A row \in Implied([SEC |-> \h38, SED |-> \hf8, SEI |-> \h78, CLC |-> \h18,
                          CLD |-> \hd8, CLI |-> \h58, CLV |-> \hb8, TAX |-> \haa,
                          TAY |-> \ha8, TSX |-> \hba, TXA |-> \h8a, TXS |-> \h9a,
                          TYA |-> \h98], 2) : LegalRow(row)
  BY LegalImplied
<1>4. \A row \in Family("BIT", \h24, {<<0, "Zero", 3>>, <<8, "Abs", 4>>}) : LegalRow(row)
  BY LegalFamily
<1>5. QED
  BY <1>1, <1>2, <1>3, <1>4 DEF FlagRows

LEMMA AccumulatorRowsLegal == \A row \in AccumulatorRows : LegalRow(row)
<1> USE DEF Legal, Readers, Combining, Addressed, LoadedBy
<1>1. \A row \in Families([ORA |-> \h00, AND |-> \h20, EOR |-> \h40, ADC |-> \h60,
                           LDA |-> \ha0, SBC |-> \he0], AccumulatorModes) : LegalRow(row)
  BY LegalFamilies DEF AccumulatorModes
<1>2. \A row \in Family("LDX", \ha2, {<<0, "Imm", 2>>, <<4, "Zero", 3>>,
           <<\h14, "ZeroY", 4>>, <<\h0c, "Abs", 4>>, <<\h1c, "AbsY", 4>>}) : LegalRow(row)
  BY LegalFamily
<1>3. \A row \in Family("LDY", \ha0, {<<0, "Imm", 2>>, <<4, "Zero", 3>>,
           <<\h14, "ZeroX", 4>>, <<\h0c, "Abs", 4>>, <<\h1c, "AbsX", 4>>}) : LegalRow(row)
  BY LegalFamily
<1>4. QED
  BY <1>1, <1>2, <1>3 DEF AccumulatorRows

LEMMA StoreAndJumpRowsLegal == \A row \in StoreAndJumpRows : LegalRow(row)
<1> USE DEF Legal, Writers, Others, Addressed, Combination, CountedBy, BranchesOn,
            FlagOps, Moves
<1>1. \A row \in Family("STA", \h85, StoreModes("ZeroX") \union
           {<<\h18, "AbsX", 5>>, <<\h14, "AbsY", 5>>, <<-4, "IndX", 6>>,
            <<\h0c, "IndY", 6>>}) : LegalRow(row)
  BY LegalFamily DEF StoreModes
<1>2. \A row \in Family("STX", \h86, StoreModes("ZeroY"))
                 \union Family("STY", \h84, StoreModes("ZeroX")) : LegalRow(row)
  BY LegalFamily DEF StoreModes
<1>3. \A row \in {Row(\h4c, "JMP", "Abs", 3), Row(\h6c, "JMP", "Ind", 5),
                  Row(\h20, "JSR", "Abs", 6), Row(\h60, "RTS", "Impl", 6)} : LegalRow(row)
  BY LegalRowIs
<1>4. \A row \in Families([BPL |-> \h10, BMI |-> \h30, BVC |-> \h50, BVS |-> \h70,
                           BCC |-> \h90, BCS |-> \hb0, BNE |-> \hd0, BEQ |-> \hf0],
                          {<<0, "Rel", 2>>}) : LegalRow(row)
  BY LegalFamilies
<1>5. \A row \in Implied([DEX |-> \hca, DEY |-> \h88, INX |-> \he8, INY |-> \hc8], 2) :
        LegalRow(row)
  BY LegalImplied
<1>6. QED
  BY <1>1, <1>2, <1>3, <1>4, <1>5 DEF StoreAndJumpRows

LEMMA NopRowsLegal == \A row \in NopRows : LegalRow(row)
<1> USE DEF Legal, Writers, Others, Addressed
<1>1. \A row \in Families([DEC |-> \hc0, INC |-> \he0], MemoryModes) : LegalRow(row)
  BY LegalFamilies DEF MemoryModes
<1>2. \A byte, mode : \A cycles \in Nat : LegalRow(Row(byte, "NOP", mode, cycles))
  BY LegalRowIs
<1>3. QED
  BY <1>1, <1>2 DEF NopRows

LEMMA CompareAndShiftRowsLegal == \A row \in CompareAndShiftRows : LegalRow(row)
<1> USE DEF Legal, Readers, Combining, Shifts, Others, Addressed
<1>1. \A row \in Families([CPY |-> \hc0, CPX |-> \he0],
           {<<0, "Imm", 2>>, <<4, "Zero", 3>>, <<\h0c, "Abs", 4>>}) : LegalRow(row)
  BY LegalFamilies
<1>2. \A row \in Family("CMP", \hc0, AccumulatorModes) : LegalRow(row)
  BY LegalFamily DEF AccumulatorModes
<1>3. \A row \in Families([ASL |-> \h00, ROL |-> \h20, LSR |-> \h40, ROR |-> \h60],
                MemoryModes \union {<<\h0a, "Impl", 2>>}) : LegalRow(row)
  BY LegalFamilies DEF MemoryModes
<1>4. \A row \in Implied([PHA |-> \h48, PHP |-> \h08], 3)
                 \union Implied([PLA |-> \h68, PLP |-> \h28], 4) : LegalRow(row)
  BY LegalImplied
<1>5. QED
  BY <1>1, <1>2, <1>3, <1>4 DEF CompareAndShiftRows

LEMMA IllegalRowsLegal == \A row \in IllegalRows : LegalRow(row)
<1> USE DEF Legal, Readers, Combining, Writers, Others, Addressed, Combination
<1>1. \A row \in Family("LAX", \ha0, {<<7, "Zero", 3>>, <<\h17, "ZeroY", 4>>,
           <<\h0f, "Abs", 4>>, <<\h1f, "AbsY", 4>>, <<3, "IndX", 6>>,
           <<\h13, "IndY", 5>>}) : LegalRow(row)
  BY LegalFamily
<1>2. \A row \in Family("SAX", \h80, {<<7, "Zero", 3>>, <<\h17, "ZeroY", 4>>,
           <<\h0f, "Abs", 4>>, <<3, "IndX", 6>>}) : LegalRow(row)
  BY LegalFamily
<1>3. \A row \in Families([SLO |-> \h00, RLA |-> \h20, SRE |-> \h40, RRA |-> \h60,
                  DCP |-> \hc0, ISC |-> \he0], CombinedModes) : LegalRow(row)
  BY LegalFamilies DEF CombinedModes
<1>4. \A row \in Families([SLO |-> \h00, RLA |-> \h20, SRE |-> \h40, RRA |-> \h60,
                  DCP |-> \hc0], {<<\h13, "IndY", 8>>}) : LegalRow(row)
  BY LegalFamilies
<1>5. \A row \in {Row(\hf3, "ISC", "IndY", 4), Row(\heb, "USBC", "Imm", 2),
          Row(\h0b, "ANC", "Imm", 2), Row(\h2b, "ANC2", "Imm", 2),
          Row(\h4b, "ALR", "Imm", 2)} : LegalRow(row)
  BY LegalRowIs
<1>6. \A row \in {Row(b, "NOP", "Impl", 2) : b \in {\hda, \h5a, \hfa, \h7a}} : LegalRow(row)
  BY LegalRowIs
<1>7. QED
  BY <1>1, <1>2, <1>3, <1>4, <1>5, <1>6 DEF IllegalRows

(* What is disassembled from a known opcode and two bytes.                 *)
Instruction(inst) ==
  /\ Legal(inst.op, inst.mode) /\ inst.cycles \in Nat /\ inst.size \in 1 .. 3
  /\ inst.operands[1] \in Byte /\ inst.operands[2] \in Byte

LEMMA Disassembled ==
  ASSUME NEW opbyte \in Known, NEW operand1 \in Byte, NEW operand2 \in Byte
  PROVE  Instruction(disassemble(opbyte, operand1, operand2))
<1>1. RowOf[opbyte] \in Rows
  BY DEF RowOf, Known
<1>2. LegalRow(RowOf[opbyte])
  BY <1>1, FlagRowsLegal, AccumulatorRowsLegal, StoreAndJumpRowsLegal, NopRowsLegal,
     CompareAndShiftRowsLegal, IllegalRowsLegal DEF Rows
<1>3. SizeOf(RowOf[opbyte]) \in {1, 2, 3}
  BY Zenon DEF SizeOf
<1>4. SizeOf(RowOf[opbyte]) \in 1 .. 3
  BY <1>3
<1>5. QED
  BY <1>2, <1>4 DEF disassemble, Instruction, LegalRow

-----------------------------------------------------------------------------
(* What the CPU is made of keeps it a CPU.                                 *)

LEMMA Space == AddressSpace = 65536
BY DEF AddressSpace

LEMMA ByteOfIsByte == ASSUME NEW bits PROVE ByteOf(bits) \in Byte
BY SignIsBit7 DEF ByteOf, Byte

LEMMA ByteIsNat == ASSUME NEW x \in Byte PROVE x \in Nat /\ x < 256
BY SignIsBit7 DEF Byte

LEMMA Address == ASSUME NEW n \in Nat, n < 65536 PROVE n \in Addresses
<1>1. AddressSpace \in Nat /\ n < AddressSpace
  BY Space
<1>2. QED
  BY <1>1 DEF Addresses

LEMMA WordIsAddress == ASSUME NEW n \in Int PROVE Word(n) \in Addresses
<1>1. n % 65536 \in Nat /\ n % 65536 < 65536
  OBVIOUS
<1>2. Word(n) = n % 65536
  BY Space DEF Word
<1> QED BY <1>1, <1>2, Address

LEMMA StackIsMemory == ASSUME NEW x \in Byte PROVE STACK_TOP + x \in Addresses
<1>1. STACK_TOP + x \in Nat /\ STACK_TOP + x < 65536
  BY ByteIsNat DEF STACK_TOP
<1>2. QED
  BY <1>1, Address

LEMMA WordIsTwoBytes ==
  ASSUME NEW x \in Byte, NEW y \in Byte
  PROVE  x + (256 * y) \in Addresses
<1>1. x + (256 * y) \in Nat /\ x + (256 * y) < 65536
  BY ByteIsNat
<1>2. QED
  BY <1>1, Address

LEMMA BytesOfAWord ==
  ASSUME NEW a \in Addresses
  PROVE  a \in Nat /\ a \div 256 \in Byte /\ a % 256 \in Byte
<1>1. a \in Nat /\ a < 65536
  <2>1. AddressSpace \in Nat
    BY Space
  <2>2. a \in Nat /\ a < AddressSpace
    BY <2>1 DEF Addresses
  <2> QED BY <2>2, Space
<1>2. a \div 256 \in Nat /\ a \div 256 < 256 /\ a % 256 \in Nat /\ a % 256 < 256
  BY <1>1
<1>3. QED
  BY <1>1, <1>2, SignIsBit7 DEF Byte

LEMMA WrapIsByte == ASSUME NEW n \in Int PROVE Wrap(n) \in Byte
BY SignIsBit7 DEF Wrap, Byte

LEMMA ReadByte == ASSUME NEW c, IsCpu(c), NEW a PROVE read8(c, a) \in Byte
BY SignIsBit7 DEF IsCpu, read8, Byte

LEMMA ReadWord == ASSUME NEW c, IsCpu(c), NEW a PROVE read16(c, a) \in Addresses
BY ReadByte, WordIsTwoBytes DEF read16

LEMMA WriteKeeps ==
  ASSUME NEW c, IsCpu(c), NEW v \in Byte, NEW a \in Addresses
  PROVE  /\ IsCpu(write8(c, v, a))
         /\ read8(write8(c, v, a), a) = v
         /\ write8(c, v, a).r = c.r /\ write8(c, v, a).f = c.f
         /\ write8(c, v, a).pc = c.pc
<1> DEFINE w == write8(c, v, a)
<1>1. /\ DOMAIN w = DOMAIN c /\ w.pc = c.pc /\ w.r = c.r /\ w.f = c.f
      /\ w.extra = c.extra /\ w.cycles = c.cycles
      /\ w.mem = [x \in DOMAIN c.mem \cup {a} |-> IF x = a THEN v ELSE c.mem[x]]
  BY DEF write8, IsCpu
<1>2. /\ DOMAIN w.mem = DOMAIN c.mem \union {a}
      /\ \A x \in DOMAIN w.mem : w.mem[x] = IF x = a THEN v ELSE c.mem[x]
  BY <1>1
<1>3. QED
  BY <1>1, <1>2 DEF IsCpu, read8

LEMMA SetFlagsKeep ==
  ASSUME NEW c, IsCpu(c), NEW g \in [DOMAIN BitOf -> Carry]
  PROVE  IsCpu([c EXCEPT !.f = g])
BY DEF IsCpu

LEMMA SetRegsKeep ==
  ASSUME NEW c, IsCpu(c), NEW s \in [Registers -> Byte]
  PROVE  IsCpu([c EXCEPT !.r = s])
BY DEF IsCpu

LEMMA JumpKeeps ==
  ASSUME NEW c, IsCpu(c), NEW pc \in Addresses
  PROVE  IsCpu([c EXCEPT !.pc = pc])
BY DEF IsCpu

LEMMA NegZeroKeeps ==
  ASSUME NEW c, IsCpu(c), NEW res
  PROVE  /\ IsCpu(flags_set_neg_zero(c, res))
         /\ flags_set_neg_zero(c, res).r = c.r
         /\ flags_set_neg_zero(c, res).f.C = c.f.C
         /\ flags_set_neg_zero(c, res).f.V = c.f.V
         /\ flags_set_neg_zero(c, res).mem = c.mem
         /\ flags_set_neg_zero(c, res).pc = c.pc
BY DEF flags_set_neg_zero, IsCpu, Flag, Carry, BitOf

LEMMA SetRegKeeps ==
  ASSUME NEW c, IsCpu(c), NEW v \in Byte, NEW reg \in Registers
  PROVE  /\ IsCpu(SetReg(c, reg, v))
         /\ SetReg(c, reg, v).r[reg] = v
         /\ SetReg(c, reg, v).f.C = c.f.C
         /\ SetReg(c, reg, v).f.V = c.f.V
         /\ SetReg(c, reg, v).mem = c.mem
BY DEF SetReg, flags_set_neg_zero, IsCpu, Flag, Carry, BitOf, Registers

LEMMA PushKeeps ==
  ASSUME NEW c, IsCpu(c), NEW v \in Byte
  PROVE  IsCpu(push(c, v)) /\ push(c, v).f = c.f /\ push(c, v).pc = c.pc
<1> DEFINE a == STACK_TOP + c.r.SP
           w == write8(c, v, a)
<1>1. c.r.SP \in Byte
  BY DEF IsCpu, Registers
<1>2. a \in Addresses
  BY <1>1, StackIsMemory
<1>3. IsCpu(w) /\ w.f = c.f /\ w.r = c.r /\ w.pc = c.pc
  BY <1>2, WriteKeeps
<1>4. push(c, v) = [w EXCEPT !.r.SP = Wrap(@ - 1)]
  BY DEF push
<1> HIDE DEF w
<1>5. w.r.SP - 1 \in Int
  BY <1>1, <1>3, ByteIsNat
<1>6. Wrap(w.r.SP - 1) \in Byte
  BY <1>5, WrapIsByte
<1>7. QED
  BY <1>3, <1>4, <1>6 DEF IsCpu, Registers

LEMMA PushWordKeeps ==
  ASSUME NEW c, IsCpu(c), NEW v \in Addresses
  PROVE  IsCpu(push_word(c, v)) /\ push_word(c, v).f = c.f
<1>1. v \div 256 \in Byte /\ v % 256 \in Byte
  BY BytesOfAWord
<1>2. QED
  BY <1>1, PushKeeps DEF push_word

LEMMA DropKeeps ==
  ASSUME NEW c, IsCpu(c), NEW n \in Nat
  PROVE  IsCpu(Drop(c, n)) /\ Top(c, n) \in Byte
<1>1. c.r.SP \in Byte
  BY DEF IsCpu, Registers
<1>2. Wrap(c.r.SP + n) \in Byte
  BY <1>1, WrapIsByte, ByteIsNat
<1>3. QED
  BY <1>2, ReadByte DEF IsCpu, Registers, Drop, Top

LEMMA RestoredFlagsKeep ==
  ASSUME NEW c, IsCpu(c), NEW v \in Byte
  PROVE  IsCpu(set_flags_ignore_5_4(c, v))
<1> DEFINE g == [b \in DOMAIN c.f |->
                  IF b \in {"UNUSED", "B"} THEN c.f[b] ELSE (v \div BitOf[b]) % 2]
<1>1. set_flags_ignore_5_4(c, v) = [c EXCEPT !.f = g]
  BY DEF set_flags_ignore_5_4, IsCpu
<1>2. \A n \in Nat : n % 2 \in Carry
  BY DEF Carry
<1>3. \A b \in DOMAIN BitOf : BitOf[b] \in Nat \ {0}
  BY DEF BitOf
<1>4. \A n \in Nat, w \in Nat \ {0} : n \div w \in Nat
  OBVIOUS
<1>5. \A b \in DOMAIN BitOf : (v \div BitOf[b]) % 2 \in Carry
  BY <1>2, <1>3, <1>4, ByteIsNat
<1>6. g \in [DOMAIN BitOf -> Carry]
  BY <1>5 DEF IsCpu
<1> HIDE DEF g
<1>7. QED
  BY <1>1, <1>6, SetFlagsKeep

LEMMA EnterKeeps ==
  ASSUME NEW c, IsCpu(c), NEW pc \in Addresses, NEW b \in Carry, NEW vector
  PROVE  IsCpu(Enter(c, pc, b, vector))
<1> DEFINE byte == flags_as_byte([c.f EXCEPT !.B = b, !.UNUSED = 1])
           pushed == push(push_word(c, pc), byte)
<1>1. byte \in Byte
  BY ByteOfIsByte DEF flags_as_byte
<1>2. IsCpu(pushed)
  BY <1>1, PushKeeps, PushWordKeeps
<1>3. Enter(c, pc, b, vector) = [pushed EXCEPT !.f.I = 1, !.pc = read16(pushed, vector)]
  BY DEF Enter
<1>4. read16(pushed, vector) \in Addresses
  BY <1>2, ReadWord
<1> HIDE DEF pushed
<1>5. QED
  BY <1>2, <1>3, <1>4 DEF IsCpu, BitOf, Carry
-----------------------------------------------------------------------------
(* Operands.                                                               *)

LEMMA Resolving ==
  ASSUME NEW c, IsCpu(c), NEW inst, inst.mode \in Addressed,
         inst.operands[1] \in Byte, inst.operands[2] \in Byte
  PROVE  resolve(c, inst) \in Addresses
<1> DEFINE low == inst.operands[1]
           high == inst.operands[2]
<1>1. low \in Nat /\ high \in Nat /\ c.r.X \in Nat /\ c.r.Y \in Nat
  BY ByteIsNat DEF IsCpu, Registers
<1>2. \A p, q : Pointer(c, p, q) \in Nat
  <2> TAKE p, q
  <2>1. read8(c, 256 * q + p) \in Nat /\ read8(c, 256 * q + Wrap(p + 1)) \in Nat
    BY ReadByte, ByteIsNat
  <2>2. QED
    BY <2>1 DEF Pointer
<1>3. Wrap(low + c.r.X) \in Nat /\ Wrap(low + c.r.Y) \in Nat
  BY <1>1, WrapIsByte, ByteIsNat
<1>4. BaseAddress(c, inst) \in {256 * high + low, Pointer(c, low, high),
                                Pointer(c, Wrap(low + c.r.X), 0), Pointer(c, low, 0),
                                low, Wrap(low + c.r.X), Wrap(low + c.r.Y)}
  BY Zenon DEF BaseAddress, Addressed
<1>5. BaseAddress(c, inst) \in Nat
  <2>1. 256 * high + low \in Nat
    BY <1>1
  <2> HIDE DEF low, high
  <2>2. QED
    BY <1>1, <1>2, <1>3, <1>4, <2>1
<1>6. Index(c, inst) \in {c.r.X, c.r.Y, 0}
  BY Zenon DEF Index
<1>7. Index(c, inst) \in Nat
  BY <1>1, <1>6
<1>8. QED
  BY <1>5, <1>7, WordIsAddress DEF resolve

LEMMA ResolvedKeeps ==
  ASSUME NEW c, IsCpu(c), NEW inst
  PROVE  /\ IsCpu(Resolved(c, inst))
         /\ Resolved(c, inst).r = c.r /\ Resolved(c, inst).f = c.f
         /\ Resolved(c, inst).mem = c.mem /\ Resolved(c, inst).pc = c.pc
<1>1. num_extra_cycles(inst) \in {0, 1, 4}
  BY Zenon DEF num_extra_cycles
<1>2. num_extra_cycles(inst) \in Nat
  BY <1>1
<1> DEFINE extra == c.extra + num_extra_cycles(inst)
<1>3. extra \in Nat
  BY <1>2 DEF IsCpu
<1>4. Resolved(c, inst) \in {c, [c EXCEPT !.extra = extra]}
  BY Zenon DEF Resolved
<1> HIDE DEF extra
<1>5. QED
  BY <1>3, <1>4 DEF IsCpu

LEMMA ValueIsByte ==
  ASSUME NEW c, IsCpu(c), NEW inst, inst.operands[1] \in Byte
  PROVE  Value(c, inst) \in Byte
BY ReadByte DEF Value, operand0

LEMMA AccumulatorIsByte ==
  ASSUME NEW c, IsCpu(c), NEW reg \in Registers
  PROVE  c.r[reg] \in Byte /\ c.r[reg] \in Nat
BY ByteIsNat DEF IsCpu

-----------------------------------------------------------------------------
(* The families of instructions.                                           *)

(* What add_with_carry and sub_with_borrow give is a byte and two flags.   *)
LEMMA ArithmeticKeeps ==
  ASSUME NEW c, IsCpu(c), NEW sum, sum.res \in Byte, sum.C \in Carry, sum.V \in Carry
  PROVE  /\ IsCpu(Arithmetic(c, sum))
         /\ Arithmetic(c, sum).r.A = sum.res
         /\ Arithmetic(c, sum).f.C = sum.C /\ Arithmetic(c, sum).f.V = sum.V
         /\ Arithmetic(c, sum).mem = c.mem
<1> DEFINE flagged == [c EXCEPT !.f.V = sum.V, !.f.C = sum.C]
<1>1. /\ IsCpu(flagged) /\ flagged.f.C = sum.C /\ flagged.f.V = sum.V
      /\ flagged.mem = c.mem
  BY DEF IsCpu, BitOf
<1>2. Arithmetic(c, sum) = SetReg(flagged, "A", sum.res) /\ "A" \in Registers
  BY DEF Arithmetic, Registers
<1> HIDE DEF flagged
<1>3. QED
  BY <1>1, <1>2, SetRegKeeps

LEMMA SumKeeps ==
  ASSUME NEW c, IsCpu(c), NEW val \in Byte
  PROVE  /\ IsCpu(Arithmetic(c, add_with_carry(c.r.A, val, c.f.C)))
         /\ Arithmetic(c, add_with_carry(c.r.A, val, c.f.C)).mem = c.mem
         /\ IsCpu(Arithmetic(c, sub_with_borrow(c.r.A, val, c.f.C)))
         /\ Arithmetic(c, sub_with_borrow(c.r.A, val, c.f.C)).mem = c.mem
<1> DEFINE sum == add_with_carry(c.r.A, val, c.f.C)
           difference == sub_with_borrow(c.r.A, val, c.f.C)
<1>1. c.r.A \in Byte /\ c.f.C \in Carry
  BY DEF IsCpu, Registers, BitOf
<1>2. sum.res \in Byte /\ sum.C \in Carry
  BY <1>1, AdditionIsExact
<1>3. difference.res \in Byte /\ difference.C \in Carry
  BY <1>1, SubtractionIsExact
<1>4. sum.V \in Carry
  BY DEF add_with_carry, Flag, Carry
<1>5. difference.V \in Carry
  BY DEF sub_with_borrow, add_with_carry, Flag, Carry
<1> HIDE DEF sum, difference
<1>6. IsCpu(Arithmetic(c, sum)) /\ Arithmetic(c, sum).mem = c.mem
  BY <1>2, <1>4, ArithmeticKeeps
<1>7. IsCpu(Arithmetic(c, difference)) /\ Arithmetic(c, difference).mem = c.mem
  BY <1>3, <1>5, ArithmeticKeeps
<1>8. QED
  BY <1>6, <1>7 DEF sum, difference

LEMMA CompareKeeps ==
  ASSUME NEW c, IsCpu(c), NEW reg \in Registers, NEW val
  PROVE  IsCpu(Compare(c, reg, val)) /\ Compare(c, reg, val).mem = c.mem
<1> DEFINE flagged == [c EXCEPT !.f.C = cmp(c.r[reg], val).C]
<1>1. cmp(c.r[reg], val).C \in Carry
  BY DEF cmp, Flag, Carry
<1>2. IsCpu(flagged) /\ flagged.mem = c.mem
  BY <1>1 DEF IsCpu, BitOf
<1>3. Compare(c, reg, val) = flags_set_neg_zero(flagged, cmp(c.r[reg], val).res)
  BY DEF Compare
<1> HIDE DEF flagged
<1>4. QED
  BY <1>2, <1>3, NegZeroKeeps

LEMMA CombineKeeps ==
  ASSUME NEW c, IsCpu(c), NEW op \in Combining, NEW val \in Byte
  PROVE  IsCpu(Combine(c, op, val)) /\ Combine(c, op, val).mem = c.mem
<1>1. "A" \in Registers /\ DOMAIN ComparesReg = {"CMP", "CPX", "CPY"}
      /\ \A o \in DOMAIN ComparesReg : ComparesReg[o] \in Registers
  BY DEF Registers, ComparesReg
<1>2. CASE op = "ADC"
  <2>1. Combine(c, op, val) = Arithmetic(c, add_with_carry(c.r.A, val, c.f.C))
    BY <1>2, Zenon DEF Combine, ComparesReg
  <2>2. QED
    BY <2>1, SumKeeps
<1>3. CASE op \in {"SBC", "USBC"}
  <2>1. Combine(c, op, val) = Arithmetic(c, sub_with_borrow(c.r.A, val, c.f.C))
    BY <1>3, Zenon DEF Combine, ComparesReg
  <2>2. QED
    BY <2>1, SumKeeps
<1>4. CASE op \in {"AND", "ORA", "EOR"}
  <2>1. Combine(c, op, val) \in {SetReg(c, "A", And(c.r.A, val)),
          SetReg(c, "A", Or(c.r.A, val)), SetReg(c, "A", Xor(c.r.A, val))}
    BY <1>4, Zenon DEF Combine, ComparesReg
  <2>2. And(c.r.A, val) \in Byte /\ Or(c.r.A, val) \in Byte /\ Xor(c.r.A, val) \in Byte
    BY ByteOfIsByte DEF And, Or, Xor
  <2>3. \A v \in Byte : IsCpu(SetReg(c, "A", v)) /\ SetReg(c, "A", v).mem = c.mem
    BY <1>1, SetRegKeeps
  <2>4. QED
    BY <2>1, <2>2, <2>3
<1>5. CASE op \in DOMAIN ComparesReg
  <2>1. Combine(c, op, val) = Compare(c, ComparesReg[op], val)
    BY <1>1, <1>5, Zenon DEF Combine
  <2>2. QED
    BY <1>1, <1>5, <2>1, CompareKeeps
<1>6. QED
  BY <1>1, <1>2, <1>3, <1>4, <1>5 DEF Combining

(* What a byte is shifted, rotated, counted up or down to.                 *)
LEMMA ModifiedIsByte ==
  ASSUME NEW c, IsCpu(c), NEW op \in Shifts \union {"DEC", "INC"}, NEW val \in Byte
  PROVE  Modified(c, op, val).res \in Byte /\ Modified(c, op, val).C \in Carry
<1>1. val \in Nat /\ val < 256 /\ c.f.C \in Carry
  BY ByteIsNat DEF IsCpu, BitOf
<1>2. CASE op = "DEC"
  <2>1. Modified(c, op, val) = [res |-> Wrap(val - 1), C |-> c.f.C]
    BY <1>2, Zenon DEF Modified
  <2>2. QED
    BY <1>1, <2>1, WrapIsByte
<1>3. CASE op = "INC"
  <2>1. Modified(c, op, val) = [res |-> Wrap(val + 1), C |-> c.f.C]
    BY <1>3, Zenon DEF Modified
  <2>2. QED
    BY <1>1, <2>1, WrapIsByte
<1>4. CASE op = "LSR"
  <2>1. Modified(c, op, val) = shift_right(val)
    BY <1>4, Zenon DEF Modified
  <2>2. val \div 2 \in Byte /\ val % 2 \in Carry
    BY <1>1, SignIsBit7 DEF Byte, Carry
  <2>3. QED
    BY <2>1, <2>2 DEF shift_right
<1>5. CASE op = "ASL"
  <2>1. Modified(c, op, val) = shift_left(val)
    BY <1>5, Zenon DEF Modified
  <2>2. QED
    BY <1>1, <2>1, WrapIsByte DEF shift_left, Flag, Carry
<1>6. CASE op = "ROL"
  <2>1. Modified(c, op, val) = rotate_left(val, c.f.C)
    BY <1>6, Zenon DEF Modified
  <2>2. rotate_left(val, c.f.C).C \in Carry
    BY DEF rotate_left, shift_left, Flag, Carry
  <2>3. QED
    BY <1>1, <2>1, <2>2, RotationsAreInverse
<1>7. CASE op = "ROR"
  <2>1. Modified(c, op, val) = rotate_right(val, c.f.C)
    BY <1>7, Zenon DEF Modified
  <2>2. rotate_right(val, c.f.C).C \in Carry
    BY <1>1 DEF rotate_right, shift_right, Carry
  <2>3. QED
    BY <1>1, <2>1, <2>2, RotationsAreInverse
<1>8. QED
  BY <1>2, <1>3, <1>4, <1>5, <1>6, <1>7 DEF Shifts

(* A byte of memory is modified: the carry and memory are what they should *)
(* be, and the registers stay.                                             *)
LEMMA ModifyMemoryKeeps ==
  ASSUME NEW c, IsCpu(c), NEW inst, inst.mode \in Addressed,
         inst.operands[1] \in Byte, inst.operands[2] \in Byte,
         NEW op \in Shifts \union {"DEC", "INC"}
  PROVE  LET m == Modified(c, op, Value(c, inst))
             after == ModifyMemory(c, inst, op)
         IN /\ IsCpu(after) /\ m.res \in Byte
            /\ after.r = c.r /\ after.f.C = m.C
            /\ read8(after, resolve(c, inst)) = m.res
<1> DEFINE m == Modified(c, op, Value(c, inst))
           resolved == Resolved(c, inst)
           written == write8(resolved, m.res, resolve(c, inst))
           flagged == [written EXCEPT !.f.C = m.C]
           after == flags_set_neg_zero(flagged, m.res)
<1>1. m.res \in Byte /\ m.C \in Carry
  BY ValueIsByte, ModifiedIsByte
<1>2. IsCpu(resolved) /\ resolved.r = c.r
  BY ResolvedKeeps
<1>3. resolve(c, inst) \in Addresses
  BY Resolving
<1> HIDE DEF resolved, m
<1>4. /\ IsCpu(written) /\ written.r = c.r
      /\ read8(written, resolve(c, inst)) = m.res
  BY <1>1, <1>2, <1>3, WriteKeeps
<1> HIDE DEF written
<1>5. /\ IsCpu(flagged) /\ flagged.r = c.r /\ flagged.f.C = m.C
      /\ flagged.mem = written.mem
  BY <1>1, <1>4 DEF IsCpu, BitOf
<1> HIDE DEF flagged
<1>6. /\ IsCpu(after) /\ after.r = c.r /\ after.f.C = m.C
      /\ after.mem = written.mem
  BY <1>5, NegZeroKeeps
<1>7. read8(after, resolve(c, inst)) = m.res
  BY <1>4, <1>6 DEF read8
<1>8. ModifyMemory(c, inst, op) = after
  BY DEF ModifyMemory, after, flagged, written, resolved, m
<1> HIDE DEF after
<1>9. QED
  BY <1>1, <1>6, <1>7, <1>8 DEF m

LEMMA ModifyAccumulatorKeeps ==
  ASSUME NEW c, IsCpu(c), NEW op \in Shifts
  PROVE  IsCpu(ModifyAccumulator(c, op))
<1> DEFINE m == Modified(c, op, c.r.A)
           flagged == [c EXCEPT !.f.C = m.C]
<1>1. "A" \in Registers /\ c.r.A \in Byte
  BY DEF IsCpu, Registers
<1>2. m.res \in Byte /\ m.C \in Carry
  BY <1>1, ModifiedIsByte
<1> HIDE DEF m
<1>3. IsCpu(flagged)
  BY <1>2 DEF IsCpu, BitOf
<1>4. ModifyAccumulator(c, op) = SetReg(flagged, "A", m.res)
  BY DEF ModifyAccumulator, m
<1> HIDE DEF flagged
<1>5. QED
  BY <1>1, <1>2, <1>3, <1>4, SetRegKeeps

LEMMA ModifyAndCombineKeeps ==
  ASSUME NEW c, IsCpu(c), NEW inst, inst.mode \in Addressed,
         inst.operands[1] \in Byte, inst.operands[2] \in Byte,
         inst.op \in DOMAIN Combination
  PROVE  IsCpu(ModifyAndCombine(c, inst))
<1> DEFINE first == Combination[inst.op][1]
           second == Combination[inst.op][2]
           m == Modified(c, first, Value(c, inst))
           after == ModifyMemory(c, inst, first)
<1>1. first \in Shifts \union {"DEC", "INC"} /\ second \in Combining
  BY DEF Combination, Shifts, Combining
<1>2. ModifyAndCombine(c, inst) = Combine(after, second, m.res)
  BY DEF ModifyAndCombine
<1> HIDE DEF first, second
<1>3. IsCpu(after) /\ m.res \in Byte
  BY <1>1, ModifyMemoryKeeps
<1> HIDE DEF m, after
<1>4. QED
  BY <1>1, <1>2, <1>3, CombineKeeps

LEMMA CountRegKeeps ==
  ASSUME NEW c, IsCpu(c), NEW op \in DOMAIN CountedBy
  PROVE  IsCpu(CountReg(c, op))
<1> DEFINE reg == CountedBy[op]
           v == Wrap(c.r[reg] + DeltaOf[op])
<1>1. reg \in Registers /\ DeltaOf[op] \in Int
  BY DEF CountedBy, DeltaOf, Registers
<1>2. c.r[reg] + DeltaOf[op] \in Int
  BY <1>1, AccumulatorIsByte
<1>3. v \in Byte
  BY <1>2, WrapIsByte
<1>4. CountReg(c, op) = SetReg(c, reg, v)
  BY DEF CountReg
<1> HIDE DEF reg, v
<1>5. QED
  BY <1>1, <1>3, <1>4, SetRegKeeps

LEMMA SetFlagKeeps ==
  ASSUME NEW c, IsCpu(c), NEW op \in DOMAIN FlagOps
  PROVE  IsCpu(SetFlag(c, op))
<1>1. FlagOps[op][1] \in DOMAIN BitOf /\ FlagOps[op][2] \in Carry
  BY DEF FlagOps, BitOf, Carry
<1>2. QED
  BY <1>1 DEF SetFlag, IsCpu

LEMMA LoadsKeep ==
  ASSUME NEW c, IsCpu(c), NEW inst, inst.operands[1] \in Byte
  PROVE  /\ inst.op \in DOMAIN LoadedBy => IsCpu(Load(c, inst))
         /\ IsCpu(Lax(c, inst))
<1> DEFINE v == Value(c, inst)
           resolved == Resolved(c, inst)
<1>1. v \in Byte /\ IsCpu(resolved)
  BY ValueIsByte, ResolvedKeeps
<1> HIDE DEF v, resolved
<1>2. inst.op \in DOMAIN LoadedBy => LoadedBy[inst.op] \in Registers
  BY DEF LoadedBy, Registers
<1>3. "A" \in Registers /\ "X" \in Registers
  BY DEF Registers
<1>4. IsCpu(SetReg(resolved, "A", v))
  BY <1>1, <1>3, SetRegKeeps
<1>5. IsCpu(SetReg(SetReg(resolved, "A", v), "X", v))
  BY <1>1, <1>3, <1>4, SetRegKeeps
<1>6. QED
  BY <1>1, <1>2, <1>5, SetRegKeeps DEF Load, Lax, v, resolved

LEMMA TransferKeeps ==
  ASSUME NEW c, IsCpu(c), NEW op \in DOMAIN Moves
  PROVE  IsCpu(Transfer(c, op))
<1>1. Moves[op][1] \in Registers /\ Moves[op][2] \in Registers
  BY DEF Moves, Registers
<1>2. QED
  BY <1>1, AccumulatorIsByte, SetRegKeeps DEF Transfer

LEMMA StoreKeeps ==
  ASSUME NEW c, IsCpu(c), NEW inst, inst.mode \in Addressed,
         inst.operands[1] \in Byte, inst.operands[2] \in Byte,
         inst.op \in {"STA", "STX", "STY", "SAX"}
  PROVE  IsCpu(Store(c, inst))
<1>1. Stored(c, inst.op) \in {c.r.A, c.r.X, c.r.Y, And(c.r.A, c.r.X)}
  BY Zenon DEF Stored
<1>2. c.r.A \in Byte /\ c.r.X \in Byte /\ c.r.Y \in Byte
  BY DEF IsCpu, Registers
<1>3. And(c.r.A, c.r.X) \in Byte
  BY ByteOfIsByte DEF And
<1>4. Stored(c, inst.op) \in Byte
  BY <1>1, <1>2, <1>3
<1>5. resolve(c, inst) \in Addresses /\ IsCpu(Resolved(c, inst))
  BY Resolving, ResolvedKeeps
<1>6. QED
  BY <1>4, <1>5, WriteKeeps DEF Store

LEMMA SubroutinesKeep ==
  ASSUME NEW c, IsCpu(c)
  PROVE  /\ IsCpu(ReturnFromSubroutine(c))
         /\ IsCpu(ReturnFromInterrupt(c))
         /\ IsCpu(Break(c))
         /\ \A inst : /\ inst.mode \in Addressed
                      /\ inst.operands[1] \in Byte /\ inst.operands[2] \in Byte
                      => IsCpu(Jump(c, inst)) /\ IsCpu(JumpToSubroutine(c, inst))
<1>1. /\ IsCpu(Drop(c, 2)) /\ IsCpu(Drop(c, 3)) /\ Top(c, 1) \in Byte
      /\ Top(c, 2) \in Byte /\ Top(c, 3) \in Byte
  BY DropKeeps
<1>2. Word(Top(c, 1) + (256 * Top(c, 2)) + 1) \in Addresses
  <2>1. Top(c, 1) + (256 * Top(c, 2)) + 1 \in Int
    BY <1>1, ByteIsNat
  <2>2. QED
    BY <2>1, WordIsAddress
<1>3. IsCpu(ReturnFromSubroutine(c))
  BY <1>1, <1>2, JumpKeeps DEF ReturnFromSubroutine
<1>4. IsCpu(set_flags_ignore_5_4(Drop(c, 3), Top(c, 1)))
  BY <1>1, RestoredFlagsKeep
<1>5. Top(c, 2) + (256 * Top(c, 3)) \in Addresses
  BY <1>1, WordIsTwoBytes
<1>6. IsCpu(ReturnFromInterrupt(c))
  BY <1>4, <1>5, JumpKeeps DEF ReturnFromInterrupt
<1>7. Word(c.pc + 2) \in Addresses
  <2>1. c.pc + 2 \in Int
    BY BytesOfAWord DEF IsCpu
  <2>2. QED
    BY <2>1, WordIsAddress
<1>8. IsCpu(Break(c))
  <2>1. 1 \in Carry
    BY DEF Carry
  <2>2. QED
    BY <1>7, <2>1, EnterKeeps DEF Break
<1>9. ASSUME NEW inst, inst.mode \in Addressed,
             inst.operands[1] \in Byte, inst.operands[2] \in Byte
      PROVE  IsCpu(Jump(c, inst)) /\ IsCpu(JumpToSubroutine(c, inst))
  <2>1. \A d : IsCpu(d) => IsCpu(Jump(d, inst))
    BY Resolving, JumpKeeps, <1>9 DEF Jump
  <2>2. IsCpu(push_word(c, Word(c.pc + 2)))
    BY <1>7, PushWordKeeps
  <2>3. QED
    BY <2>1, <2>2 DEF JumpToSubroutine
<1>10. QED
  BY <1>3, <1>6, <1>8, <1>9

LEMMA BranchKeeps ==
  ASSUME NEW c, IsCpu(c), NEW inst, inst.operands[1] \in Byte
  PROVE  IsCpu(Branch(c, inst))
<1> DEFINE offset == operand0(inst)
           next == Word(c.pc + 2)
           target == Word(next + Signed(offset))
           extra == c.extra + (IF SamePage(next, target) THEN 1 ELSE 2)
<1>1. Signed(offset) \in Int
  BY ByteIsNat, SignIsBit7 DEF Signed, operand0
<1>2. c.pc + 2 \in Int
  BY BytesOfAWord DEF IsCpu
<1>3. next \in Int
  BY <1>2, WordIsAddress, BytesOfAWord
<1>4. next + Signed(offset) \in Int
  BY <1>1, <1>3
<1>5. target \in Addresses
  BY <1>4, WordIsAddress
<1>6. extra \in Nat
  BY DEF IsCpu
<1>7. Branch(c, inst) \in {c, [c EXCEPT !.pc = target, !.extra = extra]}
  BY Zenon DEF Branch, branch_if
<1> HIDE DEF target, extra
<1>8. QED
  BY <1>5, <1>6, <1>7 DEF IsCpu

LEMMA TestsKeep ==
  ASSUME NEW c, IsCpu(c), NEW inst, inst.operands[1] \in Byte
  PROVE  IsCpu(TestBits(c, inst)) /\ IsCpu(AndForFlags(c, inst))
<1> DEFINE val == Value(c, inst)
           res == And(c.r.A, val)
           carry == IF inst.op = "ALR" THEN res % 2 ELSE Flag(is_signed(res))
           flagged == [c EXCEPT !.f.C = carry]
<1>1. /\ Flag(res = 0) \in Carry /\ Flag(128 \in Bits(val)) \in Carry
      /\ Flag(64 \in Bits(val)) \in Carry
  BY DEF Flag, Carry
<1>2. IsCpu(TestBits(c, inst))
  BY <1>1 DEF TestBits, IsCpu, BitOf
<1>3. res \in Nat
  BY ByteOfIsByte, ByteIsNat DEF And
<1> HIDE DEF res
<1>4. res % 2 \in Carry /\ Flag(is_signed(res)) \in Carry
  BY <1>3 DEF Flag, Carry
<1>5. IsCpu(flagged)
  BY <1>4 DEF IsCpu, BitOf
<1>6. AndForFlags(c, inst) = flags_set_neg_zero(flagged, res)
  BY DEF AndForFlags, res
<1> HIDE DEF flagged
<1>7. QED
  BY <1>2, <1>5, <1>6, NegZeroKeeps

LEMMA StackKeeps ==
  ASSUME NEW c, IsCpu(c)
  PROVE  /\ \A op : IsCpu(push(c, Pushed(c, op)))
         /\ IsCpu(SetReg(Drop(c, 1), "A", Top(c, 1)))
         /\ IsCpu(set_flags_ignore_5_4(Drop(c, 1), Top(c, 1)))
<1>1. \A op : Pushed(c, op) \in Byte
  BY ByteOfIsByte DEF Pushed, flags_as_byte, IsCpu, Registers
<1>2. IsCpu(Drop(c, 1)) /\ Top(c, 1) \in Byte /\ "A" \in Registers
  BY DropKeeps DEF Registers
<1>3. QED
  BY <1>1, <1>2, PushKeeps, SetRegKeeps, RestoredFlagsKeep

-----------------------------------------------------------------------------
(* What an instruction does, an opcode family at a time.                   *)

LEMMA EffectOfReaders ==
  ASSUME NEW c, NEW inst, inst.op \in Readers
  PROVE  \/ inst.op \in DOMAIN LoadedBy /\ Effect(c, inst) = Load(c, inst)
         \/ Effect(c, inst) = Lax(c, inst)
         \/ Effect(c, inst) = TestBits(Resolved(c, inst), inst)
         \/ Effect(c, inst) = AndForFlags(c, inst)
         \/ /\ inst.op \in Combining
            /\ Effect(c, inst) = Combine(Resolved(c, inst), inst.op, Value(c, inst))
<1> USE DEF CountedBy, FlagOps, LoadedBy, Moves, BranchesOn, Combination
<1>1. CASE inst.op \in DOMAIN LoadedBy
  BY <1>1, Zenon DEF Effect
<1>2. CASE inst.op = "LAX"
  BY <1>2, Zenon DEF Effect
<1>3. CASE inst.op = "BIT"
  BY <1>3, Zenon DEF Effect
<1>4. CASE inst.op \in {"ANC", "ANC2", "ALR"}
  BY <1>4, Zenon DEF Effect
<1>5. CASE inst.op \in Combining
  BY <1>5, Zenon DEF Effect, Combining
<1>6. QED
  BY <1>1, <1>2, <1>3, <1>4, <1>5 DEF Readers

LEMMA EffectOfWriters ==
  ASSUME NEW c, NEW inst, inst.op \in Writers, inst.mode \in Addressed
  PROVE  \/ inst.op \in {"STA", "STX", "STY", "SAX"} /\ Effect(c, inst) = Store(c, inst)
         \/ Effect(c, inst) = Jump(c, inst)
         \/ Effect(c, inst) = JumpToSubroutine(c, inst)
         \/ /\ inst.op \in {"DEC", "INC"}
            /\ Effect(c, inst) = ModifyMemory(c, inst, inst.op)
         \/ /\ inst.op \in DOMAIN Combination
            /\ Effect(c, inst) = ModifyAndCombine(c, inst)
<1> USE DEF CountedBy, FlagOps, LoadedBy, Moves, BranchesOn, Combination
<1>1. CASE inst.op \in {"STA", "STX", "STY", "SAX"}
  BY <1>1, Zenon DEF Effect
<1>2. CASE inst.op = "JMP"
  BY <1>2, Zenon DEF Effect
<1>3. CASE inst.op = "JSR"
  BY <1>3, Zenon DEF Effect
<1>4. CASE inst.op \in {"DEC", "INC"}
  <2>1. inst.mode # "Impl"
    BY DEF Addressed
  <2>2. QED
    BY <1>4, <2>1, Zenon DEF Effect
<1>5. CASE inst.op \in DOMAIN Combination
  BY <1>5, Zenon DEF Effect
<1>6. QED
  BY <1>1, <1>2, <1>3, <1>4, <1>5 DEF Writers

LEMMA EffectOfShifts ==
  ASSUME NEW c, NEW inst, inst.op \in Shifts
  PROVE  /\ inst.mode = "Impl" => Effect(c, inst) = ModifyAccumulator(c, inst.op)
         /\ inst.mode \in Addressed => Effect(c, inst) = ModifyMemory(c, inst, inst.op)
<1> USE DEF CountedBy, FlagOps, LoadedBy, Moves, BranchesOn, Combination, Shifts
<1>1. ASSUME inst.mode = "Impl" PROVE Effect(c, inst) = ModifyAccumulator(c, inst.op)
  BY <1>1, Zenon DEF Effect
<1>2. ASSUME inst.mode # "Impl" PROVE Effect(c, inst) = ModifyMemory(c, inst, inst.op)
  BY <1>2, Zenon DEF Effect
<1>3. inst.mode \in Addressed => inst.mode # "Impl"
  BY DEF Addressed
<1>4. QED
  BY <1>1, <1>2, <1>3

LEMMA EffectOfOthers ==
  ASSUME NEW c, NEW inst, inst.op \in Others \ {"JAM"}
  PROVE  \/ Effect(c, inst) = Resolved(c, inst)
         \/ inst.op \in DOMAIN CountedBy /\ Effect(c, inst) = CountReg(c, inst.op)
         \/ inst.op \in DOMAIN FlagOps /\ Effect(c, inst) = SetFlag(c, inst.op)
         \/ inst.op \in DOMAIN Moves /\ Effect(c, inst) = Transfer(c, inst.op)
         \/ Effect(c, inst) = [c EXCEPT !.r.SP = c.r.X]
         \/ Effect(c, inst) = ReturnFromSubroutine(c)
         \/ Effect(c, inst) = Break(c)
         \/ Effect(c, inst) = ReturnFromInterrupt(c)
         \/ Effect(c, inst) = Branch(c, inst)
         \/ Effect(c, inst) = push(c, Pushed(c, inst.op))
         \/ Effect(c, inst) = SetReg(Drop(c, 1), "A", Top(c, 1))
         \/ Effect(c, inst) = set_flags_ignore_5_4(Drop(c, 1), Top(c, 1))
<1> USE DEF CountedBy, FlagOps, LoadedBy, Moves, BranchesOn, Combination
<1>1. CASE inst.op = "NOP"
  BY <1>1, Zenon DEF Effect
<1>2. CASE inst.op \in DOMAIN CountedBy
  BY <1>2, Zenon DEF Effect
<1>3. CASE inst.op \in DOMAIN FlagOps
  BY <1>3, Zenon DEF Effect
<1>4. CASE inst.op \in DOMAIN Moves
  BY <1>4, Zenon DEF Effect
<1>5. CASE inst.op = "TXS"
  BY <1>5, Zenon DEF Effect
<1>6. CASE inst.op = "RTS"
  BY <1>6, Zenon DEF Effect
<1>7. CASE inst.op = "BRK"
  BY <1>7, Zenon DEF Effect
<1>8. CASE inst.op = "RTI"
  BY <1>8, Zenon DEF Effect
<1>9. CASE inst.op \in DOMAIN BranchesOn
  BY <1>9, Zenon DEF Effect
<1>10. CASE inst.op \in {"PHA", "PHP"}
  BY <1>10, Zenon DEF Effect
<1>11. CASE inst.op = "PLA"
  BY <1>11, Zenon DEF Effect
<1>12. CASE inst.op = "PLP"
  BY <1>12, Zenon DEF Effect
<1>13. QED
  BY <1>1, <1>2, <1>3, <1>4, <1>5, <1>6, <1>7, <1>8, <1>9, <1>10, <1>11, <1>12
     DEF Others

LEMMA EffectKeeps ==
  ASSUME NEW c, IsCpu(c), NEW inst, Instruction(inst), inst.op # "JAM"
  PROVE  IsCpu(Effect(c, inst))
<1>1. /\ inst.operands[1] \in Byte /\ inst.operands[2] \in Byte
      /\ Legal(inst.op, inst.mode)
  BY DEF Instruction
<1>2. CASE inst.op \in Readers
  <2>1. IsCpu(Resolved(c, inst)) /\ Value(c, inst) \in Byte
    BY <1>1, ResolvedKeeps, ValueIsByte
  <2>2. inst.op \in Combining => IsCpu(Combine(Resolved(c, inst), inst.op, Value(c, inst)))
    BY <2>1, CombineKeeps
  <2>3. QED
    BY <1>1, <1>2, <2>1, <2>2, EffectOfReaders, LoadsKeep, TestsKeep
<1>3. CASE inst.op \in Writers /\ inst.mode \in Addressed
  <2>1. inst.op \in {"DEC", "INC"} => IsCpu(ModifyMemory(c, inst, inst.op))
    BY <1>1, <1>3, ModifyMemoryKeeps
  <2>2. QED
    BY <1>1, <1>3, <2>1, EffectOfWriters, StoreKeeps, SubroutinesKeep,
       ModifyAndCombineKeeps
<1>4. CASE inst.op \in Shifts /\ inst.mode \in Addressed \union {"Impl"}
  <2>1. inst.mode \in Addressed => IsCpu(ModifyMemory(c, inst, inst.op))
    BY <1>1, <1>4, ModifyMemoryKeeps
  <2>2. QED
    BY <1>4, <2>1, EffectOfShifts, ModifyAccumulatorKeeps
<1>5. CASE inst.op \in Others
  <2>1. IsCpu(Resolved(c, inst)) /\ IsCpu(Branch(c, inst))
    BY <1>1, ResolvedKeeps, BranchKeeps
  <2>2. IsCpu([c EXCEPT !.r.SP = c.r.X])
    BY DEF IsCpu, Registers
  <2>3. QED
    BY <1>5, <2>1, <2>2, EffectOfOthers, CountRegKeeps, SetFlagKeeps, TransferKeeps,
       SubroutinesKeep, StackKeeps
<1>6. QED
  BY <1>1, <1>2, <1>3, <1>4, <1>5 DEF Legal

LEMMA AdvancedKeeps ==
  ASSUME NEW before, NEW after, IsCpu(after), NEW inst, Instruction(inst)
  PROVE  /\ IsCpu(Advanced(before, after, inst))
         /\ Advanced(before, after, inst).r = after.r
         /\ Advanced(before, after, inst).f = after.f
         /\ Advanced(before, after, inst).mem = after.mem
<1> DEFINE pc == Word(after.pc + inst.size)
<1>1. after.pc + inst.size \in Int
  BY BytesOfAWord DEF IsCpu, Instruction
<1>2. pc \in Addresses
  BY <1>1, WordIsAddress
<1>3. Advanced(before, after, inst) \in {after, [after EXCEPT !.pc = pc]}
  BY DEF Advanced
<1> HIDE DEF pc
<1>4. QED
  BY <1>2, <1>3 DEF IsCpu

LEMMA ExecuteKeeps ==
  ASSUME NEW c, IsCpu(c), Executable(c)
  PROVE  LET inst == fetch_next_instruction(c)
             after == execute(c, inst)
         IN /\ Instruction(inst) /\ IsCpu(after)
            /\ after.r = Effect(c, inst).r /\ after.f = Effect(c, inst).f
            /\ after.mem = Effect(c, inst).mem
<1> DEFINE inst == fetch_next_instruction(c)
           effect == Effect(c, inst)
           done == Advanced(c, effect, inst)
           cycles == inst.cycles + done.extra
           after == [done EXCEPT !.cycles = cycles, !.extra = 0]
<1>1. /\ read8(c, c.pc) \in Known
      /\ read8(c, Word(c.pc + 1)) \in Byte /\ read8(c, Word(c.pc + 2)) \in Byte
  BY ReadByte DEF Executable
<1>2. Instruction(inst)
  BY <1>1, Disassembled DEF fetch_next_instruction
<1>3. inst.op # "JAM"
  BY DEF Executable, fetch_next_instruction, disassemble
<1>4. execute(c, inst) = after
  BY DEF execute
<1> HIDE DEF inst
<1>5. IsCpu(effect)
  BY <1>2, <1>3, EffectKeeps
<1> HIDE DEF effect
<1>6. IsCpu(done) /\ done.r = effect.r /\ done.f = effect.f /\ done.mem = effect.mem
  BY <1>2, <1>5, AdvancedKeeps
<1> HIDE DEF done
<1>7. cycles \in Nat
  BY <1>2, <1>6 DEF IsCpu, Instruction
<1> HIDE DEF cycles
<1>8. IsCpu(after) /\ after.r = done.r /\ after.f = done.f /\ after.mem = done.mem
  BY <1>6, <1>7 DEF IsCpu
<1>9. QED
  BY <1>2, <1>4, <1>6, <1>8 DEF inst, effect

LEMMA InterruptKeeps ==
  ASSUME NEW c, IsCpu(c), NEW vector
  PROVE  IsCpu(interrupt(c, vector))
<1> DEFINE entered == Enter(c, c.pc, 0, vector)
<1>1. c.pc \in Addresses /\ 0 \in Carry
  BY DEF IsCpu, Carry
<1>2. IsCpu(entered)
  BY <1>1, EnterKeeps
<1>3. interrupt(c, vector) = [entered EXCEPT !.extra = @ + 7]
  BY DEF interrupt
<1> HIDE DEF entered
<1>4. QED
  BY <1>2, <1>3 DEF IsCpu

LEMMA ResetKeeps == ASSUME NEW c, IsCpu(c) PROVE IsCpu(AtReset(c))
<1> DEFINE registers == [A |-> 0, X |-> 0, Y |-> 0, SP |-> \hfd]
           flags == [b \in DOMAIN BitOf |-> Flag(b \in {"UNUSED", "I"})]
<1>1. 0 \in Byte /\ \hfd \in Byte
  BY SignIsBit7 DEF Byte
<1>2. registers \in [Registers -> Byte]
  BY <1>1 DEF Registers
<1>3. flags \in [DOMAIN BitOf -> Carry]
  BY DEF Flag, Carry
<1>4. read16(c, RESET_VECTOR) \in Addresses
  BY ReadWord
<1>5. AtReset(c) = [c EXCEPT !.r = registers, !.f = flags,
                             !.pc = read16(c, RESET_VECTOR)]
  BY DEF AtReset
<1> HIDE DEF registers, flags
<1>6. QED
  BY <1>2, <1>3, <1>4, <1>5 DEF IsCpu

-----------------------------------------------------------------------------
(* The machine.  The inductive invariant adds to DebuggerTypeOK what the   *)
(* backtrace and its history hold.                                         *)

Opcodes == {row.op : row \in Rows}

DebuggerInv ==
  /\ DebuggerTypeOK
  /\ backtrace \in Seq(Opcodes) /\ trace \in Seq(Opcodes)

(* The greater of two numbers, as FiniteSetsExt defines it.                *)
LEMMA MaxOfTwo ==
  ASSUME NEW m \in Int, NEW n \in Int
  PROVE  Max({m, n}) = IF m >= n THEN m ELSE n
<1> DEFINE greater == IF m >= n THEN m ELSE n
<1>1. greater \in {m, n} /\ \A y \in {m, n} : greater >= y
  OBVIOUS
<1>2. \A x \in {m, n} : (\A y \in {m, n} : x >= y) => x = greater
  OBVIOUS
<1> HIDE DEF greater
<1>3. Max({m, n}) = greater
  BY <1>1, <1>2 DEF Max
<1>4. QED
  BY <1>3 DEF greater

(* Latest gives the last n entries, or all there are.                      *)
LEMMA LatestIs ==
  ASSUME NEW S, NEW s \in Seq(S), NEW n \in Nat
  PROVE  LET length == IF Len(s) <= n THEN Len(s) ELSE n
         IN /\ Latest(s, n) \in Seq(S)
            /\ Len(Latest(s, n)) = length
            /\ \A k \in 1 .. length : Latest(s, n)[k] = s[Len(s) - length + k]
<1> DEFINE from == IF Len(s) <= n THEN 1 ELSE Len(s) - n + 1
           length == IF Len(s) <= n THEN Len(s) ELSE n
<1>1. Len(s) \in Nat
  OBVIOUS
<1>2. Max({1, Len(s) - n + 1}) = from
  <2>1. Len(s) - n + 1 \in Int
    BY <1>1
  <2>2. Max({1, Len(s) - n + 1}) = IF 1 >= Len(s) - n + 1 THEN 1 ELSE Len(s) - n + 1
    BY <2>1, MaxOfTwo
  <2>3. QED
    BY <1>1, <2>2
<1>3. /\ from \in 1 .. Len(s) + 1
      /\ \A k \in from .. Len(s) : s[k] \in S
  BY <1>1
<1>4. Latest(s, n) = SubSeq(s, from, Len(s))
  BY <1>2 DEF Latest
<1>5. /\ SubSeq(s, from, Len(s)) \in Seq(S)
      /\ Len(SubSeq(s, from, Len(s)))
           = IF from <= Len(s) THEN Len(s) - from + 1 ELSE 0
      /\ \A k \in 1 .. Len(s) - from + 1 : SubSeq(s, from, Len(s))[k] = s[from + k - 1]
  <2>1. from \in Int /\ Len(s) \in Int
    BY <1>1, <1>3
  <2> HIDE DEF from
  <2>2. QED
    BY <1>3, <2>1, SubSeqProperties
<1>6. /\ from \in Int /\ length \in Nat
      /\ from = Len(s) - length + 1
      /\ length = IF from <= Len(s) THEN Len(s) - from + 1 ELSE 0
  <2> DEFINE l == Len(s)
  <2>1. l \in Nat
    BY <1>1
  <2>2. /\ from = IF l <= n THEN 1 ELSE l - n + 1
        /\ length = IF l <= n THEN l ELSE n
    OBVIOUS
  <2> HIDE DEF from, length, l
  <2>3. /\ from \in Int /\ length \in Nat /\ from = l - length + 1
        /\ length = IF from <= l THEN l - from + 1 ELSE 0
    BY <2>1, <2>2
  <2>4. QED
    BY <2>3 DEF l
<1> HIDE DEF from, length
<1>7. \A k \in 1 .. length : k \in Int /\ from + k - 1 = Len(s) - length + k
                              /\ k \in 1 .. Len(s) - from + 1
  BY <1>1, <1>6
<1>8. /\ Latest(s, n) \in Seq(S) /\ Len(Latest(s, n)) = length
      /\ \A k \in 1 .. length : Latest(s, n)[k] = s[Len(s) - length + k]
  BY <1>4, <1>5, <1>6, <1>7
<1>9. QED
  BY <1>8 DEF length

LEMMA FetchedOpcode ==
  ASSUME Executable(cpu)
  PROVE  fetch_next_instruction(cpu).op \in Opcodes
<1>1. read8(cpu, cpu.pc) \in Known
  BY DEF Executable
<1>2. RowOf[read8(cpu, cpu.pc)] \in Rows
  BY <1>1 DEF RowOf, Known
<1>3. QED
  BY <1>2 DEF Opcodes, fetch_next_instruction, disassemble

(* The backtrace never gets to its limit: it is full one before.           *)
LEMMA RememberKeeps ==
  ASSUME NEW S, NEW op \in S, backtrace \in Seq(S), Len(backtrace) < BACKTRACE_LIMIT
  PROVE  /\ Remember(op) \in Seq(S)
         /\ Len(Remember(op)) = IF Len(backtrace) + 1 = BACKTRACE_LIMIT
                                THEN Len(backtrace) ELSE Len(backtrace) + 1
         /\ Len(Remember(op)) < BACKTRACE_LIMIT
<1> DEFINE longer == Append(backtrace, op)
<1>1. /\ longer \in Seq(S) /\ Len(longer) = Len(backtrace) + 1
      /\ Len(backtrace) \in Nat
  BY AppendProperties
<1>2. Remember(op) = IF Len(longer) = BACKTRACE_LIMIT THEN Tail(longer) ELSE longer
  BY DEF Remember
<1> HIDE DEF longer
<1>3. Len(longer) > 0 => Tail(longer) \in Seq(S) /\ Len(Tail(longer)) = Len(longer) - 1
  BY <1>1
<1>4. QED
  BY <1>1, <1>2, <1>3, LimitAssumption

LEMMA InterruptedIsFrame ==
  ASSUME IsCpu(cpu), NEW event \in {"nmi", "irq"}
  PROVE  Interrupted(event) \in Frame
BY DEF IsCpu, Interrupted, Frame

LEMMA FrontIs ==
  ASSUME NEW S, NEW s \in Seq(S), s # <<>>
  PROVE  /\ Front(s) \in Seq(S) /\ Len(s) \in Nat \ {0}
         /\ Len(Front(s)) = Len(s) - 1
         /\ \A k \in 1 .. Len(s) - 1 : Front(s)[k] = s[k]
<1>1. /\ Len(s) \in Nat /\ Len(s) # 0
      /\ \A k \in 1 .. Len(s) - 1 : s[k] \in S
  OBVIOUS
<1> DEFINE n == Len(s) - 1
<1>2. Front(s) = SubSeq(s, 1, n) /\ 1 \in Int /\ n \in Int
  BY <1>1 DEF Front
<1>3. \A k \in 1 .. n : s[k] \in S
  BY <1>1
<1> HIDE DEF n
<1>4. /\ Front(s) \in Seq(S)
      /\ Len(Front(s)) = IF 1 <= n THEN n - 1 + 1 ELSE 0
      /\ \A k \in 1 .. n - 1 + 1 : Front(s)[k] = s[1 + k - 1]
  BY <1>2, <1>3, SubSeqProperties
<1>5. n \in Nat
  BY <1>1 DEF n
<1>6. n - 1 + 1 = n /\ \A k \in 1 .. n : 1 + k - 1 = k
  BY <1>5
<1>7. Len(Front(s)) = n /\ \A k \in 1 .. n : Front(s)[k] = s[k]
  BY <1>4, <1>5, <1>6
<1>8. QED
  BY <1>1, <1>4, <1>7 DEF n

LEMMA TypeOKInit == DebuggerInit => DebuggerInv
<1>1. ASSUME DebuggerInit PROVE TypeOK
  <2>1. <<>> \in Seq(Frame)
    OBVIOUS
  <2>2. CASE Init
    BY <2>1, <2>2, MachinesAssumption DEF Init, TypeOK
  <2>3. CASE ~Init
    <3>1. /\ cpu \in Debugged /\ main = cpu /\ jammed = FALSE /\ frames = <<>>
          /\ bounds = [e \in {"nmi", "irq", "reset"} |-> 0]
      BY <1>1, <2>3, Zenon DEF DebuggerInit
    <3>2. bounds \in [{"nmi", "irq", "reset"} -> Nat]
      BY <3>1
    <3>3. IsCpu(cpu) /\ IsCpu(main)
      BY <3>1, DebuggedAssumption
    <3>4. QED
      BY <2>1, <3>1, <3>2, <3>3, Zenon DEF TypeOK
  <2>4. QED
    BY <2>2, <2>3
<1>2. ASSUME DebuggerInit
      PROVE  debugging \in BOOLEAN /\ suspended \in BOOLEAN /\ asked \in BOOLEAN
  BY <1>2, Zenon DEF DebuggerInit
<1>3. ASSUME DebuggerInit
      PROVE  /\ backtrace \in Seq(Opcodes) /\ trace \in Seq(Opcodes)
             /\ Len(backtrace) = 0 /\ Len(trace) = 0
  <2>1. backtrace = <<>> /\ trace = <<>>
    BY <1>3, Zenon DEF DebuggerInit
  <2>2. QED
    BY <2>1
<1>4. QED
  BY <1>1, <1>2, <1>3, LimitAssumption DEF DebuggerInv, DebuggerTypeOK

LEMMA TickKeepsType == TypeOK /\ tick => TypeOK'
<1> SUFFICES ASSUME TypeOK, tick PROVE TypeOK'
  OBVIOUS
<1> DEFINE inst == fetch_next_instruction(cpu)
<1>1. IsCpu(cpu) /\ IsCpu(main) /\ Executable(cpu)
  BY DEF TypeOK, tick
<1>2. IsCpu(cpu')
  BY <1>1, ExecuteKeeps DEF tick
<1>3. IsCpu(main')
  <2>1. Executable(main) => IsCpu(execute(main, fetch_next_instruction(main)))
    BY <1>1, ExecuteKeeps
  <2>2. \/ main' = main
        \/ Executable(main) /\ main' = execute(main, fetch_next_instruction(main))
    BY Zenon DEF tick
  <2>3. QED
    BY <1>1, <2>1, <2>2
<1>4. frames' \in Seq(Frame)
  <2>1. frames' = frames \/ (frames # <<>> /\ frames' = Front(frames))
    BY DEF tick, FramesAfter
  <2>2. ASSUME frames # <<>> PROVE Front(frames) \in Seq(Frame)
    BY <2>2, FrontIs DEF TypeOK
  <2>3. QED
    BY <2>1, <2>2 DEF TypeOK
<1>5. QED
  BY <1>2, <1>3, <1>4 DEF TypeOK, tick

LEMMA NextKeepsType == TypeOK /\ Next => TypeOK'
<1> SUFFICES ASSUME TypeOK, Next PROVE TypeOK'
  OBVIOUS
<1> USE DEF TypeOK
<1>1. ASSUME NEW event \in {"nmi", "irq", "reset"}, Count(event)
      PROVE  bounds' \in [{"nmi", "irq", "reset"} -> Nat]
  BY <1>1 DEF Count
<1>2. CASE tick
  BY <1>2, TickKeepsType
<1>3. CASE Jam
  BY <1>3 DEF Jam
<1>4. CASE nmi
  <2>1. IsCpu(cpu') /\ frames' \in Seq(Frame)
    BY <1>4, InterruptKeeps, InterruptedIsFrame, AppendProperties DEF nmi
  <2>2. QED
    BY <1>1, <1>4, <2>1 DEF nmi
<1>5. CASE irq
  <2>1. IsCpu(cpu') /\ frames' \in Seq(Frame)
    BY <1>5, InterruptKeeps, InterruptedIsFrame, AppendProperties DEF irq
  <2>2. QED
    BY <1>1, <1>5, <2>1 DEF irq
<1>6. CASE reset
  <2>1. IsCpu(cpu') /\ IsCpu(main') /\ frames' \in Seq(Frame)
    BY <1>6, ResetKeeps DEF reset
  <2>2. QED
    BY <1>1, <1>6, <2>1 DEF reset
<1>7. QED
  BY <1>2, <1>3, <1>4, <1>5, <1>6 DEF Next

LEMMA TypeOKStep == DebuggerInv /\ [DebuggerNext]_<<vars, debuggerVars>> => DebuggerInv'
<1> SUFFICES ASSUME DebuggerInv, [DebuggerNext]_<<vars, debuggerVars>>
             PROVE  DebuggerInv'
  OBVIOUS
<1> USE DEF DebuggerInv, DebuggerTypeOK
<1>1. CASE DebuggerTick
  <2> DEFINE op == fetch_next_instruction(cpu).op
  <2>1. op \in Opcodes
    BY <1>1, FetchedOpcode DEF DebuggerTick, tick
  <2>2. backtrace' = Remember(op) /\ trace' = Latest(Append(trace, op), MaxTrace)
    BY <1>1 DEF DebuggerTick, on_tick
  <2>3. asked' \in BOOLEAN /\ suspended' \in BOOLEAN /\ debugging' = debugging
    BY <1>1 DEF DebuggerTick, on_tick, user_input
  <2>4. TypeOK'
    BY <1>1, TickKeepsType DEF DebuggerTick
  <2> HIDE DEF op
  <2>5. backtrace' \in Seq(Opcodes) /\ Len(backtrace') < BACKTRACE_LIMIT
    BY <2>1, <2>2, RememberKeeps
  <2>6. Append(trace, op) \in Seq(Opcodes) /\ Len(Append(trace, op)) \in Nat
    BY <2>1, AppendProperties
  <2>7. trace' \in Seq(Opcodes) /\ Len(trace') <= MaxTrace
    <3> DEFINE longer == Append(trace, op)
    <3> HIDE DEF longer
    <3>1. longer \in Seq(Opcodes) /\ Len(longer) \in Nat /\ MaxTrace \in Nat
      BY <2>6, LimitAssumption DEF longer
    <3>2. /\ Latest(longer, MaxTrace) \in Seq(Opcodes)
          /\ Len(Latest(longer, MaxTrace))
               = IF Len(longer) <= MaxTrace THEN Len(longer) ELSE MaxTrace
      BY <3>1, LatestIs
    <3>3. QED
      BY <2>2, <3>1, <3>2 DEF longer
  <2>8. QED
    BY <2>3, <2>4, <2>5, <2>7
<1>2. CASE WithoutDebugger
  BY <1>2, NextKeepsType DEF WithoutDebugger, debuggerVars
<1>3. CASE UNCHANGED <<vars, debuggerVars>>
  BY <1>3 DEF vars, debuggerVars, TypeOK
<1>4. QED
  BY <1>1, <1>2, <1>3 DEF DebuggerNext

(* Whatever program runs and whenever the NMIs, IRQs and resets come: the  *)
(* registers, flags, addresses and cells of memory hold what the types of  *)
(* the code hold, and the backtrace stays below its limit.                 *)
THEOREM TypeCorrect == DebuggerSpec => []DebuggerTypeOK
<1>1. DebuggerInv => DebuggerTypeOK
  BY DEF DebuggerInv
<1>2. QED
  BY TypeOKInit, TypeOKStep, <1>1, PTL DEF DebuggerSpec

-----------------------------------------------------------------------------
(* Exact arithmetic: what the opcodes that add and subtract do to the      *)
(* accumulator and the flags.                                              *)

(* What ADC, SBC and their relatives leave in A, C and V.                  *)
LEMMA CombineIsSum ==
  ASSUME NEW c, IsCpu(c), NEW op \in {"ADC", "SBC", "USBC"}, NEW val \in Byte
  PROVE  LET sum == IF op = "ADC" THEN add_with_carry(c.r.A, val, c.f.C)
                                  ELSE sub_with_borrow(c.r.A, val, c.f.C)
             after == Combine(c, op, val)
         IN /\ after.r.A = sum.res /\ after.f.C = sum.C /\ after.f.V = sum.V
            /\ after.mem = c.mem
<1> DEFINE sum == add_with_carry(c.r.A, val, c.f.C)
           difference == sub_with_borrow(c.r.A, val, c.f.C)
           after == Combine(c, op, val)
<1>1. c.r.A \in Byte /\ c.f.C \in Carry
  BY DEF IsCpu, Registers, BitOf
<1>2. sum.res \in Byte /\ sum.C \in Carry
  BY <1>1, AdditionIsExact
<1>3. difference.res \in Byte /\ difference.C \in Carry
  BY <1>1, SubtractionIsExact
<1>4. sum.V \in Carry
  BY DEF add_with_carry, Flag, Carry
<1>5. difference.V \in Carry
  BY DEF sub_with_borrow, add_with_carry, Flag, Carry
<1>6. after = IF op = "ADC" THEN Arithmetic(c, sum) ELSE Arithmetic(c, difference)
  <2>1. CASE op = "ADC"
    BY <2>1, Zenon DEF Combine, ComparesReg
  <2>2. CASE op \in {"SBC", "USBC"}
    BY <2>2, Zenon DEF Combine, ComparesReg
  <2>3. QED
    BY <2>1, <2>2
<1> HIDE DEF sum, difference, after
<1>7. CASE op = "ADC"
  <2>1. /\ after.r.A = sum.res /\ after.f.C = sum.C /\ after.f.V = sum.V
        /\ after.mem = c.mem
    BY <1>2, <1>4, <1>6, <1>7, ArithmeticKeeps
  <2>2. QED
    BY <1>7, <2>1 DEF sum, after
<1>8. CASE op # "ADC"
  <2>1. /\ after.r.A = difference.res /\ after.f.C = difference.C
        /\ after.f.V = difference.V /\ after.mem = c.mem
    BY <1>3, <1>5, <1>6, <1>8, ArithmeticKeeps
  <2>2. QED
    BY <1>8, <2>1 DEF difference, after
<1>9. QED
  BY <1>7, <1>8

(* The same in the words of the property, for an operand and a carry.      *)
LEMMA AddingIsExact ==
  ASSUME NEW a \in Byte, NEW val \in Byte, NEW carry \in Carry
  PROVE  LET sum == add_with_carry(a, val, carry)
             signedSum == Signed(a) + Signed(val) + carry
         IN /\ sum.res + (256 * sum.C) = a + val + carry
            /\ sum.V = Flag(signedSum \notin -128 .. 127)
            /\ sum.V = 0 => Signed(sum.res) = signedSum
<1> DEFINE sum == add_with_carry(a, val, carry)
           signedSum == Signed(a) + Signed(val) + carry
<1>1. sum.res + (2*Sign)*sum.C = a + val + carry
  BY AdditionIsExact
<1>2. /\ sum.V = Flag(signedSum \notin -Sign .. Sign - 1)
      /\ sum.V = 0 => Signed(sum.res) = signedSum
  BY OverflowIsSignedOverflow
<1>3. 2*Sign = 256 /\ -Sign = -128 /\ Sign - 1 = 127
  BY SignIsBit7
<1> HIDE DEF sum, signedSum
<1>4. /\ sum.res + (256 * sum.C) = a + val + carry
      /\ sum.V = Flag(signedSum \notin -128 .. 127)
      /\ sum.V = 0 => Signed(sum.res) = signedSum
  BY <1>1, <1>2, <1>3, Zenon
<1>5. QED
  BY <1>4 DEF sum, signedSum

LEMMA SubtractingIsExact ==
  ASSUME NEW a \in Byte, NEW val \in Byte, NEW carry \in Carry
  PROVE  LET difference == sub_with_borrow(a, val, carry)
             signedDifference == Signed(a) - Signed(val) - (1 - carry)
         IN /\ difference.res + (256 * difference.C) = a - val - (1 - carry) + 256
            /\ difference.V = Flag(signedDifference \notin -128 .. 127)
            /\ difference.V = 0 => Signed(difference.res) = signedDifference
<1> DEFINE difference == sub_with_borrow(a, val, carry)
           signedDifference == Signed(a) - Signed(val) - (1 - carry)
<1>1. /\ difference.res \in Byte /\ difference.C \in Carry
      /\ difference.res = a - val - (1 - carry) + (2*Sign)*(1 - difference.C)
  BY SubtractionIsExact
<1>2. /\ difference.V = Flag(signedDifference \notin -Sign .. Sign - 1)
      /\ difference.V = 0 => Signed(difference.res) = signedDifference
  BY SubtractionIsExact
<1>3. 2*Sign = 256 /\ -Sign = -128 /\ Sign - 1 = 127
  BY SignIsBit7
<1> HIDE DEF difference, signedDifference
<1>4. difference.res = a - val - (1 - carry) + 256 * (1 - difference.C)
  BY <1>1, <1>3, Zenon
<1>5. a \in Nat /\ val \in Nat /\ difference.res \in Nat
  BY <1>1, ByteIsNat
<1>6. difference.res + (256 * difference.C) = a - val - (1 - carry) + 256
  BY <1>1, <1>4, <1>5 DEF Carry
<1>7. /\ difference.V = Flag(signedDifference \notin -128 .. 127)
      /\ difference.V = 0 => Signed(difference.res) = signedDifference
  BY <1>2, <1>3, Zenon
<1>8. QED
  BY <1>6, <1>7 DEF difference, signedDifference

LEMMA ExactIfSum ==
  ASSUME NEW inst, IsCpu(cpu), NEW val \in Byte, NEW carry \in Carry,
         Operand(inst) = val, CarryIn(inst) = carry,
         LET sum == IF inst.op \in {"ADC", "RRA"}
                    THEN add_with_carry(cpu.r.A, val, carry)
                    ELSE sub_with_borrow(cpu.r.A, val, carry)
         IN cpu'.r.A = sum.res /\ cpu'.f.C = sum.C /\ cpu'.f.V = sum.V
  PROVE  Exact(inst)
<1>1. cpu.r.A \in Byte
  BY DEF IsCpu, Registers
<1>2. CASE inst.op \in {"ADC", "RRA"}
  <2> DEFINE sum == add_with_carry(cpu.r.A, val, carry)
             signedSum == Signed(cpu.r.A) + Signed(val) + carry
  <2>1. /\ sum.res + (256 * sum.C) = cpu.r.A + val + carry
        /\ sum.V = Flag(signedSum \notin -128 .. 127)
        /\ sum.V = 0 => Signed(sum.res) = signedSum
    BY <1>1, AddingIsExact
  <2>2. cpu'.r.A = sum.res /\ cpu'.f.C = sum.C /\ cpu'.f.V = sum.V
    BY <1>2, Zenon
  <2> HIDE DEF sum
  <2>3. QED
    BY <1>2, <2>1, <2>2, Zenon DEF Exact
<1>3. CASE inst.op \notin {"ADC", "RRA"}
  <2> DEFINE difference == sub_with_borrow(cpu.r.A, val, carry)
             signedDifference == Signed(cpu.r.A) - Signed(val) - (1 - carry)
  <2>1. /\ difference.res + (256 * difference.C) = cpu.r.A - val - (1 - carry) + 256
        /\ difference.V = Flag(signedDifference \notin -128 .. 127)
        /\ difference.V = 0 => Signed(difference.res) = signedDifference
    BY <1>1, SubtractingIsExact
  <2>2. cpu'.r.A = difference.res /\ cpu'.f.C = difference.C /\ cpu'.f.V = difference.V
    BY <1>3, Zenon
  <2> HIDE DEF difference
  <2>3. QED
    BY <1>3, <2>1, <2>2, Zenon DEF Exact
<1>4. QED
  BY <1>2, <1>3

LEMMA TickIsExact ==
  ASSUME IsCpu(cpu), tick,
         fetch_next_instruction(cpu).op \in {"ADC", "RRA", "SBC", "USBC", "ISC"}
  PROVE  Exact(fetch_next_instruction(cpu))
<1> DEFINE inst == fetch_next_instruction(cpu)
           effect == Effect(cpu, inst)
           value == Value(cpu, inst)
<1>1. /\ Instruction(inst) /\ cpu'.r = effect.r /\ cpu'.f = effect.f
      /\ cpu'.mem = effect.mem
  BY ExecuteKeeps DEF tick
<1>2. inst.op \in {"ADC", "RRA", "SBC", "USBC", "ISC"}
  OBVIOUS
<1> HIDE DEF inst
<1>3. /\ inst.operands[1] \in Byte /\ inst.operands[2] \in Byte
      /\ Legal(inst.op, inst.mode)
  BY <1>1 DEF Instruction
<1>4. value \in Byte /\ cpu.r.A \in Byte /\ cpu.f.C \in Carry
  BY <1>3, ValueIsByte DEF IsCpu, Registers, BitOf
<1>5. CASE inst.op \in {"ADC", "SBC", "USBC"}
  <2> DEFINE resolved == Resolved(cpu, inst)
  <2>1. IsCpu(resolved) /\ resolved.r = cpu.r /\ resolved.f = cpu.f
    BY ResolvedKeeps
  <2>2. effect = Combine(resolved, inst.op, value)
    BY <1>5, Zenon DEF Effect, CountedBy, FlagOps, LoadedBy, Moves, BranchesOn, Combination
  <2> HIDE DEF resolved, effect, value
  <2>3. LET sum == IF inst.op = "ADC" THEN add_with_carry(resolved.r.A, value, resolved.f.C)
                                      ELSE sub_with_borrow(resolved.r.A, value, resolved.f.C)
        IN effect.r.A = sum.res /\ effect.f.C = sum.C /\ effect.f.V = sum.V
    BY <1>4, <1>5, <2>1, <2>2, CombineIsSum
  <2>4. LET sum == IF inst.op \in {"ADC", "RRA"} THEN add_with_carry(cpu.r.A, value, cpu.f.C)
                                     ELSE sub_with_borrow(cpu.r.A, value, cpu.f.C)
        IN cpu'.r.A = sum.res /\ cpu'.f.C = sum.C /\ cpu'.f.V = sum.V
    <3>1. (inst.op \in {"ADC", "RRA"}) = (inst.op = "ADC")
      BY <1>5
    <3>2. QED
      BY <1>1, <2>1, <2>3, <3>1, Zenon
  <2>5. Operand(inst) = value /\ CarryIn(inst) = cpu.f.C
    BY <1>5 DEF Operand, CarryIn, value
  <2>6. QED
    BY <1>4, <2>4, <2>5, ExactIfSum DEF inst
<1>6. CASE inst.op \in {"RRA", "ISC"}
  <2> DEFINE first == IF inst.op = "RRA" THEN "ROR" ELSE "INC"
             second == IF inst.op = "RRA" THEN "ADC" ELSE "SBC"
             m == Modified(cpu, first, value)
             after == ModifyMemory(cpu, inst, first)
  <2>1. inst.mode \in Addressed /\ inst.op \in DOMAIN Combination
    BY <1>3, <1>6 DEF Legal, Readers, LoadedBy, Combining, Shifts, Others, CountedBy,
                      FlagOps, Moves, BranchesOn, Combination
  <2>2. first \in Shifts \union {"DEC", "INC"} /\ second \in {"ADC", "SBC", "USBC"}
    BY DEF Shifts
  <2>3. Combination[inst.op][1] = first /\ Combination[inst.op][2] = second
    BY <1>6 DEF Combination
  <2>4. effect = ModifyAndCombine(cpu, inst)
    BY <2>1, Zenon DEF Effect, CountedBy, FlagOps, LoadedBy, Moves, BranchesOn, Combination
  <2>5. effect = Combine(after, second, m.res)
    BY <2>3, <2>4, Zenon DEF ModifyAndCombine
  <2>6. m.C = IF inst.op = "RRA" THEN value % 2 ELSE cpu.f.C
    <3>1. CASE inst.op = "RRA"
      <4>1. m = rotate_right(value, cpu.f.C)
        BY <3>1, Zenon DEF Modified
      <4>2. QED
        BY <3>1, <4>1 DEF rotate_right, shift_right
    <3>2. CASE inst.op = "ISC"
      <4>1. m = [res |-> Wrap(value + 1), C |-> cpu.f.C]
        BY <3>2, Zenon DEF Modified
      <4>2. QED
        BY <3>2, <4>1
    <3>3. QED
      BY <1>6, <3>1, <3>2
  <2>7. m.res \in Byte /\ m.C \in Carry
    BY <1>4, <2>2, ModifiedIsByte
  <2> HIDE DEF first
  <2>8. /\ IsCpu(after) /\ after.r = cpu.r /\ after.f.C = m.C
        /\ read8(after, resolve(cpu, inst)) = m.res
    BY <1>3, <2>1, <2>2, ModifyMemoryKeeps
  <2> HIDE DEF m, after, second, value, effect
  <2>9. /\ LET sum == IF second = "ADC" THEN add_with_carry(after.r.A, m.res, after.f.C)
                                        ELSE sub_with_borrow(after.r.A, m.res, after.f.C)
           IN effect.r.A = sum.res /\ effect.f.C = sum.C /\ effect.f.V = sum.V
        /\ effect.mem = after.mem
    BY <2>2, <2>5, <2>7, <2>8, CombineIsSum
  <2>10. (second = "ADC") = (inst.op \in {"ADC", "RRA"})
    BY <1>6 DEF second
  <2>11. LET sum == IF inst.op \in {"ADC", "RRA"} THEN add_with_carry(cpu.r.A, m.res, m.C)
                                      ELSE sub_with_borrow(cpu.r.A, m.res, m.C)
         IN cpu'.r.A = sum.res /\ cpu'.f.C = sum.C /\ cpu'.f.V = sum.V
    BY <1>1, <2>8, <2>9, <2>10, Zenon
  <2>12. Operand(inst) = m.res
    <3>1. read8(cpu', resolve(cpu, inst)) = read8(after, resolve(cpu, inst))
      BY <1>1, <2>9 DEF read8
    <3>2. QED
      BY <1>6, <2>8, <3>1 DEF Operand
  <2>13. CarryIn(inst) = m.C
    BY <1>6, <2>6 DEF CarryIn, value
  <2>14. QED
    BY <2>7, <2>11, <2>12, <2>13, ExactIfSum DEF inst
<1>7. QED
  BY <1>2, <1>5, <1>6

(* For every program and every state it can get to: an addition or a       *)
(* subtraction leaves the exact unsigned result in the accumulator and the *)
(* carry, and V tells whether the signed result fits, for ADC, SBC, USBC   *)
(* and for RRA and ISC, which first modify the operand in memory.          *)
THEOREM SumsAreExact == DebuggerSpec => ArithmeticIsExact
<1>1. ASSUME DebuggerInv, [DebuggerNext]_<<vars, debuggerVars>>
      PROVE  [tick => LET inst == fetch_next_instruction(cpu)
                      IN inst.op \in {"ADC", "RRA", "SBC", "USBC", "ISC"} => Exact(inst)
             ]_vars
  <2>1. IsCpu(cpu)
    BY <1>1 DEF DebuggerInv, DebuggerTypeOK, TypeOK
  <2>2. QED
    BY <2>1, TickIsExact
<1>2. QED
  BY TypeOKInit, TypeOKStep, <1>1, PTL DEF DebuggerSpec, ArithmeticIsExact

-----------------------------------------------------------------------------
(* Breakpoints.  The backtrace forgets; a sequence of opcodes is found as  *)
(* long as it fits in what the backtrace keeps, 10 opcodes in the code.    *)

Recognisable(breakpoint) ==
  \/ breakpoint.at = "address"
  \/ breakpoint.at = "opcode"
  \/ /\ breakpoint.at = "sequence"
     /\ Len(breakpoint.opcodes) \in Nat
     /\ Len(breakpoint.opcodes) < BACKTRACE_LIMIT
     /\ Len(breakpoint.opcodes) <= MaxTrace

AllRecognisable ==
  /\ 1 < BACKTRACE_LIMIT /\ 0 < MaxTrace
  /\ \A set \in Breakpoints : \A b \in set : Recognisable(b)

(* Two histories that end alike: neither lacks an entry that the other has *)
(* among the last n.                                                       *)
EndAlike(s, t, n) ==
  /\ Len(s) = Len(t) \/ (Len(s) >= n /\ Len(t) >= n)
  /\ \A k \in Nat : k < Len(s) /\ k < Len(t) => s[Len(s) - k] = t[Len(t) - k]

RecallInv ==
  /\ DebuggerInv
  /\ \A n \in Nat : n < BACKTRACE_LIMIT /\ n <= MaxTrace => EndAlike(backtrace, trace, n)
  /\ \A b \in breakpoints : Recognisable(b)

LEMMA AppendEndsAlike ==
  ASSUME NEW S, NEW s \in Seq(S), NEW t \in Seq(S), NEW op \in S, NEW n \in Nat,
         EndAlike(s, t, n)
  PROVE  EndAlike(Append(s, op), Append(t, op), n)
<1>1. /\ Len(s) \in Nat /\ Len(t) \in Nat
      /\ Len(Append(s, op)) = Len(s) + 1 /\ Len(Append(t, op)) = Len(t) + 1
  BY AppendProperties
<1>2. /\ \A k \in 1 .. Len(s) : Append(s, op)[k] = s[k]
      /\ \A k \in 1 .. Len(t) : Append(t, op)[k] = t[k]
      /\ Append(s, op)[Len(s) + 1] = op /\ Append(t, op)[Len(t) + 1] = op
  BY AppendProperties
<1>3. ASSUME NEW k \in Nat, k < Len(s) + 1, k < Len(t) + 1
      PROVE  Append(s, op)[Len(s) + 1 - k] = Append(t, op)[Len(t) + 1 - k]
  <2>1. CASE k = 0
    BY <1>1, <1>2, <2>1
  <2>2. CASE k > 0
    <3>1. k - 1 \in Nat /\ k - 1 < Len(s) /\ k - 1 < Len(t)
      BY <1>1, <1>3, <2>2
    <3>2. s[Len(s) - (k - 1)] = t[Len(t) - (k - 1)]
      BY <3>1 DEF EndAlike
    <3>3. /\ Len(s) + 1 - k = Len(s) - (k - 1) /\ Len(s) - (k - 1) \in 1 .. Len(s)
          /\ Len(t) + 1 - k = Len(t) - (k - 1) /\ Len(t) - (k - 1) \in 1 .. Len(t)
      BY <1>1, <1>3, <2>2
    <3>4. QED
      BY <1>2, <3>2, <3>3
  <2>3. QED
    BY <1>3, <2>1, <2>2
<1>4. \/ Len(s) + 1 = Len(t) + 1
      \/ Len(s) + 1 >= n /\ Len(t) + 1 >= n
  BY <1>1 DEF EndAlike
<1>5. QED
  BY <1>1, <1>3, <1>4 DEF EndAlike

(* What drops entries from the front, and keeps n, ends like before.       *)
LEMMA DroppingEndsAlike ==
  ASSUME NEW s, NEW t, NEW u, NEW n \in Nat, EndAlike(s, t, n),
         Len(s) \in Nat, Len(t) \in Nat, Len(u) \in Nat,
         Len(u) <= Len(s), Len(u) = Len(s) \/ Len(u) >= n,
         \A k \in Nat : k < Len(u) => u[Len(u) - k] = s[Len(s) - k]
  PROVE  EndAlike(u, t, n)
<1>1. Len(u) = Len(t) \/ (Len(u) >= n /\ Len(t) >= n)
  BY DEF EndAlike
<1>2. \A k \in Nat : k < Len(u) /\ k < Len(t) => u[Len(u) - k] = t[Len(t) - k]
  BY DEF EndAlike
<1>3. QED
  BY <1>1, <1>2 DEF EndAlike

LEMMA EndAlikeSymmetric ==
  ASSUME NEW s, NEW t, NEW n, EndAlike(s, t, n) PROVE EndAlike(t, s, n)
BY DEF EndAlike

LEMMA LatestAlike ==
  ASSUME NEW S, NEW s \in Seq(S), NEW t \in Seq(S), NEW n \in Nat, EndAlike(s, t, n)
  PROVE  Latest(s, n) = Latest(t, n)
<1> DEFINE length == IF Len(s) <= n THEN Len(s) ELSE n
<1>1. Len(s) \in Nat /\ Len(t) \in Nat
  OBVIOUS
<1>2. length = IF Len(t) <= n THEN Len(t) ELSE n
  BY <1>1 DEF EndAlike
<1>3. length \in Nat /\ length <= Len(s) /\ length <= Len(t)
  BY <1>1, <1>2
<1>4. /\ Latest(s, n) \in Seq(S) /\ Len(Latest(s, n)) = length
      /\ \A k \in 1 .. length : Latest(s, n)[k] = s[Len(s) - length + k]
  BY LatestIs
<1>5. /\ Latest(t, n) \in Seq(S)
      /\ Len(Latest(t, n)) = IF Len(t) <= n THEN Len(t) ELSE n
      /\ \A k \in 1 .. (IF Len(t) <= n THEN Len(t) ELSE n) :
           Latest(t, n)[k] = t[Len(t) - (IF Len(t) <= n THEN Len(t) ELSE n) + k]
  BY LatestIs
<1>6. /\ Len(Latest(t, n)) = length
      /\ \A k \in 1 .. length : Latest(t, n)[k] = t[Len(t) - length + k]
  BY <1>2, <1>5, Zenon
<1> HIDE DEF length
<1>7. ASSUME NEW k \in 1 .. length PROVE Latest(s, n)[k] = Latest(t, n)[k]
  <2>1. /\ length - k \in Nat /\ length - k < Len(s) /\ length - k < Len(t)
        /\ Len(s) - (length - k) = Len(s) - length + k
        /\ Len(t) - (length - k) = Len(t) - length + k
    BY <1>1, <1>3
  <2>2. s[Len(s) - (length - k)] = t[Len(t) - (length - k)]
    BY <2>1 DEF EndAlike
  <2>3. QED
    BY <1>4, <1>6, <2>1, <2>2
<1>8. QED
  BY <1>4, <1>5, <1>6, <1>7, SeqEqual

(* A recognisable breakpoint is hit on both histories or on neither.       *)
LEMMA HitsAlike ==
  ASSUME NEW S, NEW s \in Seq(S), NEW t \in Seq(S), Len(s) > 0, Len(t) > 0,
         \A n \in Nat : n < BACKTRACE_LIMIT /\ n <= MaxTrace => EndAlike(s, t, n),
         NEW b, Recognisable(b), NEW pc, Hits(b, pc, t), 1 < BACKTRACE_LIMIT, 0 < MaxTrace
  PROVE  Hits(b, pc, s)
<1>1. Len(s) \in Nat /\ Len(t) \in Nat
  OBVIOUS
<1>2. CASE b.at = "address"
  BY <1>2, Zenon DEF Hits
<1>3. CASE b.at = "opcode"
  <2>1. EndAlike(s, t, 0)
    BY LimitAssumption
  <2>2. s[Len(s) - 0] = t[Len(t) - 0]
    BY <1>1, <2>1 DEF EndAlike
  <2>3. Last(s) = Last(t)
    BY <1>1, <2>2 DEF Last
  <2>4. b.opcode = Last(t)
    BY <1>3, Zenon DEF Hits
  <2>5. b.opcode = Last(s)
    BY <2>3, <2>4
  <2>6. QED
    BY <1>3, <2>5, Zenon DEF Hits
<1>4. CASE b.at = "sequence"
  <2>1. /\ Len(b.opcodes) \in Nat /\ Len(b.opcodes) < BACKTRACE_LIMIT
        /\ Len(b.opcodes) <= MaxTrace
    BY <1>4 DEF Recognisable
  <2>2. Latest(t, Len(b.opcodes)) = b.opcodes
    BY <1>4, Zenon DEF Hits
  <2>3. Latest(s, Len(b.opcodes)) = Latest(t, Len(b.opcodes))
    BY <2>1, LatestAlike
  <2>4. QED
    BY <1>4, <2>2, <2>3, Zenon DEF Hits
<1>5. QED
  BY <1>2, <1>3, <1>4 DEF Recognisable

LEMMA RecallInit == AllRecognisable /\ DebuggerInit => RecallInv
<1> SUFFICES ASSUME AllRecognisable, DebuggerInit PROVE RecallInv
  OBVIOUS
<1>1. backtrace = <<>> /\ trace = <<>>
  BY Zenon DEF DebuggerInit
<1>2. \A n \in Nat : EndAlike(backtrace, trace, n)
  BY <1>1 DEF EndAlike
<1>3. \A b \in breakpoints : Recognisable(b)
  <2>1. breakpoints = {} \/ breakpoints \in Breakpoints
    BY Zenon DEF DebuggerInit
  <2>2. QED
    BY <2>1 DEF AllRecognisable
<1>4. QED
  BY <1>2, <1>3, TypeOKInit DEF RecallInv

(* After an instruction both histories have it, and still end alike.       *)
LEMMA TickRecalls ==
  ASSUME RecallInv, DebuggerTick, 0 < MaxTrace, 1 < BACKTRACE_LIMIT
  PROVE  /\ backtrace' \in Seq(Opcodes) /\ trace' \in Seq(Opcodes)
         /\ Len(backtrace') > 0 /\ Len(trace') > 0
         /\ \A n \in Nat : n < BACKTRACE_LIMIT /\ n <= MaxTrace
                           => EndAlike(backtrace', trace', n)
<1> DEFINE op == fetch_next_instruction(cpu).op
           s == Append(backtrace, op)
           t == Append(trace, op)
<1>1. op \in Opcodes
  BY FetchedOpcode DEF DebuggerTick, tick
<1>2. backtrace' = Remember(op) /\ trace' = Latest(t, MaxTrace)
  BY DEF DebuggerTick, on_tick
<1>3. /\ backtrace \in Seq(Opcodes) /\ trace \in Seq(Opcodes)
      /\ Len(backtrace) < BACKTRACE_LIMIT /\ MaxTrace \in Nat /\ BACKTRACE_LIMIT \in Nat
  BY LimitAssumption DEF RecallInv, DebuggerInv, DebuggerTypeOK
<1> HIDE DEF op
<1>4. /\ s \in Seq(Opcodes) /\ t \in Seq(Opcodes)
      /\ Len(s) \in Nat /\ Len(t) \in Nat /\ Len(s) > 0 /\ Len(t) > 0
      /\ Len(s) <= BACKTRACE_LIMIT
  BY <1>1, <1>3, AppendProperties
<1>5. \A n \in Nat : n < BACKTRACE_LIMIT /\ n <= MaxTrace => EndAlike(s, t, n)
  BY <1>1, <1>3, AppendEndsAlike DEF RecallInv
<1>6. Remember(op) = IF Len(s) = BACKTRACE_LIMIT THEN Tail(s) ELSE s
  BY DEF Remember
<1> HIDE DEF s, t
<1>7. /\ backtrace' \in Seq(Opcodes) /\ Len(backtrace') \in Nat /\ Len(backtrace') > 0
      /\ Len(backtrace') <= Len(s)
      /\ Len(backtrace') = Len(s) \/ Len(backtrace') = BACKTRACE_LIMIT - 1
      /\ \A k \in Nat : k < Len(backtrace') => backtrace'[Len(backtrace') - k] = s[Len(s) - k]
  <2>1. CASE Len(s) = BACKTRACE_LIMIT
    <3>1. backtrace' = Tail(s)
      BY <1>2, <1>6, <2>1
    <3>2. /\ Tail(s) \in Seq(Opcodes) /\ Len(Tail(s)) = Len(s) - 1
          /\ \A i \in 1 .. Len(s) - 1 : Tail(s)[i] = s[i + 1]
      BY <1>4
    <3>3. ASSUME NEW k \in Nat, k < Len(s) - 1
          PROVE  /\ Len(s) - 1 - k \in 1 .. Len(s) - 1
                 /\ Len(s) - 1 - k + 1 = Len(s) - k
      BY <1>4, <3>3
    <3>4. ASSUME NEW k \in Nat, k < Len(Tail(s))
          PROVE  Tail(s)[Len(Tail(s)) - k] = s[Len(s) - k]
      BY <3>2, <3>3, <3>4
    <3> DEFINE u == Tail(s)
    <3>5. /\ u \in Seq(Opcodes) /\ Len(u) = Len(s) - 1 /\ backtrace' = u
          /\ \A k \in Nat : k < Len(u) => u[Len(u) - k] = s[Len(s) - k]
      BY <3>1, <3>2, <3>4
    <3> HIDE DEF u
    <3>6. Len(s) - 1 \in Nat /\ Len(s) - 1 > 0 /\ Len(s) - 1 <= Len(s)
          /\ Len(s) - 1 = BACKTRACE_LIMIT - 1
      BY <1>3, <1>4, <2>1
    <3>7. QED
      BY <3>5, <3>6, Zenon
  <2>2. CASE Len(s) # BACKTRACE_LIMIT
    BY <1>2, <1>4, <1>6, <2>2
  <2>3. QED
    BY <2>1, <2>2
<1>8. /\ trace' \in Seq(Opcodes) /\ Len(trace') \in Nat /\ Len(trace') > 0
      /\ Len(trace') <= Len(t)
      /\ Len(trace') = Len(t) \/ Len(trace') = MaxTrace
      /\ \A k \in Nat : k < Len(trace') => trace'[Len(trace') - k] = t[Len(t) - k]
  <2> DEFINE length == IF Len(t) <= MaxTrace THEN Len(t) ELSE MaxTrace
  <2>1. /\ trace' \in Seq(Opcodes) /\ Len(trace') = length
        /\ \A i \in 1 .. length : trace'[i] = t[Len(t) - length + i]
    <3>1. /\ Latest(t, MaxTrace) \in Seq(Opcodes) /\ Len(Latest(t, MaxTrace)) = length
          /\ \A i \in 1 .. length : Latest(t, MaxTrace)[i] = t[Len(t) - length + i]
      <4>1. t \in Seq(Opcodes) /\ MaxTrace \in Nat
        BY <1>3, <1>4
      <4>2. QED
        BY <4>1, LatestIs, Zenon
    <3>2. QED
      BY <1>2, <3>1, Zenon
  <2>2. /\ length \in Nat /\ length > 0 /\ length <= Len(t)
        /\ length = Len(t) \/ length = MaxTrace
    BY <1>3, <1>4
  <2> HIDE DEF length
  <2>3. ASSUME NEW k \in Nat, k < length
        PROVE  length - k \in 1 .. length /\ Len(t) - length + (length - k) = Len(t) - k
    BY <1>4, <2>2, <2>3
  <2>4. QED
    BY <2>1, <2>2, <2>3
<1>9. ASSUME NEW n \in Nat, n < BACKTRACE_LIMIT, n <= MaxTrace
      PROVE  EndAlike(backtrace', trace', n)
  <2>1. Len(backtrace') = Len(s) \/ Len(backtrace') >= n
    BY <1>3, <1>7, <1>9
  <2>2. Len(trace') = Len(t) \/ Len(trace') >= n
    BY <1>3, <1>8, <1>9
  <2>3. EndAlike(s, t, n)
    BY <1>5, <1>9
  <2>4. EndAlike(backtrace', t, n)
    BY <1>4, <1>7, <2>1, <2>3, DroppingEndsAlike
  <2>5. EndAlike(t, backtrace', n)
    BY <2>4, EndAlikeSymmetric
  <2>6. EndAlike(trace', backtrace', n)
    BY <1>4, <1>7, <1>8, <2>2, <2>5, DroppingEndsAlike
  <2>7. QED
    BY <2>6, EndAlikeSymmetric
<1>10. QED
  BY <1>7, <1>8, <1>9

LEMMA RecallStep ==
  AllRecognisable /\ RecallInv /\ [DebuggerNext]_<<vars, debuggerVars>> => RecallInv'
<1> SUFFICES ASSUME AllRecognisable, RecallInv, [DebuggerNext]_<<vars, debuggerVars>>
             PROVE  RecallInv'
  OBVIOUS
<1>1. DebuggerInv'
  BY TypeOKStep DEF RecallInv
<1>2. CASE DebuggerTick
  <2>1. breakpoints' = breakpoints \/ breakpoints' = {}
    BY <1>2 DEF DebuggerTick, on_tick, user_input
  <2>2. \A n \in Nat : n < BACKTRACE_LIMIT /\ n <= MaxTrace
                       => EndAlike(backtrace', trace', n)
    BY <1>2, TickRecalls DEF AllRecognisable
  <2>3. QED
    BY <1>1, <2>1, <2>2 DEF RecallInv
<1>3. CASE UNCHANGED debuggerVars
  BY <1>1, <1>3 DEF RecallInv, debuggerVars
<1>4. QED
  BY <1>2, <1>3 DEF DebuggerNext, WithoutDebugger

(* The debugger stops where it was told to: as long as the sequences of    *)
(* opcodes to stop at are shorter than the backtrace, what the backtrace   *)
(* forgot is nothing a breakpoint needs.                                   *)
THEOREM DebuggerStops ==
  ASSUME AllRecognisable
  PROVE  DebuggerSpec => StopsAtBreakpoints
<1>1. AllRecognisable
  OBVIOUS
<1>2. ASSUME RecallInv, DebuggerTick
      PROVE  asked' \/ \A b \in breakpoints : ~Hits(b, cpu.pc, trace')
  <2>1. /\ backtrace' \in Seq(Opcodes) /\ trace' \in Seq(Opcodes)
        /\ Len(backtrace') > 0 /\ Len(trace') > 0
        /\ \A n \in Nat : n < BACKTRACE_LIMIT /\ n <= MaxTrace
                          => EndAlike(backtrace', trace', n)
    BY <1>1, <1>2, TickRecalls DEF AllRecognisable
  <2>2. ASSUME NEW b \in breakpoints, Hits(b, cpu.pc, trace')
        PROVE  Hits(b, cpu.pc, backtrace')
    BY <1>1, <1>2, <2>1, <2>2, HitsAlike DEF RecallInv, AllRecognisable
  <2>3. is_breakpoint(cpu.pc, backtrace') => asked'
    BY <1>2 DEF DebuggerTick, on_tick
  <2>4. QED
    BY <2>2, <2>3 DEF is_breakpoint
<1>3. DebuggerInit => RecallInv
  BY <1>1, RecallInit
<1>4. RecallInv /\ [DebuggerNext]_<<vars, debuggerVars>> => RecallInv'
  BY <1>1, RecallStep
<1>5. ASSUME RecallInv, [DebuggerNext]_<<vars, debuggerVars>>
      PROVE  [DebuggerTick => \/ asked'
                              \/ \A b \in breakpoints : ~Hits(b, cpu.pc, trace')
             ]_<<vars, debuggerVars>>
  BY <1>2, <1>5
<1>6. QED
  BY <1>3, <1>4, <1>5, PTL DEF DebuggerSpec, StopsAtBreakpoints
-----------------------------------------------------------------------------
(* Interrupts are transparent.  The proof compares two CPUs: the one that  *)
(* was interrupted, and the one that runs the program alone.  They are     *)
(* alike but for some cells of memory; an instruction that reads none of   *)
(* these leaves them alike, but for the cells among these that it wrote.   *)

SameCell(c, d, a) ==
  (a \in DOMAIN c.mem <=> a \in DOMAIN d.mem) /\ read8(c, a) = read8(d, a)

SameBut(c, d, W) == \A a : a \notin W => SameCell(c, d, a)

Alike(c, m, H) == c.pc = m.pc /\ c.r = m.r /\ c.f = m.f /\ SameBut(c, m, H)

(* What a handler's instruction leaves as it was: memory but for W, the    *)
(* two bits that only the stack has, and the mask if it is set.            *)
Kept(c, d, W) ==
  /\ SameBut(c, d, W)
  /\ d.f.B = c.f.B /\ d.f.UNUSED = c.f.UNUSED
  /\ c.f.I = 1 => d.f.I = 1

(* From c and m to d and n: both did the same, and c kept what it must.    *)
InStep(c, m, d, n, H, W) == Alike(d, n, H \ W) /\ Kept(c, d, W)

LEMMA SameMemory ==
  ASSUME NEW c, NEW d, c.mem = d.mem, NEW a
  PROVE  SameCell(c, d, a)
BY DEF SameCell, read8

LEMMA AlikeOfFields ==
  ASSUME NEW c, NEW m, NEW H, Alike(c, m, H), NEW d, NEW n,
         d.mem = c.mem, n.mem = m.mem, d.pc = n.pc, d.r = n.r, d.f = n.f
  PROVE  Alike(d, n, H)
BY DEF Alike, SameBut, SameCell, read8

(* A step that writes no memory and leaves the three flags.                *)
LEMMA InStepOfFields ==
  ASSUME NEW c, NEW m, NEW H, Alike(c, m, H), NEW d, NEW n,
         d.mem = c.mem, n.mem = m.mem, d.pc = n.pc, d.r = n.r, d.f = n.f,
         d.f.B = c.f.B, d.f.UNUSED = c.f.UNUSED, c.f.I = 1 => d.f.I = 1
  PROVE  InStep(c, m, d, n, H, {})
<1>1. Alike(d, n, H) /\ H \ {} = H
  BY AlikeOfFields
<1>2. SameBut(c, d, {})
  BY SameMemory DEF SameBut
<1>3. QED
  BY <1>1, <1>2 DEF InStep, Kept

LEMMA InStepTwice ==
  ASSUME NEW c, NEW m, NEW H, NEW d, NEW n, NEW W, InStep(c, m, d, n, H, W),
         NEW e, NEW o, NEW V, InStep(d, n, e, o, H \ W, V)
  PROVE  InStep(c, m, e, o, H, W \union V)
<1>1. (H \ W) \ V = H \ (W \union V)
  OBVIOUS
<1>2. SameBut(c, e, W \union V)
  BY DEF InStep, Kept, SameBut, SameCell
<1>3. QED
  BY <1>1, <1>2 DEF InStep, Kept

LEMMA WriteIs ==
  ASSUME NEW c, IsCpu(c), NEW v, NEW a
  PROVE  /\ write8(c, v, a).r = c.r /\ write8(c, v, a).f = c.f
         /\ write8(c, v, a).pc = c.pc
         /\ DOMAIN write8(c, v, a).mem = DOMAIN c.mem \union {a}
         /\ \A x : read8(write8(c, v, a), x) = IF x = a THEN v ELSE read8(c, x)
<1> DEFINE w == write8(c, v, a)
<1>1. /\ w.pc = c.pc /\ w.r = c.r /\ w.f = c.f
      /\ w.mem = [x \in DOMAIN c.mem \cup {a} |-> IF x = a THEN v ELSE c.mem[x]]
  BY DEF write8, IsCpu
<1>2. /\ DOMAIN w.mem = DOMAIN c.mem \union {a}
      /\ \A x \in DOMAIN w.mem : w.mem[x] = IF x = a THEN v ELSE c.mem[x]
  BY <1>1
<1>3. QED
  BY <1>1, <1>2 DEF read8

LEMMA WriteInStep ==
  ASSUME NEW c, IsCpu(c), NEW m, IsCpu(m), NEW H, Alike(c, m, H), NEW v, NEW a
  PROVE  InStep(c, m, write8(c, v, a), write8(m, v, a), H, {a})
<1> DEFINE d == write8(c, v, a)
           n == write8(m, v, a)
<1>1. /\ d.r = c.r /\ d.f = c.f /\ d.pc = c.pc
      /\ DOMAIN d.mem = DOMAIN c.mem \union {a}
      /\ \A x : read8(d, x) = IF x = a THEN v ELSE read8(c, x)
  BY WriteIs
<1>2. /\ n.r = m.r /\ n.f = m.f /\ n.pc = m.pc
      /\ DOMAIN n.mem = DOMAIN m.mem \union {a}
      /\ \A x : read8(n, x) = IF x = a THEN v ELSE read8(m, x)
  BY WriteIs
<1> HIDE DEF d, n
<1>3. \A x : x \notin H \ {a} => SameCell(d, n, x)
  BY <1>1, <1>2 DEF Alike, SameBut, SameCell
<1>4. \A x : x \notin {a} => SameCell(c, d, x)
  BY <1>1 DEF SameCell
<1>5. InStep(c, m, d, n, H, {a})
  BY <1>1, <1>2, <1>3, <1>4 DEF InStep, Alike, Kept, SameBut
<1>6. QED
  BY <1>5 DEF d, n

(* The flags and one register.                                             *)
LEMMA NegZeroInStep ==
  ASSUME NEW c, IsCpu(c), NEW m, IsCpu(m), NEW H, Alike(c, m, H), NEW res
  PROVE  InStep(c, m, flags_set_neg_zero(c, res), flags_set_neg_zero(m, res), H, {})
<1> DEFINE d == flags_set_neg_zero(c, res)
           n == flags_set_neg_zero(m, res)
<1>1. /\ d.mem = c.mem /\ d.pc = c.pc /\ d.r = c.r
      /\ d.f = [c.f EXCEPT !.Z = Flag(res = 0), !.N = Flag(is_signed(res))]
  BY DEF flags_set_neg_zero, IsCpu
<1>2. /\ n.mem = m.mem /\ n.pc = m.pc /\ n.r = m.r
      /\ n.f = [m.f EXCEPT !.Z = Flag(res = 0), !.N = Flag(is_signed(res))]
  BY DEF flags_set_neg_zero, IsCpu
<1>3. d.f.B = c.f.B /\ d.f.UNUSED = c.f.UNUSED /\ d.f.I = c.f.I
  BY <1>1 DEF IsCpu, BitOf
<1> HIDE DEF d, n
<1>4. d.pc = n.pc /\ d.r = n.r /\ d.f = n.f
  BY <1>1, <1>2 DEF Alike
<1>5. InStep(c, m, d, n, H, {})
  BY <1>1, <1>2, <1>3, <1>4, InStepOfFields
<1>6. QED
  BY <1>5 DEF d, n

(* Any flags but the three, set alike.                                     *)
LEMMA FlagInStep ==
  ASSUME NEW c, IsCpu(c), NEW m, IsCpu(m), NEW H, Alike(c, m, H),
         NEW b \in {"N", "V", "D", "Z", "C"}, NEW v
  PROVE  InStep(c, m, [c EXCEPT !.f[b] = v], [m EXCEPT !.f[b] = v], H, {})
<1> DEFINE d == [c EXCEPT !.f[b] = v]
           n == [m EXCEPT !.f[b] = v]
<1>1. d.mem = c.mem /\ d.pc = c.pc /\ d.r = c.r /\ d.f = [c.f EXCEPT ![b] = v]
  BY DEF IsCpu
<1>2. n.mem = m.mem /\ n.pc = m.pc /\ n.r = m.r /\ n.f = [m.f EXCEPT ![b] = v]
  BY DEF IsCpu
<1>3. d.f.B = c.f.B /\ d.f.UNUSED = c.f.UNUSED /\ d.f.I = c.f.I
  BY <1>1 DEF IsCpu, BitOf
<1> HIDE DEF d, n
<1>4. d.pc = n.pc /\ d.r = n.r /\ d.f = n.f
  BY <1>1, <1>2 DEF Alike
<1>5. InStep(c, m, d, n, H, {})
  BY <1>1, <1>2, <1>3, <1>4, InStepOfFields
<1>6. QED
  BY <1>5 DEF d, n

LEMMA SetRegInStep ==
  ASSUME NEW c, IsCpu(c), NEW m, IsCpu(m), NEW H, Alike(c, m, H), NEW reg, NEW v
  PROVE  InStep(c, m, SetReg(c, reg, v), SetReg(m, reg, v), H, {})
<1> DEFINE d == SetReg(c, reg, v)
           n == SetReg(m, reg, v)
<1>1. /\ d.mem = c.mem /\ d.pc = c.pc /\ d.r = [c.r EXCEPT ![reg] = v]
      /\ d.f = [c.f EXCEPT !.Z = Flag(v = 0), !.N = Flag(is_signed(v))]
  BY DEF SetReg, flags_set_neg_zero, IsCpu
<1>2. /\ n.mem = m.mem /\ n.pc = m.pc /\ n.r = [m.r EXCEPT ![reg] = v]
      /\ n.f = [m.f EXCEPT !.Z = Flag(v = 0), !.N = Flag(is_signed(v))]
  BY DEF SetReg, flags_set_neg_zero, IsCpu
<1>3. d.f.B = c.f.B /\ d.f.UNUSED = c.f.UNUSED /\ d.f.I = c.f.I
  BY <1>1 DEF IsCpu, BitOf
<1> HIDE DEF d, n
<1>4. d.pc = n.pc /\ d.r = n.r /\ d.f = n.f
  BY <1>1, <1>2 DEF Alike
<1>5. InStep(c, m, d, n, H, {})
  BY <1>1, <1>2, <1>3, <1>4, InStepOfFields
<1>6. QED
  BY <1>5 DEF d, n

(* Operands: the address, if the pointer's cells are alike, and the value. *)
LEMMA ResolveAlike ==
  ASSUME NEW c, NEW m, NEW H, Alike(c, m, H), NEW inst, inst.mode \in Addressed,
         H \cap PointerCells(c, inst) = {}
  PROVE  /\ BaseAddress(m, inst) = BaseAddress(c, inst)
         /\ resolve(m, inst) = resolve(c, inst)
<1> DEFINE low == inst.operands[1]
           high == inst.operands[2]
<1>1. \A a : a \notin H => read8(m, a) = read8(c, a)
  BY DEF Alike, SameBut, SameCell
<1>2. m.r = c.r
  BY DEF Alike
<1>3. ASSUME NEW p, NEW q, 256 * q + p \notin H, 256 * q + Wrap(p + 1) \notin H
      PROVE  Pointer(m, p, q) = Pointer(c, p, q)
  <2>1. /\ read8(m, 256 * q + p) = read8(c, 256 * q + p)
        /\ read8(m, 256 * q + Wrap(p + 1)) = read8(c, 256 * q + Wrap(p + 1))
    BY <1>1, <1>3
  <2>2. QED
    BY <2>1, Zenon DEF Pointer
<1>4. BaseAddress(m, inst) = BaseAddress(c, inst)
  <2>1. CASE inst.mode = "Ind"
    <3>1. PointerCells(c, inst) = {256 * high + low, 256 * high + Wrap(low + 1)}
      BY <2>1, Zenon DEF PointerCells
    <3>2. 256 * high + low \notin H /\ 256 * high + Wrap(low + 1) \notin H
      BY <3>1
    <3>3. BaseAddress(c, inst) = Pointer(c, low, high)
          /\ BaseAddress(m, inst) = Pointer(m, low, high)
      BY <2>1, Zenon DEF BaseAddress
    <3>4. QED
      BY <1>3, <3>2, <3>3, Zenon
  <2>2. CASE inst.mode = "IndX"
    <3> DEFINE at == Wrap(low + c.r.X)
    <3>1. PointerCells(c, inst) = {256 * 0 + at, 256 * 0 + Wrap(at + 1)}
      BY <2>2, Zenon DEF PointerCells
    <3>2. BaseAddress(c, inst) = Pointer(c, at, 0) /\ BaseAddress(m, inst) = Pointer(m, at, 0)
      BY <1>2, <2>2, Zenon DEF BaseAddress
    <3> HIDE DEF at
    <3>3. 256 * 0 + at \notin H /\ 256 * 0 + Wrap(at + 1) \notin H
      BY <3>1
    <3>4. QED
      BY <1>3, <3>2, <3>3, Zenon
  <2>3. CASE inst.mode = "IndY"
    <3>1. PointerCells(c, inst) = {256 * 0 + low, 256 * 0 + Wrap(low + 1)}
      BY <2>3, Zenon DEF PointerCells
    <3>2. 256 * 0 + low \notin H /\ 256 * 0 + Wrap(low + 1) \notin H
      BY <3>1
    <3>3. BaseAddress(c, inst) = Pointer(c, low, 0)
          /\ BaseAddress(m, inst) = Pointer(m, low, 0)
      BY <2>3, Zenon DEF BaseAddress
    <3>4. QED
      BY <1>3, <3>2, <3>3, Zenon
  <2>4. CASE inst.mode \in {"Abs", "AbsX", "AbsY", "Zero", "ZeroX", "ZeroY"}
    <3>1. CASE inst.mode \in {"Abs", "AbsX", "AbsY"}
      BY <3>1, Zenon DEF BaseAddress
    <3>2. CASE inst.mode = "Zero"
      BY <3>2, Zenon DEF BaseAddress
    <3>3. CASE inst.mode = "ZeroX"
      BY <1>2, <3>3, Zenon DEF BaseAddress
    <3>4. CASE inst.mode = "ZeroY"
      BY <1>2, <3>4, Zenon DEF BaseAddress
    <3>5. QED
      BY <2>4, <3>1, <3>2, <3>3, <3>4
  <2>5. QED
    BY <2>1, <2>2, <2>3, <2>4 DEF Addressed
<1>5. Index(m, inst) = Index(c, inst)
  BY <1>2, Zenon DEF Index
<1>6. QED
  BY <1>4, <1>5, Zenon DEF resolve

LEMMA ValueAlike ==
  ASSUME NEW c, NEW m, NEW H, Alike(c, m, H), NEW inst,
         inst.mode \in Addressed \union {"Imm"}, H \cap PointerCells(c, inst) = {},
         H \cap OperandCell(c, inst) = {}
  PROVE  Value(m, inst) = Value(c, inst)
<1>1. CASE inst.mode = "Imm"
  BY <1>1, Zenon DEF Value
<1>2. CASE inst.mode \in Addressed
  <2>1. resolve(m, inst) = resolve(c, inst) /\ resolve(c, inst) \notin H
    BY <1>2, ResolveAlike DEF OperandCell
  <2>2. read8(m, resolve(c, inst)) = read8(c, resolve(c, inst))
    BY <2>1 DEF Alike, SameBut, SameCell
  <2>3. inst.mode # "Imm"
    BY <1>2 DEF Addressed
  <2>4. QED
    BY <2>1, <2>2, <2>3, Zenon DEF Value
<1>3. QED
  BY <1>1, <1>2

LEMMA ResolvedInStep ==
  ASSUME NEW c, IsCpu(c), NEW m, IsCpu(m), NEW H, Alike(c, m, H), NEW inst
  PROVE  InStep(c, m, Resolved(c, inst), Resolved(m, inst), H, {})
<1>1. /\ Resolved(c, inst).r = c.r /\ Resolved(c, inst).f = c.f
      /\ Resolved(c, inst).mem = c.mem /\ Resolved(c, inst).pc = c.pc
  BY ResolvedKeeps
<1>2. /\ Resolved(m, inst).r = m.r /\ Resolved(m, inst).f = m.f
      /\ Resolved(m, inst).mem = m.mem /\ Resolved(m, inst).pc = m.pc
  BY ResolvedKeeps
<1>3. QED
  BY <1>1, <1>2, InStepOfFields DEF Alike

(* Two steps that write no memory.                                         *)
LEMMA InStepQuietly ==
  ASSUME NEW c, NEW m, NEW H, NEW d, NEW n, InStep(c, m, d, n, H, {})
  PROVE  /\ Alike(d, n, H)
         /\ \A e, o, W : InStep(d, n, e, o, H, W) => InStep(c, m, e, o, H, W)
<1>1. H \ {} = H
  OBVIOUS
<1>2. Alike(d, n, H)
  BY <1>1 DEF InStep
<1>3. ASSUME NEW e, NEW o, NEW W, InStep(d, n, e, o, H, W)
      PROVE  InStep(c, m, e, o, H, W)
  <2>1. InStep(c, m, e, o, H, {} \union W)
    BY <1>1, <1>3, InStepTwice
  <2>2. {} \union W = W
    OBVIOUS
  <2>3. QED
    BY <2>1, <2>2
<1>4. QED
  BY <1>2, <1>3

(* Loading, counting, moving, comparing and summing.                       *)
LEMMA LoadsInStep ==
  ASSUME NEW c, IsCpu(c), NEW m, IsCpu(m), NEW H, Alike(c, m, H), NEW inst,
         inst.operands[1] \in Byte, Value(m, inst) = Value(c, inst)
  PROVE  /\ InStep(c, m, Load(c, inst), Load(m, inst), H, {})
         /\ InStep(c, m, Lax(c, inst), Lax(m, inst), H, {})
<1> DEFINE v == Value(c, inst)
           d == Resolved(c, inst)
           n == Resolved(m, inst)
<1>1. IsCpu(d) /\ IsCpu(n) /\ v \in Byte
  BY ResolvedKeeps, ValueIsByte
<1>2. InStep(c, m, d, n, H, {})
  BY ResolvedInStep
<1> HIDE DEF v, d, n
<1>3. \A reg : InStep(c, m, SetReg(d, reg, v), SetReg(n, reg, v), H, {})
  BY <1>1, <1>2, InStepQuietly, SetRegInStep
<1>4. IsCpu(SetReg(d, "A", v)) /\ IsCpu(SetReg(n, "A", v))
  <2>1. "A" \in Registers
    BY DEF Registers
  <2>2. QED
    BY <1>1, <2>1, SetRegKeeps
<1>5. InStep(c, m, SetReg(SetReg(d, "A", v), "X", v), SetReg(SetReg(n, "A", v), "X", v), H, {})
  BY <1>3, <1>4, InStepQuietly, SetRegInStep
<1>6. QED
  BY <1>3, <1>5 DEF Load, Lax, v, d, n

LEMMA ArithmeticInStep ==
  ASSUME NEW c, IsCpu(c), NEW m, IsCpu(m), NEW H, Alike(c, m, H), NEW sum,
         sum.C \in Carry, sum.V \in Carry
  PROVE  InStep(c, m, Arithmetic(c, sum), Arithmetic(m, sum), H, {})
<1> DEFINE d == [c EXCEPT !.f.V = sum.V, !.f.C = sum.C]
           n == [m EXCEPT !.f.V = sum.V, !.f.C = sum.C]
<1>1. /\ IsCpu(d) /\ d.mem = c.mem /\ d.pc = c.pc /\ d.r = c.r
      /\ d.f = [c.f EXCEPT !.V = sum.V, !.C = sum.C]
  BY DEF IsCpu, BitOf
<1>2. /\ IsCpu(n) /\ n.mem = m.mem /\ n.pc = m.pc /\ n.r = m.r
      /\ n.f = [m.f EXCEPT !.V = sum.V, !.C = sum.C]
  BY DEF IsCpu, BitOf
<1>3. d.f.B = c.f.B /\ d.f.UNUSED = c.f.UNUSED /\ d.f.I = c.f.I
  BY <1>1 DEF IsCpu, BitOf
<1>4. Arithmetic(c, sum) = SetReg(d, "A", sum.res) /\ Arithmetic(m, sum) = SetReg(n, "A", sum.res)
  BY DEF Arithmetic
<1> HIDE DEF d, n
<1>5. d.pc = n.pc /\ d.r = n.r /\ d.f = n.f
  BY <1>1, <1>2 DEF Alike
<1>6. InStep(c, m, d, n, H, {})
  BY <1>1, <1>2, <1>3, <1>5, InStepOfFields
<1>7. InStep(c, m, SetReg(d, "A", sum.res), SetReg(n, "A", sum.res), H, {})
  BY <1>1, <1>2, <1>6, InStepQuietly, SetRegInStep
<1>8. QED
  BY <1>4, <1>7

(* The carry and then N and Z.                                             *)
LEMMA CarryInStep ==
  ASSUME NEW c, IsCpu(c), NEW m, IsCpu(m), NEW H, Alike(c, m, H), NEW carry \in Carry,
         NEW res
  PROVE  /\ IsCpu([c EXCEPT !.f.C = carry]) /\ IsCpu([m EXCEPT !.f.C = carry])
         /\ InStep(c, m, [c EXCEPT !.f.C = carry], [m EXCEPT !.f.C = carry], H, {})
         /\ InStep(c, m, flags_set_neg_zero([c EXCEPT !.f.C = carry], res),
                         flags_set_neg_zero([m EXCEPT !.f.C = carry], res), H, {})
<1> DEFINE d == [c EXCEPT !.f.C = carry]
           n == [m EXCEPT !.f.C = carry]
<1>1. IsCpu(d) /\ IsCpu(n)
  BY DEF IsCpu, BitOf
<1>2. InStep(c, m, d, n, H, {})
  BY FlagInStep
<1> HIDE DEF d, n
<1>3. InStep(c, m, flags_set_neg_zero(d, res), flags_set_neg_zero(n, res), H, {})
  BY <1>1, <1>2, InStepQuietly, NegZeroInStep
<1>4. QED
  BY <1>1, <1>2, <1>3 DEF d, n

LEMMA CompareInStep ==
  ASSUME NEW c, IsCpu(c), NEW m, IsCpu(m), NEW H, Alike(c, m, H), NEW reg, NEW val
  PROVE  InStep(c, m, Compare(c, reg, val), Compare(m, reg, val), H, {})
<1> DEFINE difference == cmp(c.r[reg], val)
<1>1. cmp(m.r[reg], val) = difference
  BY DEF Alike
<1>2. difference.C \in Carry
  BY DEF cmp, Flag, Carry
<1> HIDE DEF difference
<1>3. InStep(c, m, flags_set_neg_zero([c EXCEPT !.f.C = difference.C], difference.res),
                   flags_set_neg_zero([m EXCEPT !.f.C = difference.C], difference.res), H, {})
  BY <1>2, CarryInStep
<1>4. QED
  BY <1>1, <1>3 DEF Compare, difference

LEMMA CombineInStep ==
  ASSUME NEW c, IsCpu(c), NEW m, IsCpu(m), NEW H, Alike(c, m, H),
         NEW op \in Combining, NEW val \in Byte
  PROVE  InStep(c, m, Combine(c, op, val), Combine(m, op, val), H, {})
<1> DEFINE sum == add_with_carry(c.r.A, val, c.f.C)
           difference == sub_with_borrow(c.r.A, val, c.f.C)
<1>1. /\ c.r.A \in Byte /\ c.f.C \in Carry
      /\ m.r.A = c.r.A /\ m.f.C = c.f.C /\ m.r = c.r
  BY DEF IsCpu, Registers, BitOf, Alike
<1>2. sum.C \in Carry /\ sum.V \in Carry
  <2>1. sum.C \in Carry
    BY <1>1, AdditionIsExact
  <2>2. QED
    BY <2>1 DEF add_with_carry, Flag, Carry
<1>3. difference.C \in Carry /\ difference.V \in Carry
  <2>1. difference.C \in Carry
    BY <1>1, SubtractionIsExact
  <2>2. QED
    BY <2>1 DEF sub_with_borrow, add_with_carry, Flag, Carry
<1>4. CASE op = "ADC"
  <2>1. Combine(c, op, val) = Arithmetic(c, sum) /\ Combine(m, op, val) = Arithmetic(m, sum)
    BY <1>1, <1>4, Zenon DEF Combine, ComparesReg
  <2> HIDE DEF sum
  <2>2. QED
    BY <1>2, <2>1, ArithmeticInStep
<1>5. CASE op \in {"SBC", "USBC"}
  <2>1. /\ Combine(c, op, val) = Arithmetic(c, difference)
        /\ Combine(m, op, val) = Arithmetic(m, difference)
    BY <1>1, <1>5, Zenon DEF Combine, ComparesReg
  <2> HIDE DEF difference
  <2>2. QED
    BY <1>3, <2>1, ArithmeticInStep
<1>6. CASE op \in {"AND", "ORA", "EOR"}
  <2>1. \/ /\ Combine(c, op, val) = SetReg(c, "A", And(c.r.A, val))
           /\ Combine(m, op, val) = SetReg(m, "A", And(c.r.A, val))
        \/ /\ Combine(c, op, val) = SetReg(c, "A", Or(c.r.A, val))
           /\ Combine(m, op, val) = SetReg(m, "A", Or(c.r.A, val))
        \/ /\ Combine(c, op, val) = SetReg(c, "A", Xor(c.r.A, val))
           /\ Combine(m, op, val) = SetReg(m, "A", Xor(c.r.A, val))
    BY <1>1, <1>6, Zenon DEF Combine, ComparesReg
  <2>2. QED
    BY <2>1, SetRegInStep
<1>7. CASE op \in DOMAIN ComparesReg
  <2>1. /\ Combine(c, op, val) = Compare(c, ComparesReg[op], val)
        /\ Combine(m, op, val) = Compare(m, ComparesReg[op], val)
    BY <1>7, Zenon DEF Combine, ComparesReg
  <2>2. QED
    BY <2>1, CompareInStep
<1>8. DOMAIN ComparesReg = {"CMP", "CPX", "CPY"}
  BY DEF ComparesReg
<1>9. QED
  BY <1>4, <1>5, <1>6, <1>7, <1>8 DEF Combining

LEMMA ModifiedAlike ==
  ASSUME NEW c, NEW m, m.f = c.f, NEW op \in Shifts \union {"DEC", "INC"}, NEW val
  PROVE  Modified(m, op, val) = Modified(c, op, val)
<1>1. CASE op = "DEC"
  BY <1>1, Zenon DEF Modified
<1>2. CASE op = "INC"
  BY <1>2, Zenon DEF Modified
<1>3. CASE op = "LSR"
  BY <1>3, Zenon DEF Modified
<1>4. CASE op = "ASL"
  BY <1>4, Zenon DEF Modified
<1>5. CASE op = "ROL"
  BY <1>5, Zenon DEF Modified
<1>6. CASE op = "ROR"
  BY <1>6, Zenon DEF Modified
<1>7. QED
  BY <1>1, <1>2, <1>3, <1>4, <1>5, <1>6 DEF Shifts

LEMMA ModifyAccumulatorInStep ==
  ASSUME NEW c, IsCpu(c), NEW m, IsCpu(m), NEW H, Alike(c, m, H), NEW op \in Shifts
  PROVE  InStep(c, m, ModifyAccumulator(c, op), ModifyAccumulator(m, op), H, {})
<1> DEFINE after == Modified(c, op, c.r.A)
           d == [c EXCEPT !.f.C = after.C]
           n == [m EXCEPT !.f.C = after.C]
<1>1. c.r.A \in Byte /\ m.r.A = c.r.A /\ m.f = c.f
  BY DEF IsCpu, Registers, Alike
<1>2. after.C \in Carry /\ Modified(m, op, m.r.A) = after
  BY <1>1, ModifiedIsByte, ModifiedAlike
<1>3. /\ ModifyAccumulator(c, op) = SetReg(d, "A", after.res)
      /\ ModifyAccumulator(m, op) = SetReg(n, "A", after.res)
  BY <1>2 DEF ModifyAccumulator
<1> HIDE DEF after
<1>4. IsCpu(d) /\ IsCpu(n) /\ InStep(c, m, d, n, H, {})
  BY <1>2, CarryInStep
<1> HIDE DEF d, n
<1>5. InStep(c, m, SetReg(d, "A", after.res), SetReg(n, "A", after.res), H, {})
  BY <1>4, InStepQuietly, SetRegInStep
<1>6. QED
  BY <1>3, <1>5

LEMMA ModifyMemoryInStep ==
  ASSUME NEW c, IsCpu(c), NEW m, IsCpu(m), NEW H, Alike(c, m, H),
         NEW inst, inst.mode \in Addressed,
         inst.operands[1] \in Byte, inst.operands[2] \in Byte,
         resolve(m, inst) = resolve(c, inst), Value(m, inst) = Value(c, inst),
         NEW op \in Shifts \union {"DEC", "INC"}
  PROVE  /\ InStep(c, m, ModifyMemory(c, inst, op), ModifyMemory(m, inst, op), H,
                   {resolve(c, inst)})
         /\ Modified(m, op, Value(m, inst)) = Modified(c, op, Value(c, inst))
<1> DEFINE after == Modified(c, op, Value(c, inst))
           a == resolve(c, inst)
           rc == Resolved(c, inst)
           rm == Resolved(m, inst)
           wc == write8(rc, after.res, a)
           wm == write8(rm, after.res, a)
           d == flags_set_neg_zero([wc EXCEPT !.f.C = after.C], after.res)
           n == flags_set_neg_zero([wm EXCEPT !.f.C = after.C], after.res)
<1>1. after.res \in Byte /\ after.C \in Carry /\ a \in Addresses
  BY ValueIsByte, ModifiedIsByte, Resolving
<1>2. Modified(m, op, Value(m, inst)) = after
  BY ModifiedAlike DEF Alike
<1>3. ModifyMemory(c, inst, op) = d /\ ModifyMemory(m, inst, op) = n
  BY <1>2, Zenon DEF ModifyMemory
<1>4. IsCpu(rc) /\ IsCpu(rm) /\ InStep(c, m, rc, rm, H, {})
  BY ResolvedKeeps, ResolvedInStep
<1> HIDE DEF after, a, rc, rm
<1>5. IsCpu(wc) /\ IsCpu(wm) /\ InStep(c, m, wc, wm, H, {a})
  BY <1>1, <1>4, InStepQuietly, WriteInStep, WriteKeeps
<1> HIDE DEF wc, wm
<1>6. Alike(wc, wm, H \ {a})
  BY <1>5 DEF InStep
<1>7. InStep(wc, wm, d, n, H \ {a}, {})
  BY <1>1, <1>5, <1>6, CarryInStep
<1> HIDE DEF d, n
<1>8. InStep(c, m, d, n, H, {a} \union {})
  BY <1>5, <1>7, InStepTwice
<1>9. {a} \union {} = {a}
  OBVIOUS
<1>10. InStep(c, m, ModifyMemory(c, inst, op), ModifyMemory(m, inst, op), H, {a})
  BY <1>3, <1>8, <1>9
<1>11. QED
  BY <1>2, <1>10 DEF after, a

LEMMA ModifyAndCombineInStep ==
  ASSUME NEW c, IsCpu(c), NEW m, IsCpu(m), NEW H, Alike(c, m, H),
         NEW inst, inst.mode \in Addressed,
         inst.operands[1] \in Byte, inst.operands[2] \in Byte,
         resolve(m, inst) = resolve(c, inst), Value(m, inst) = Value(c, inst),
         inst.op \in DOMAIN Combination
  PROVE  InStep(c, m, ModifyAndCombine(c, inst), ModifyAndCombine(m, inst), H,
                {resolve(c, inst)})
<1> DEFINE first == Combination[inst.op][1]
           second == Combination[inst.op][2]
           after == Modified(c, first, Value(c, inst))
           d == ModifyMemory(c, inst, first)
           n == ModifyMemory(m, inst, first)
           a == resolve(c, inst)
<1>1. first \in Shifts \union {"DEC", "INC"} /\ second \in Combining
  BY DEF Combination, Shifts, Combining
<1>2. /\ ModifyAndCombine(c, inst) = Combine(d, second, after.res)
      /\ ModifyAndCombine(m, inst) = Combine(n, second, Modified(m, first, Value(m, inst)).res)
  BY DEF ModifyAndCombine
<1> HIDE DEF first, second
<1>3. IsCpu(d) /\ IsCpu(n) /\ after.res \in Byte
  BY <1>1, ModifyMemoryKeeps
<1>4. InStep(c, m, d, n, H, {a}) /\ Modified(m, first, Value(m, inst)) = after
  BY <1>1, ModifyMemoryInStep
<1> HIDE DEF after, d, n, a
<1>5. Alike(d, n, H \ {a})
  BY <1>4 DEF InStep
<1>6. InStep(d, n, Combine(d, second, after.res), Combine(n, second, after.res), H \ {a}, {})
  BY <1>1, <1>3, <1>5, CombineInStep
<1>7. InStep(c, m, Combine(d, second, after.res), Combine(n, second, after.res), H, {a} \union {})
  BY <1>4, <1>6, InStepTwice
<1>8. {a} \union {} = {a}
  OBVIOUS
<1>9. QED
  BY <1>2, <1>4, <1>7, <1>8 DEF a

LEMMA StoreInStep ==
  ASSUME NEW c, IsCpu(c), NEW m, IsCpu(m), NEW H, Alike(c, m, H), NEW inst,
         resolve(m, inst) = resolve(c, inst)
  PROVE  InStep(c, m, Store(c, inst), Store(m, inst), H, {resolve(c, inst)})
<1> DEFINE v == Stored(c, inst.op)
           a == resolve(c, inst)
           d == Resolved(c, inst)
           n == Resolved(m, inst)
<1>1. Stored(m, inst.op) = v
  <2>1. m.r = c.r
    BY DEF Alike
  <2>2. QED
    BY <2>1, Zenon DEF Stored
<1>2. IsCpu(d) /\ IsCpu(n) /\ InStep(c, m, d, n, H, {})
  BY ResolvedKeeps, ResolvedInStep
<1> HIDE DEF v, a, d, n
<1>3. InStep(c, m, write8(d, v, a), write8(n, v, a), H, {a})
  BY <1>2, InStepQuietly, WriteInStep
<1>4. QED
  BY <1>1, <1>3 DEF Store, v, a, d, n

LEMMA RegistersInStep ==
  ASSUME NEW c, IsCpu(c), NEW m, IsCpu(m), NEW H, Alike(c, m, H), NEW op
  PROVE  /\ InStep(c, m, CountReg(c, op), CountReg(m, op), H, {})
         /\ InStep(c, m, Transfer(c, op), Transfer(m, op), H, {})
         /\ InStep(c, m, [c EXCEPT !.r.SP = c.r.X], [m EXCEPT !.r.SP = m.r.X], H, {})
<1>1. m.r = c.r
  BY DEF Alike
<1>2. InStep(c, m, CountReg(c, op), CountReg(m, op), H, {})
  BY <1>1, SetRegInStep DEF CountReg
<1>3. InStep(c, m, Transfer(c, op), Transfer(m, op), H, {})
  BY <1>1, SetRegInStep DEF Transfer
<1> DEFINE d == [c EXCEPT !.r.SP = c.r.X]
           n == [m EXCEPT !.r.SP = m.r.X]
<1>4. d.mem = c.mem /\ d.pc = c.pc /\ d.r = [c.r EXCEPT !.SP = c.r.X] /\ d.f = c.f
  BY DEF IsCpu
<1>5. n.mem = m.mem /\ n.pc = m.pc /\ n.r = [m.r EXCEPT !.SP = m.r.X] /\ n.f = m.f
  BY DEF IsCpu
<1> HIDE DEF d, n
<1>6. d.pc = n.pc /\ d.r = n.r /\ d.f = n.f
  BY <1>1, <1>4, <1>5 DEF Alike
<1>7. InStep(c, m, d, n, H, {})
  BY <1>4, <1>5, <1>6, InStepOfFields
<1>8. QED
  BY <1>2, <1>3, <1>7 DEF d, n

(* CLI gives the mask back; the other opcodes for flags leave it or set it. *)
LEMMA SetFlagAlike ==
  ASSUME NEW c, IsCpu(c), NEW m, IsCpu(m), NEW H, Alike(c, m, H), NEW op \in DOMAIN FlagOps
  PROVE  /\ Alike(SetFlag(c, op), SetFlag(m, op), H)
         /\ op # "CLI" => InStep(c, m, SetFlag(c, op), SetFlag(m, op), H, {})
<1> DEFINE b == FlagOps[op][1]
           v == FlagOps[op][2]
           d == SetFlag(c, op)
           n == SetFlag(m, op)
<1>1. /\ b \in {"C", "D", "I", "V"} /\ b \in DOMAIN BitOf
      /\ op # "CLI" => b # "I" \/ v = 1
  BY DEF FlagOps, BitOf
<1>2. d.mem = c.mem /\ d.pc = c.pc /\ d.r = c.r /\ d.f = [c.f EXCEPT ![b] = v]
  BY DEF IsCpu, SetFlag
<1>3. n.mem = m.mem /\ n.pc = m.pc /\ n.r = m.r /\ n.f = [m.f EXCEPT ![b] = v]
  BY DEF IsCpu, SetFlag
<1> HIDE DEF b, v, d, n
<1>4. d.pc = n.pc /\ d.r = n.r /\ d.f = n.f
  BY <1>2, <1>3 DEF Alike
<1>5. d.f.B = c.f.B /\ d.f.UNUSED = c.f.UNUSED
      /\ (op # "CLI" => (c.f.I = 1 => d.f.I = 1))
  BY <1>1, <1>2 DEF IsCpu, BitOf
<1>6. Alike(d, n, H)
  BY <1>2, <1>3, <1>4, AlikeOfFields
<1>7. op # "CLI" => InStep(c, m, d, n, H, {})
  BY <1>2, <1>3, <1>4, <1>5, InStepOfFields
<1>8. QED
  BY <1>6, <1>7 DEF d, n

LEMMA TestsInStep ==
  ASSUME NEW c, IsCpu(c), NEW m, IsCpu(m), NEW H, Alike(c, m, H), NEW inst,
         inst.operands[1] \in Byte, Value(m, inst) = Value(c, inst)
  PROVE  InStep(c, m, AndForFlags(c, inst), AndForFlags(m, inst), H, {})
<1> DEFINE res == And(c.r.A, Value(c, inst))
           carry == IF inst.op = "ALR" THEN res % 2 ELSE Flag(is_signed(res))
           d == flags_set_neg_zero([c EXCEPT !.f.C = carry], res)
           n == flags_set_neg_zero([m EXCEPT !.f.C = carry], res)
<1>1. res \in Nat /\ And(m.r.A, Value(m, inst)) = res
  BY ByteOfIsByte, ByteIsNat DEF And, Alike
<1>2. AndForFlags(c, inst) = d /\ AndForFlags(m, inst) = n
  BY <1>1, Zenon DEF AndForFlags
<1> HIDE DEF res
<1>3. carry \in Carry
  BY <1>1 DEF Flag, Carry
<1> HIDE DEF carry
<1>4. InStep(c, m, d, n, H, {})
  BY <1>3, CarryInStep
<1>5. QED
  BY <1>2, <1>4

(* A value depends on the registers and on memory alone.                   *)
LEMMA SameValue ==
  ASSUME NEW c, NEW d, d.r = c.r, d.mem = c.mem, NEW inst
  PROVE  Value(d, inst) = Value(c, inst)
<1>1. \A a : read8(d, a) = read8(c, a)
  BY DEF read8
<1>2. ASSUME NEW p, NEW q PROVE Pointer(d, p, q) = Pointer(c, p, q)
  <2>1. /\ read8(d, 256 * q + p) = read8(c, 256 * q + p)
        /\ read8(d, 256 * q + Wrap(p + 1)) = read8(c, 256 * q + Wrap(p + 1))
    BY <1>1
  <2>2. QED
    BY <2>1, Zenon DEF Pointer
<1>3. BaseAddress(d, inst) = BaseAddress(c, inst)
  BY <1>2, Zenon DEF BaseAddress
<1>4. Index(d, inst) = Index(c, inst)
  BY Zenon DEF Index
<1>5. resolve(d, inst) = resolve(c, inst)
  BY <1>3, <1>4, Zenon DEF resolve
<1>6. QED
  BY <1>1, <1>5, Zenon DEF Value

LEMMA BitInStep ==
  ASSUME NEW c, IsCpu(c), NEW m, IsCpu(m), NEW H, Alike(c, m, H), NEW inst,
         Value(m, inst) = Value(c, inst)
  PROVE  InStep(c, m, TestBits(Resolved(c, inst), inst), TestBits(Resolved(m, inst), inst),
                H, {})
<1> DEFINE rc == Resolved(c, inst)
           rm == Resolved(m, inst)
           d == TestBits(rc, inst)
           n == TestBits(rm, inst)
           val == Value(rc, inst)
           zero == Flag(And(rc.r.A, val) = 0)
           negative == Flag(128 \in Bits(val))
           over == Flag(64 \in Bits(val))
<1>1. IsCpu(rc) /\ rc.r = c.r /\ rc.f = c.f /\ rc.mem = c.mem /\ rc.pc = c.pc
  BY ResolvedKeeps
<1>2. IsCpu(rm) /\ rm.r = m.r /\ rm.f = m.f /\ rm.mem = m.mem /\ rm.pc = m.pc
  BY ResolvedKeeps
<1> HIDE DEF rc, rm
<1>3. Value(rc, inst) = Value(c, inst)
  BY <1>1, SameValue
<1>4. Value(rm, inst) = Value(m, inst)
  BY <1>2, SameValue
<1>5. val = Value(rm, inst) /\ rc.r.A = rm.r.A
  BY <1>1, <1>2, <1>3, <1>4 DEF Alike
<1>6. /\ d = [rc EXCEPT !.f.Z = zero, !.f.N = negative, !.f.V = over]
      /\ n = [rm EXCEPT !.f.Z = zero, !.f.N = negative, !.f.V = over]
  BY <1>5, Zenon DEF TestBits
<1> HIDE DEF d, n, val, zero, negative, over
<1>7. /\ d.mem = c.mem /\ d.pc = c.pc /\ d.r = c.r
      /\ d.f = [c.f EXCEPT !.Z = zero, !.N = negative, !.V = over]
  BY <1>1, <1>6 DEF IsCpu
<1>8. /\ n.mem = m.mem /\ n.pc = m.pc /\ n.r = m.r
      /\ n.f = [m.f EXCEPT !.Z = zero, !.N = negative, !.V = over]
  BY <1>2, <1>6 DEF IsCpu
<1>9. d.f.B = c.f.B /\ d.f.UNUSED = c.f.UNUSED /\ d.f.I = c.f.I
  BY <1>7 DEF IsCpu, BitOf
<1>10. d.pc = n.pc /\ d.r = n.r /\ d.f = n.f
  BY <1>7, <1>8 DEF Alike
<1>11. InStep(c, m, d, n, H, {})
  BY <1>7, <1>8, <1>9, <1>10, InStepOfFields
<1>12. QED
  BY <1>11 DEF d, n, rc, rm

LEMMA WrapDown ==
  ASSUME NEW x \in Byte
  PROVE  /\ Wrap(x) = x /\ Wrap(x - 0) = x
         /\ Wrap(Wrap(x - 1) - 1) = Wrap(x - 2)
         /\ \A n \in 0 .. x : Wrap(x - n) = x - n
         /\ \A n \in Nat : x + n < 256 => Wrap(x + n) = x + n
<1>1. x \in Nat /\ x < 256 /\ \A n \in Int : Wrap(n) = n % 256
  BY ByteIsNat, SignIsBit7 DEF Wrap
<1>2. \A n \in Nat : n < 256 => n % 256 = n
  OBVIOUS
<1>3. \A n \in 1 .. 256 : (0 - n) % 256 = 256 - n
  OBVIOUS
<1>4. Wrap(x) = x /\ Wrap(x - 0) = x
  BY <1>1, <1>2
<1>5. \A n \in 0 .. x : Wrap(x - n) = x - n
  BY <1>1, <1>2
<1>6. \A n \in Nat : x + n < 256 => Wrap(x + n) = x + n
  BY <1>1, <1>2
<1>7. Wrap(Wrap(x - 1) - 1) = Wrap(x - 2)
  <2>1. CASE x >= 2
    BY <1>1, <1>5, <2>1
  <2>2. CASE x = 1
    <3>1. Wrap(x - 1) = 0
      BY <1>1, <1>2, <2>2
    <3>2. QED
      BY <2>2, <3>1
  <2>3. CASE x = 0
    <3>1. (0 - 1) % 256 = 255 /\ (0 - 2) % 256 = 254 /\ 254 % 256 = 254
      BY <1>2, <1>3
    <3>2. Wrap(0 - 1) = 255 /\ Wrap(0 - 2) = 254 /\ Wrap(255 - 1) = 254
      BY <1>1, <3>1
    <3>3. QED
      BY <2>3, <3>2
  <2>4. QED
    BY <1>1, <2>1, <2>2, <2>3
<1>8. QED
  BY <1>4, <1>5, <1>6, <1>7

(* The cells that one, two and three pushes write.                         *)
Below(c, n) == {STACK_TOP + Wrap(c.r.SP - k) : k \in 0 .. n - 1}

LEMMA BelowIs ==
  ASSUME NEW c, IsCpu(c)
  PROVE  /\ c.r.SP \in Byte
         /\ Below(c, 1) = {STACK_TOP + c.r.SP}
         /\ Below(c, 2) = {STACK_TOP + c.r.SP, STACK_TOP + Wrap(c.r.SP - 1)}
         /\ Below(c, 3) = {STACK_TOP + c.r.SP, STACK_TOP + Wrap(c.r.SP - 1),
                           STACK_TOP + Wrap(c.r.SP - 2)}
<1>1. c.r.SP \in Byte
  BY DEF IsCpu, Registers
<1>2. Wrap(c.r.SP - 0) = c.r.SP
  BY <1>1, WrapDown
<1>3. 0 .. 1 - 1 = {0} /\ 0 .. 2 - 1 = {0, 1} /\ 0 .. 3 - 1 = {0, 1, 2}
  OBVIOUS
<1>4. QED
  BY <1>1, <1>2, <1>3 DEF Below

LEMMA PushIs ==
  ASSUME NEW c, IsCpu(c), NEW v
  PROVE  /\ push(c, v).pc = c.pc /\ push(c, v).f = c.f
         /\ push(c, v).r = [c.r EXCEPT !.SP = Wrap(c.r.SP - 1)]
         /\ push(c, v).mem = write8(c, v, STACK_TOP + c.r.SP).mem
<1> DEFINE w == write8(c, v, STACK_TOP + c.r.SP)
<1>1. w.r = c.r /\ w.f = c.f /\ w.pc = c.pc /\ DOMAIN w = DOMAIN c
  BY WriteIs DEF write8
<1>2. push(c, v) = [w EXCEPT !.r.SP = Wrap(@ - 1)]
  BY DEF push
<1> HIDE DEF w
<1>3. /\ push(c, v).pc = w.pc /\ push(c, v).f = w.f /\ push(c, v).mem = w.mem
      /\ push(c, v).r = [w.r EXCEPT !.SP = Wrap(w.r.SP - 1)]
  BY <1>1, <1>2 DEF IsCpu
<1>4. QED
  BY <1>1, <1>3 DEF w

LEMMA PushInStep ==
  ASSUME NEW c, IsCpu(c), NEW m, IsCpu(m), NEW H, Alike(c, m, H), NEW v
  PROVE  InStep(c, m, push(c, v), push(m, v), H, Below(c, 1))
<1> DEFINE a == STACK_TOP + c.r.SP
           d == write8(c, v, a)
           n == write8(m, v, a)
<1>1. m.r = c.r /\ STACK_TOP + m.r.SP = a
  BY DEF Alike
<1>2. InStep(c, m, d, n, H, {a}) /\ Below(c, 1) = {a}
  BY WriteInStep, BelowIs
<1>3. d.pc = c.pc /\ d.r = c.r /\ d.f = c.f /\ n.r = m.r /\ n.f = m.f /\ n.pc = m.pc
  BY WriteIs
<1>4. /\ push(c, v).pc = c.pc /\ push(c, v).f = c.f
      /\ push(c, v).r = [c.r EXCEPT !.SP = Wrap(c.r.SP - 1)]
      /\ push(c, v).mem = d.mem
  BY PushIs
<1>5. /\ push(m, v).pc = m.pc /\ push(m, v).f = m.f
      /\ push(m, v).r = [m.r EXCEPT !.SP = Wrap(m.r.SP - 1)]
      /\ push(m, v).mem = n.mem
  BY <1>1, PushIs
<1> HIDE DEF a, d, n
<1>6. Alike(d, n, H \ {a})
  BY <1>2 DEF InStep
<1>7. InStep(d, n, push(c, v), push(m, v), H \ {a}, {})
  BY <1>1, <1>3, <1>4, <1>5, <1>6, InStepOfFields DEF Alike
<1>8. InStep(c, m, push(c, v), push(m, v), H, {a} \union {})
  BY <1>2, <1>7, InStepTwice
<1>9. {a} \union {} = {a}
  OBVIOUS
<1>10. QED
  BY <1>2, <1>8, <1>9

LEMMA PushWordInStep ==
  ASSUME NEW c, IsCpu(c), NEW m, IsCpu(m), NEW H, Alike(c, m, H), NEW v \in Addresses
  PROVE  /\ InStep(c, m, push_word(c, v), push_word(m, v), H, Below(c, 2))
         /\ push_word(c, v).r = [c.r EXCEPT !.SP = Wrap(c.r.SP - 2)]
         /\ push_word(c, v).pc = c.pc /\ push_word(c, v).f = c.f
<1> DEFINE d == push(c, v \div 256)
           n == push(m, v \div 256)
           e == push(d, v % 256)
           o == push(n, v % 256)
<1>1. v \div 256 \in Byte /\ v % 256 \in Byte
  BY BytesOfAWord
<1>2. IsCpu(d) /\ IsCpu(n)
  BY <1>1, PushKeeps
<1>3. InStep(c, m, d, n, H, Below(c, 1))
  BY PushInStep
<1>4. d.r = [c.r EXCEPT !.SP = Wrap(c.r.SP - 1)] /\ d.pc = c.pc /\ d.f = c.f
  BY PushIs
<1>5. e = push_word(c, v) /\ o = push_word(m, v)
  BY DEF push_word
<1> HIDE DEF d, n
<1>6. Alike(d, n, H \ Below(c, 1))
  BY <1>3 DEF InStep
<1>7. /\ InStep(d, n, e, o, H \ Below(c, 1), Below(d, 1))
      /\ e.r = [d.r EXCEPT !.SP = Wrap(d.r.SP - 1)] /\ e.pc = d.pc /\ e.f = d.f
  BY <1>2, <1>6, PushInStep, PushIs
<1> HIDE DEF e, o
<1>8. InStep(c, m, e, o, H, Below(c, 1) \union Below(d, 1))
  BY <1>3, <1>7, InStepTwice
<1>9. d.r.SP = Wrap(c.r.SP - 1) /\ Wrap(d.r.SP - 1) = Wrap(c.r.SP - 2)
  BY <1>4, BelowIs, WrapDown DEF IsCpu, Registers
<1>10. Below(c, 1) \union Below(d, 1) = Below(c, 2)
  BY <1>2, <1>9, BelowIs
<1>11. e.r = [c.r EXCEPT !.SP = Wrap(c.r.SP - 2)]
  BY <1>4, <1>7, <1>9 DEF IsCpu, Registers
<1>12. QED
  BY <1>4, <1>5, <1>7, <1>8, <1>10, <1>11

LEMMA EnterInStep ==
  ASSUME NEW c, IsCpu(c), NEW m, IsCpu(m), NEW H, Alike(c, m, H),
         NEW pc \in Addresses, NEW b \in Carry, NEW vector,
         vector \notin H, Word(vector + 1) \notin H
  PROVE  InStep(c, m, Enter(c, pc, b, vector), Enter(m, pc, b, vector), H, Below(c, 3))
<1> DEFINE byte == flags_as_byte([c.f EXCEPT !.B = b, !.UNUSED = 1])
           d == push_word(c, pc)
           n == push_word(m, pc)
           e == push(d, byte)
           o == push(n, byte)
           to == read16(e, vector)
           f == [e EXCEPT !.f.I = 1, !.pc = to]
           p == [o EXCEPT !.f.I = 1, !.pc = to]
<1>1. byte \in Byte /\ flags_as_byte([m.f EXCEPT !.B = b, !.UNUSED = 1]) = byte
  BY ByteOfIsByte DEF flags_as_byte, Alike
<1>2. /\ Enter(c, pc, b, vector) = f
      /\ Enter(m, pc, b, vector) = [o EXCEPT !.f.I = 1, !.pc = read16(o, vector)]
  BY <1>1, Zenon DEF Enter
<1> HIDE DEF byte
<1>3. /\ IsCpu(d) /\ IsCpu(n) /\ InStep(c, m, d, n, H, Below(c, 2))
      /\ d.r = [c.r EXCEPT !.SP = Wrap(c.r.SP - 2)]
  BY PushWordKeeps, PushWordInStep
<1> HIDE DEF d, n
<1>4. Alike(d, n, H \ Below(c, 2))
  BY <1>3 DEF InStep
<1>5. InStep(d, n, e, o, H \ Below(c, 2), Below(d, 1)) /\ IsCpu(e) /\ IsCpu(o)
  BY <1>1, <1>3, <1>4, PushInStep, PushKeeps
<1> HIDE DEF e, o
<1>6. InStep(c, m, e, o, H, Below(c, 2) \union Below(d, 1))
  BY <1>3, <1>5, InStepTwice
<1>7. Below(c, 2) \union Below(d, 1) = Below(c, 3)
  <2>1. d.r.SP = Wrap(c.r.SP - 2)
    BY <1>3 DEF IsCpu, Registers
  <2>2. Below(d, 1) = {STACK_TOP + d.r.SP}
    BY <1>3, BelowIs
  <2>3. /\ Below(c, 2) = {STACK_TOP + c.r.SP, STACK_TOP + Wrap(c.r.SP - 1)}
        /\ Below(c, 3) = {STACK_TOP + c.r.SP, STACK_TOP + Wrap(c.r.SP - 1),
                          STACK_TOP + Wrap(c.r.SP - 2)}
    BY BelowIs
  <2>4. Below(d, 1) = {STACK_TOP + Wrap(c.r.SP - 2)}
    BY <2>1, <2>2
  <2>5. QED
    BY <2>3, <2>4
<1>8. Alike(e, o, H \ Below(c, 3))
  BY <1>6, <1>7 DEF InStep
<1>9. read16(o, vector) = to
  <2>1. /\ read8(o, vector) = read8(e, vector)
        /\ read8(o, Word(vector + 1)) = read8(e, Word(vector + 1))
    BY <1>8 DEF Alike, SameBut, SameCell
  <2>2. QED
    BY <2>1, Zenon DEF read16
<1> HIDE DEF to
<1>10. f.mem = e.mem /\ f.pc = to /\ f.r = e.r /\ f.f = [e.f EXCEPT !.I = 1]
  BY <1>5 DEF IsCpu
<1>11. p.mem = o.mem /\ p.pc = to /\ p.r = o.r /\ p.f = [o.f EXCEPT !.I = 1]
  BY <1>5 DEF IsCpu
<1>12. f.f.B = e.f.B /\ f.f.UNUSED = e.f.UNUSED /\ f.f.I = 1
  BY <1>5, <1>10 DEF IsCpu, BitOf
<1> HIDE DEF f, p
<1>13. f.pc = p.pc /\ f.r = p.r /\ f.f = p.f
  BY <1>8, <1>10, <1>11 DEF Alike
<1>14. InStep(e, o, f, p, H \ Below(c, 3), {})
  BY <1>8, <1>10, <1>11, <1>12, <1>13, InStepOfFields
<1>15. InStep(c, m, f, p, H, Below(c, 3) \union {})
  BY <1>6, <1>7, <1>14, InStepTwice
<1>16. Below(c, 3) \union {} = Below(c, 3)
  OBVIOUS
<1>17. QED
  BY <1>2, <1>9, <1>15, <1>16 DEF p

(* The cells that n pulls read.                                            *)
Above(c, n) == {STACK_TOP + Wrap(c.r.SP + k) : k \in 1 .. n}

LEMMA DropIs ==
  ASSUME NEW c, IsCpu(c), NEW n
  PROVE  /\ Drop(c, n).mem = c.mem /\ Drop(c, n).pc = c.pc /\ Drop(c, n).f = c.f
         /\ Drop(c, n).r = [c.r EXCEPT !.SP = Wrap(c.r.SP + n)]
BY DEF Drop, IsCpu

LEMMA TopAlike ==
  ASSUME NEW c, NEW m, NEW H, Alike(c, m, H), NEW n \in Nat, H \cap Above(c, n) = {}
  PROVE  \A k \in 1 .. n : Top(m, k) = Top(c, k)
<1> SUFFICES ASSUME NEW k \in 1 .. n PROVE Top(m, k) = Top(c, k)
  OBVIOUS
<1>1. STACK_TOP + Wrap(c.r.SP + k) \notin H
  BY DEF Above
<1>2. read8(m, STACK_TOP + Wrap(c.r.SP + k)) = read8(c, STACK_TOP + Wrap(c.r.SP + k))
  BY <1>1 DEF Alike, SameBut, SameCell
<1>3. m.r.SP = c.r.SP
  BY DEF Alike
<1>4. QED
  BY <1>2, <1>3, Zenon DEF Top

LEMMA PullsInStep ==
  ASSUME NEW c, IsCpu(c), NEW m, IsCpu(m), NEW H, Alike(c, m, H)
  PROVE  /\ H \cap Above(c, 2) = {}
              => InStep(c, m, ReturnFromSubroutine(c), ReturnFromSubroutine(m), H, {})
         /\ H \cap Above(c, 1) = {}
              => InStep(c, m, SetReg(Drop(c, 1), "A", Top(c, 1)),
                              SetReg(Drop(m, 1), "A", Top(m, 1)), H, {})
<1>1. \A n : /\ Drop(c, n).mem = c.mem /\ Drop(c, n).pc = c.pc /\ Drop(c, n).f = c.f
             /\ Drop(c, n).r = [c.r EXCEPT !.SP = Wrap(c.r.SP + n)]
  BY DropIs
<1>2. \A n : /\ Drop(m, n).mem = m.mem /\ Drop(m, n).pc = m.pc /\ Drop(m, n).f = m.f
             /\ Drop(m, n).r = [c.r EXCEPT !.SP = Wrap(c.r.SP + n)]
  BY DropIs DEF Alike
<1>3. \A n : InStep(c, m, Drop(c, n), Drop(m, n), H, {})
  BY <1>1, <1>2, InStepOfFields DEF Alike
<1>4. IsCpu(Drop(c, 1)) /\ IsCpu(Drop(m, 1)) /\ IsCpu(Drop(c, 2)) /\ IsCpu(Drop(m, 2))
  BY DropKeeps
<1>5. ASSUME H \cap Above(c, 1) = {}
      PROVE  InStep(c, m, SetReg(Drop(c, 1), "A", Top(c, 1)),
                          SetReg(Drop(m, 1), "A", Top(m, 1)), H, {})
  <2>1. Top(m, 1) = Top(c, 1)
    BY <1>5, TopAlike
  <2> DEFINE d == Drop(c, 1)
             n == Drop(m, 1)
  <2>2. IsCpu(d) /\ IsCpu(n) /\ InStep(c, m, d, n, H, {})
    BY <1>3, <1>4
  <2> HIDE DEF d, n
  <2>3. InStep(c, m, SetReg(d, "A", Top(c, 1)), SetReg(n, "A", Top(c, 1)), H, {})
    BY <2>2, InStepQuietly, SetRegInStep
  <2>4. QED
    BY <2>1, <2>3 DEF d, n
<1>6. ASSUME H \cap Above(c, 2) = {}
      PROVE  InStep(c, m, ReturnFromSubroutine(c), ReturnFromSubroutine(m), H, {})
  <2> DEFINE pc == Word(Top(c, 1) + (256 * Top(c, 2)) + 1)
             d == Drop(c, 2)
             n == Drop(m, 2)
             e == [d EXCEPT !.pc = pc]
             o == [n EXCEPT !.pc = pc]
  <2>1. Top(m, 1) = Top(c, 1) /\ Top(m, 2) = Top(c, 2)
    BY <1>6, TopAlike
  <2>2. ReturnFromSubroutine(c) = e /\ ReturnFromSubroutine(m) = o
    BY <2>1, Zenon DEF ReturnFromSubroutine
  <2>3. IsCpu(d) /\ IsCpu(n) /\ InStep(c, m, d, n, H, {})
    BY <1>3, <1>4
  <2> HIDE DEF d, n, pc
  <2>4. e.mem = d.mem /\ e.pc = pc /\ e.r = d.r /\ e.f = d.f
    BY <2>3 DEF IsCpu
  <2>5. o.mem = n.mem /\ o.pc = pc /\ o.r = n.r /\ o.f = n.f
    BY <2>3 DEF IsCpu
  <2> HIDE DEF e, o
  <2>6. Alike(d, n, H)
    BY <2>3, InStepQuietly
  <2>7. InStep(d, n, e, o, H, {})
    BY <2>4, <2>5, <2>6, InStepOfFields DEF Alike
  <2>8. QED
    BY <2>2, <2>3, <2>7, InStepQuietly
<1>7. QED
  BY <1>5, <1>6

LEMMA RestoredFlagsAre ==
  ASSUME NEW c, IsCpu(c), NEW v
  PROVE  /\ set_flags_ignore_5_4(c, v).mem = c.mem
         /\ set_flags_ignore_5_4(c, v).pc = c.pc
         /\ set_flags_ignore_5_4(c, v).r = c.r
         /\ set_flags_ignore_5_4(c, v).f
              = [b \in DOMAIN BitOf |-> IF b \in {"UNUSED", "B"} THEN c.f[b]
                                        ELSE (v \div BitOf[b]) % 2]
BY DEF set_flags_ignore_5_4, IsCpu

LEMMA MaskInByte ==
  ASSUME NEW v \in Byte, 4 \in Bits(v)
  PROVE  (v \div BitOf.I) % 2 = 1
BY DEF Bits, BitOf

(* PLP and RTI pull the flags; PLP leaves the mask set if the byte has it. *)
LEMMA FlagsPulledAlike ==
  ASSUME NEW c, IsCpu(c), NEW m, IsCpu(m), NEW H, Alike(c, m, H), NEW n \in Nat \ {0},
         H \cap Above(c, n) = {}
  PROVE  LET d == set_flags_ignore_5_4(Drop(c, n), Top(c, 1))
             o == set_flags_ignore_5_4(Drop(m, n), Top(m, 1))
         IN /\ Alike(d, o, H) /\ IsCpu(d) /\ IsCpu(o)
            /\ 4 \in Bits(Top(c, 1)) => InStep(c, m, d, o, H, {})
<1> DEFINE d == set_flags_ignore_5_4(Drop(c, n), Top(c, 1))
           o == set_flags_ignore_5_4(Drop(m, n), Top(m, 1))
           v == Top(c, 1)
           flags == [b \in DOMAIN BitOf |-> IF b \in {"UNUSED", "B"} THEN c.f[b]
                                            ELSE (v \div BitOf[b]) % 2]
<1>1. v \in Byte /\ Top(m, 1) \in Byte /\ Top(m, 1) = v
  BY TopAlike, DropKeeps
<1>2. /\ IsCpu(Drop(c, n)) /\ Drop(c, n).mem = c.mem /\ Drop(c, n).pc = c.pc
      /\ Drop(c, n).f = c.f /\ Drop(c, n).r = [c.r EXCEPT !.SP = Wrap(c.r.SP + n)]
  BY DropIs, DropKeeps
<1>3. /\ IsCpu(Drop(m, n)) /\ Drop(m, n).mem = m.mem /\ Drop(m, n).pc = m.pc
      /\ Drop(m, n).f = m.f /\ Drop(m, n).r = [m.r EXCEPT !.SP = Wrap(m.r.SP + n)]
  BY DropIs, DropKeeps
<1>4. IsCpu(d) /\ IsCpu(o)
  BY <1>1, <1>2, <1>3, RestoredFlagsKeep
<1>5. /\ d.mem = c.mem /\ d.pc = c.pc /\ d.r = [c.r EXCEPT !.SP = Wrap(c.r.SP + n)]
      /\ d.f = flags
  BY <1>2, RestoredFlagsAre
<1>6. /\ o.mem = m.mem /\ o.pc = m.pc /\ o.r = [m.r EXCEPT !.SP = Wrap(m.r.SP + n)]
      /\ o.f = [b \in DOMAIN BitOf |-> IF b \in {"UNUSED", "B"} THEN m.f[b]
                                       ELSE (v \div BitOf[b]) % 2]
  BY <1>1, <1>3, RestoredFlagsAre
<1>7. 4 \in Bits(v) => flags.I = 1
  <2>1. flags.I = (v \div BitOf.I) % 2
    BY DEF BitOf
  <2>2. QED
    BY <1>1, <2>1, MaskInByte
<1>8. flags.B = c.f.B /\ flags.UNUSED = c.f.UNUSED
  BY DEF BitOf
<1> HIDE DEF d, o, flags, v
<1>9. d.pc = o.pc /\ d.r = o.r
  BY <1>5, <1>6 DEF Alike
<1>10. d.f = o.f
  <2>1. m.f = c.f
    BY DEF Alike
  <2>2. o.f = flags
    BY <1>6, <2>1 DEF flags
  <2>3. QED
    BY <1>5, <2>2
<1>11. Alike(d, o, H)
  BY <1>5, <1>6, <1>9, <1>10, AlikeOfFields
<1>12. 4 \in Bits(v) => InStep(c, m, d, o, H, {})
  BY <1>5, <1>6, <1>7, <1>8, <1>9, <1>10, InStepOfFields
<1>13. QED
  BY <1>4, <1>11, <1>12 DEF d, o, v

LEMMA ReturnAlike ==
  ASSUME NEW c, IsCpu(c), NEW m, IsCpu(m), NEW H, Alike(c, m, H), H \cap Above(c, 3) = {}
  PROVE  Alike(ReturnFromInterrupt(c), ReturnFromInterrupt(m), H)
<1> DEFINE d == set_flags_ignore_5_4(Drop(c, 3), Top(c, 1))
           n == set_flags_ignore_5_4(Drop(m, 3), Top(m, 1))
           pc == Top(c, 2) + (256 * Top(c, 3))
           e == [d EXCEPT !.pc = pc]
           o == [n EXCEPT !.pc = pc]
<1>1. Alike(d, n, H) /\ IsCpu(d) /\ IsCpu(n)
  BY FlagsPulledAlike
<1>2. Top(m, 2) = Top(c, 2) /\ Top(m, 3) = Top(c, 3)
  BY TopAlike
<1>3. ReturnFromInterrupt(c) = e /\ ReturnFromInterrupt(m) = o
  BY <1>2, Zenon DEF ReturnFromInterrupt
<1> HIDE DEF d, n, pc
<1>4. e.mem = d.mem /\ e.pc = pc /\ e.r = d.r /\ e.f = d.f
  BY <1>1 DEF IsCpu
<1>5. o.mem = n.mem /\ o.pc = pc /\ o.r = n.r /\ o.f = n.f
  BY <1>1 DEF IsCpu
<1> HIDE DEF e, o
<1>6. Alike(e, o, H)
  BY <1>1, <1>4, <1>5, AlikeOfFields DEF Alike
<1>7. QED
  BY <1>3, <1>6

LEMMA JumpInStep ==
  ASSUME NEW c, IsCpu(c), NEW m, IsCpu(m), NEW H, Alike(c, m, H), NEW inst,
         resolve(m, inst) = resolve(c, inst)
  PROVE  InStep(c, m, Jump(c, inst), Jump(m, inst), H, {})
<1> DEFINE d == Jump(c, inst)
           n == Jump(m, inst)
<1>1. d.mem = c.mem /\ d.pc = resolve(c, inst) /\ d.r = c.r /\ d.f = c.f
  BY DEF IsCpu, Jump
<1>2. n.mem = m.mem /\ n.pc = resolve(m, inst) /\ n.r = m.r /\ n.f = m.f
  BY DEF IsCpu, Jump
<1> HIDE DEF d, n
<1>3. InStep(c, m, d, n, H, {})
  BY <1>1, <1>2, InStepOfFields DEF Alike
<1>4. QED
  BY <1>3 DEF d, n

LEMMA SubroutineInStep ==
  ASSUME NEW c, IsCpu(c), NEW m, IsCpu(m), NEW H, Alike(c, m, H), NEW inst,
         inst.mode \in Addressed, H \cap PointerCells(c, inst) = {}
  PROVE  InStep(c, m, JumpToSubroutine(c, inst), JumpToSubroutine(m, inst), H, Below(c, 2))
<1> DEFINE pc == Word(c.pc + 2)
           d == push_word(c, pc)
           n == push_word(m, pc)
<1>1. pc \in Addresses /\ Word(m.pc + 2) = pc
  <2>1. c.pc + 2 \in Int
    BY BytesOfAWord DEF IsCpu
  <2>2. QED
    BY <2>1, WordIsAddress DEF Alike
<1>2. JumpToSubroutine(c, inst) = Jump(d, inst) /\ JumpToSubroutine(m, inst) = Jump(n, inst)
  BY <1>1 DEF JumpToSubroutine
<1> HIDE DEF pc
<1>3. /\ IsCpu(d) /\ IsCpu(n) /\ InStep(c, m, d, n, H, Below(c, 2))
      /\ d.r = [c.r EXCEPT !.SP = Wrap(c.r.SP - 2)]
  BY <1>1, PushWordKeeps, PushWordInStep
<1> HIDE DEF d, n
<1>4. Alike(d, n, H \ Below(c, 2))
  BY <1>3 DEF InStep
<1>5. d.r.X = c.r.X
  BY <1>3 DEF IsCpu, Registers
<1>6. PointerCells(d, inst) = PointerCells(c, inst)
  BY <1>5, Zenon DEF PointerCells
<1>7. (H \ Below(c, 2)) \cap PointerCells(d, inst) = {}
  BY <1>6
<1>8. resolve(n, inst) = resolve(d, inst)
  BY <1>4, <1>7, ResolveAlike
<1>9. InStep(d, n, Jump(d, inst), Jump(n, inst), H \ Below(c, 2), {})
  BY <1>3, <1>4, <1>8, JumpInStep
<1>10. InStep(c, m, Jump(d, inst), Jump(n, inst), H, Below(c, 2) \union {})
  BY <1>3, <1>9, InStepTwice
<1>11. Below(c, 2) \union {} = Below(c, 2)
  OBVIOUS
<1>12. QED
  BY <1>2, <1>10, <1>11

LEMMA BranchInStep ==
  ASSUME NEW c, IsCpu(c), NEW m, IsCpu(m), NEW H, Alike(c, m, H), NEW inst
  PROVE  InStep(c, m, Branch(c, inst), Branch(m, inst), H, {})
<1> DEFINE offset == operand0(inst)
           next == Word(c.pc + 2)
           target == Word(next + Signed(offset))
           extra == IF SamePage(next, target) THEN 1 ELSE 2
           taken == ~(offset = 0 \/ ~(c.f[BranchesOn[inst.op][1]] = BranchesOn[inst.op][2]))
           d == [c EXCEPT !.pc = target, !.extra = @ + extra]
           n == [m EXCEPT !.pc = target, !.extra = @ + extra]
<1>1. m.pc = c.pc /\ m.f = c.f /\ m.r = c.r
  BY DEF Alike
<1>2. CASE taken
  <2>1. Branch(c, inst) = d /\ Branch(m, inst) = n
    BY <1>1, <1>2, Zenon DEF Branch, branch_if
  <2> HIDE DEF target, extra
  <2>2. d.mem = c.mem /\ d.pc = target /\ d.r = c.r /\ d.f = c.f
    BY DEF IsCpu
  <2>3. n.mem = m.mem /\ n.pc = target /\ n.r = m.r /\ n.f = m.f
    BY DEF IsCpu
  <2> HIDE DEF d, n
  <2>4. QED
    BY <1>1, <2>1, <2>2, <2>3, InStepOfFields
<1>3. CASE ~taken
  <2>1. Branch(c, inst) = c /\ Branch(m, inst) = m
    BY <1>1, <1>3, Zenon DEF Branch, branch_if
  <2>2. QED
    BY <1>1, <2>1, InStepOfFields
<1>4. QED
  BY <1>2, <1>3

LEMMA PushedInStep ==
  ASSUME NEW c, IsCpu(c), NEW m, IsCpu(m), NEW H, Alike(c, m, H), NEW op
  PROVE  InStep(c, m, push(c, Pushed(c, op)), push(m, Pushed(m, op)), H, Below(c, 1))
<1>1. m.r = c.r /\ m.f = c.f
  BY DEF Alike
<1>2. Pushed(m, op) = Pushed(c, op)
  BY <1>1, Zenon DEF Pushed
<1>3. QED
  BY <1>2, PushInStep

LEMMA BreakInStep ==
  ASSUME NEW c, IsCpu(c), NEW m, IsCpu(m), NEW H, Alike(c, m, H),
         IRQ_VECTOR \notin H, Word(IRQ_VECTOR + 1) \notin H
  PROVE  InStep(c, m, Break(c), Break(m), H, Below(c, 3))
<1>1. Word(c.pc + 2) \in Addresses /\ Word(m.pc + 2) = Word(c.pc + 2)
  <2>1. c.pc + 2 \in Int
    BY BytesOfAWord DEF IsCpu
  <2>2. QED
    BY <2>1, WordIsAddress DEF Alike
<1>2. 1 \in Carry
  BY DEF Carry
<1>3. QED
  BY <1>1, <1>2, EnterInStep DEF Break

-----------------------------------------------------------------------------
(* What an instruction reads and writes, an opcode family at a time.       *)

LEMMA ReadersInStep ==
  ASSUME NEW c, IsCpu(c), NEW m, IsCpu(m), NEW H, Alike(c, m, H),
         NEW inst, Instruction(inst), inst.op \in Readers,
         inst.mode \in Addressed \union {"Imm"}, H \cap Reads(c, inst) = {}
  PROVE  /\ Writes(c, inst) = {}
         /\ InStep(c, m, Effect(c, inst), Effect(m, inst), H, {})
<1>1. inst.op \notin Writing /\ inst.op \notin DOMAIN PushedBy /\ inst.op \notin NotReading
  BY DEF Readers, LoadedBy, Combining, Writing, PushedBy, NotReading, Combination
<1>2. Writes(c, inst) = {}
  BY <1>1 DEF Writes
<1>3. H \cap PointerCells(c, inst) = {} /\ H \cap OperandCell(c, inst) = {}
  BY <1>1 DEF Reads
<1>4. Value(m, inst) = Value(c, inst)
  BY <1>3, ValueAlike
<1>5. inst.operands[1] \in Byte /\ Value(c, inst) \in Byte
  BY ValueIsByte DEF Instruction
<1>6. /\ IsCpu(Resolved(c, inst)) /\ IsCpu(Resolved(m, inst))
      /\ InStep(c, m, Resolved(c, inst), Resolved(m, inst), H, {})
  BY ResolvedKeeps, ResolvedInStep
<1>7. CASE inst.op \in DOMAIN LoadedBy
  <2>1. Effect(c, inst) = Load(c, inst) /\ Effect(m, inst) = Load(m, inst)
    BY <1>7, Zenon DEF Effect, CountedBy, FlagOps, LoadedBy, Moves, BranchesOn, Combination
  <2>2. QED
    BY <1>2, <1>4, <1>5, <2>1, LoadsInStep
<1>8. CASE inst.op = "LAX"
  <2>1. Effect(c, inst) = Lax(c, inst) /\ Effect(m, inst) = Lax(m, inst)
    BY <1>8, Zenon DEF Effect, CountedBy, FlagOps, LoadedBy, Moves, BranchesOn, Combination
  <2>2. QED
    BY <1>2, <1>4, <1>5, <2>1, LoadsInStep
<1>9. CASE inst.op = "BIT"
  <2>1. /\ Effect(c, inst) = TestBits(Resolved(c, inst), inst)
        /\ Effect(m, inst) = TestBits(Resolved(m, inst), inst)
    BY <1>9, Zenon DEF Effect, CountedBy, FlagOps, LoadedBy, Moves, BranchesOn, Combination
  <2>2. QED
    BY <1>2, <1>4, <2>1, BitInStep
<1>10. CASE inst.op \in {"ANC", "ANC2", "ALR"}
  <2>1. Effect(c, inst) = AndForFlags(c, inst) /\ Effect(m, inst) = AndForFlags(m, inst)
    BY <1>10, Zenon DEF Effect, CountedBy, FlagOps, LoadedBy, Moves, BranchesOn, Combination
  <2>2. QED
    BY <1>2, <1>4, <1>5, <2>1, TestsInStep
<1>11. CASE inst.op \in Combining
  <2> DEFINE d == Resolved(c, inst)
             n == Resolved(m, inst)
             v == Value(c, inst)
  <2>1. Effect(c, inst) = Combine(d, inst.op, v) /\ Effect(m, inst) = Combine(n, inst.op, v)
    BY <1>4, <1>11, Zenon DEF Effect, CountedBy, FlagOps, LoadedBy, Moves, BranchesOn,
       Combination, Combining
  <2>2. IsCpu(d) /\ IsCpu(n) /\ InStep(c, m, d, n, H, {}) /\ v \in Byte
    BY <1>5, <1>6
  <2> HIDE DEF d, n, v
  <2>3. InStep(c, m, Combine(d, inst.op, v), Combine(n, inst.op, v), H, {})
    BY <1>11, <2>2, InStepQuietly, CombineInStep
  <2>4. QED
    BY <1>2, <2>1, <2>3
<1>12. QED
  BY <1>7, <1>8, <1>9, <1>10, <1>11 DEF Readers

LEMMA WritersInStep ==
  ASSUME NEW c, IsCpu(c), NEW m, IsCpu(m), NEW H, Alike(c, m, H),
         NEW inst, Instruction(inst), inst.op \in Writers, inst.mode \in Addressed,
         H \cap Reads(c, inst) = {}
  PROVE  InStep(c, m, Effect(c, inst), Effect(m, inst), H, Writes(c, inst))
<1>1. inst.operands[1] \in Byte /\ inst.operands[2] \in Byte
  BY DEF Instruction
<1>2. H \cap PointerCells(c, inst) = {}
  BY DEF Reads
<1>3. resolve(m, inst) = resolve(c, inst) /\ OperandCell(c, inst) = {resolve(c, inst)}
  BY <1>2, ResolveAlike DEF OperandCell
<1>4. ASSUME inst.op \notin NotReading PROVE Value(m, inst) = Value(c, inst)
  <2>1. H \cap OperandCell(c, inst) = {}
    BY <1>4 DEF Reads
  <2>2. QED
    BY <1>2, <2>1, ValueAlike
<1>5. ASSUME inst.op \in Writing PROVE Writes(c, inst) = {resolve(c, inst)}
  <2>1. inst.op \notin DOMAIN PushedBy
    BY <1>5 DEF Writing, PushedBy, Combination
  <2>2. QED
    BY <1>3, <1>5, <2>1 DEF Writes
<1>6. CASE inst.op \in {"STA", "STX", "STY", "SAX"}
  <2>1. Effect(c, inst) = Store(c, inst) /\ Effect(m, inst) = Store(m, inst)
    BY <1>6, Zenon DEF Effect, CountedBy, FlagOps, LoadedBy, Moves, BranchesOn, Combination
  <2>2. inst.op \in Writing
    BY <1>6 DEF Writing
  <2>3. QED
    BY <1>3, <1>5, <2>1, <2>2, StoreInStep
<1>7. CASE inst.op = "JMP"
  <2>1. Effect(c, inst) = Jump(c, inst) /\ Effect(m, inst) = Jump(m, inst)
    BY <1>7, Zenon DEF Effect, CountedBy, FlagOps, LoadedBy, Moves, BranchesOn, Combination
  <2>2. inst.op \notin Writing /\ inst.op \notin DOMAIN PushedBy
    BY <1>7 DEF Writing, PushedBy, Combination
  <2>3. Writes(c, inst) = {}
    BY <2>2 DEF Writes
  <2>4. QED
    BY <1>3, <2>1, <2>3, JumpInStep
<1>8. CASE inst.op = "JSR"
  <2>1. Effect(c, inst) = JumpToSubroutine(c, inst) /\ Effect(m, inst) = JumpToSubroutine(m, inst)
    BY <1>8, Zenon DEF Effect, CountedBy, FlagOps, LoadedBy, Moves, BranchesOn, Combination
  <2>2. inst.op \notin Writing /\ inst.op \in DOMAIN PushedBy /\ PushedBy[inst.op] = 2
    BY <1>8 DEF Writing, PushedBy, Combination
  <2>3. Writes(c, inst) = Below(c, 2)
    BY <2>2 DEF Writes, Below
  <2>4. QED
    BY <1>2, <2>1, <2>3, SubroutineInStep
<1>9. CASE inst.op \in {"DEC", "INC"}
  <2>1. inst.mode # "Impl"
    BY DEF Addressed
  <2>2. /\ Effect(c, inst) = ModifyMemory(c, inst, inst.op)
        /\ Effect(m, inst) = ModifyMemory(m, inst, inst.op)
    BY <1>9, <2>1, Zenon DEF Effect, CountedBy, FlagOps, LoadedBy, Moves, BranchesOn,
       Combination
  <2>3. inst.op \in Writing /\ inst.op \notin NotReading
    BY <1>9 DEF Writing, NotReading
  <2>4. InStep(c, m, ModifyMemory(c, inst, inst.op), ModifyMemory(m, inst, inst.op), H,
               {resolve(c, inst)})
    BY <1>1, <1>3, <1>4, <1>9, <2>3, ModifyMemoryInStep
  <2>5. QED
    BY <1>5, <2>2, <2>3, <2>4
<1>10. CASE inst.op \in DOMAIN Combination
  <2>1. Effect(c, inst) = ModifyAndCombine(c, inst) /\ Effect(m, inst) = ModifyAndCombine(m, inst)
    BY <1>10, Zenon DEF Effect, CountedBy, FlagOps, LoadedBy, Moves, BranchesOn, Combination
  <2>2. inst.op \in Writing /\ inst.op \notin NotReading
    BY <1>10 DEF Writing, NotReading, Combination
  <2>3. QED
    BY <1>1, <1>3, <1>4, <1>5, <1>10, <2>1, <2>2, ModifyAndCombineInStep
<1>11. QED
  BY <1>6, <1>7, <1>8, <1>9, <1>10 DEF Writers

LEMMA ShiftsInStep ==
  ASSUME NEW c, IsCpu(c), NEW m, IsCpu(m), NEW H, Alike(c, m, H),
         NEW inst, Instruction(inst), inst.op \in Shifts,
         inst.mode \in Addressed \union {"Impl"}, H \cap Reads(c, inst) = {}
  PROVE  InStep(c, m, Effect(c, inst), Effect(m, inst), H, Writes(c, inst))
<1>1. inst.operands[1] \in Byte /\ inst.operands[2] \in Byte
  BY DEF Instruction
<1>2. inst.op \in Writing /\ inst.op \notin DOMAIN PushedBy /\ inst.op \notin NotReading
  BY DEF Shifts, Writing, PushedBy, NotReading
<1>3. Writes(c, inst) = OperandCell(c, inst)
  BY <1>2 DEF Writes
<1>4. CASE inst.mode = "Impl"
  <2>1. /\ Effect(c, inst) = ModifyAccumulator(c, inst.op)
        /\ Effect(m, inst) = ModifyAccumulator(m, inst.op)
    BY <1>4, EffectOfShifts
  <2>2. Writes(c, inst) = {}
    BY <1>3, <1>4 DEF OperandCell, Addressed
  <2>3. QED
    BY <2>1, <2>2, ModifyAccumulatorInStep
<1>5. CASE inst.mode \in Addressed
  <2>1. /\ Effect(c, inst) = ModifyMemory(c, inst, inst.op)
        /\ Effect(m, inst) = ModifyMemory(m, inst, inst.op)
    BY <1>5, EffectOfShifts
  <2>2. H \cap PointerCells(c, inst) = {} /\ H \cap OperandCell(c, inst) = {}
    BY <1>2 DEF Reads
  <2>3. resolve(m, inst) = resolve(c, inst) /\ Value(m, inst) = Value(c, inst)
    BY <1>5, <2>2, ResolveAlike, ValueAlike
  <2>4. Writes(c, inst) = {resolve(c, inst)}
    BY <1>3, <1>5 DEF OperandCell
  <2>5. QED
    BY <1>1, <1>5, <2>1, <2>3, <2>4, ModifyMemoryInStep
<1>6. QED
  BY <1>4, <1>5

(* The opcodes that only touch registers and flags, and the branches.      *)
LEMMA QuietInStep ==
  ASSUME NEW c, IsCpu(c), NEW m, IsCpu(m), NEW H, Alike(c, m, H),
         NEW inst, Instruction(inst),
         inst.op \in {"NOP", "TXS"} \union DOMAIN CountedBy \union DOMAIN FlagOps
                       \union DOMAIN Moves \union DOMAIN BranchesOn
  PROVE  /\ Writes(c, inst) = {}
         /\ Alike(Effect(c, inst), Effect(m, inst), H)
         /\ inst.op # "CLI" => InStep(c, m, Effect(c, inst), Effect(m, inst), H, {})
<1>1. inst.op \notin Writing /\ inst.op \notin DOMAIN PushedBy
  BY DEF Writing, PushedBy, Combination, CountedBy, FlagOps, Moves, BranchesOn
<1>2. Writes(c, inst) = {}
  BY <1>1 DEF Writes
<1>3. CASE inst.op = "NOP"
  <2>1. Effect(c, inst) = Resolved(c, inst) /\ Effect(m, inst) = Resolved(m, inst)
    BY <1>3, Zenon DEF Effect, CountedBy, FlagOps, LoadedBy, Moves, BranchesOn, Combination
  <2>2. InStep(c, m, Effect(c, inst), Effect(m, inst), H, {})
    BY <2>1, ResolvedInStep
  <2>3. QED
    BY <1>2, <2>2, InStepQuietly
<1>4. CASE inst.op = "TXS"
  <2>1. /\ Effect(c, inst) = [c EXCEPT !.r.SP = c.r.X]
        /\ Effect(m, inst) = [m EXCEPT !.r.SP = m.r.X]
    BY <1>4, Zenon DEF Effect, CountedBy, FlagOps, LoadedBy, Moves, BranchesOn, Combination
  <2>2. InStep(c, m, [c EXCEPT !.r.SP = c.r.X], [m EXCEPT !.r.SP = m.r.X], H, {})
    BY RegistersInStep
  <2>3. InStep(c, m, Effect(c, inst), Effect(m, inst), H, {})
    BY <2>1, <2>2
  <2>4. QED
    BY <1>2, <2>3, InStepQuietly
<1>5. CASE inst.op \in DOMAIN CountedBy
  <2>1. Effect(c, inst) = CountReg(c, inst.op) /\ Effect(m, inst) = CountReg(m, inst.op)
    BY <1>5, Zenon DEF Effect, CountedBy, FlagOps, LoadedBy, Moves, BranchesOn, Combination
  <2>2. InStep(c, m, CountReg(c, inst.op), CountReg(m, inst.op), H, {})
    BY RegistersInStep
  <2>3. InStep(c, m, Effect(c, inst), Effect(m, inst), H, {})
    BY <2>1, <2>2
  <2>4. QED
    BY <1>2, <2>3, InStepQuietly
<1>6. CASE inst.op \in DOMAIN FlagOps
  <2>1. Effect(c, inst) = SetFlag(c, inst.op) /\ Effect(m, inst) = SetFlag(m, inst.op)
    BY <1>6, Zenon DEF Effect, CountedBy, FlagOps, LoadedBy, Moves, BranchesOn, Combination
  <2>2. QED
    BY <1>2, <1>6, <2>1, SetFlagAlike
<1>7. CASE inst.op \in DOMAIN Moves
  <2>1. Effect(c, inst) = Transfer(c, inst.op) /\ Effect(m, inst) = Transfer(m, inst.op)
    BY <1>7, Zenon DEF Effect, CountedBy, FlagOps, LoadedBy, Moves, BranchesOn, Combination
  <2>2. InStep(c, m, Transfer(c, inst.op), Transfer(m, inst.op), H, {})
    BY RegistersInStep
  <2>3. InStep(c, m, Effect(c, inst), Effect(m, inst), H, {})
    BY <2>1, <2>2
  <2>4. QED
    BY <1>2, <2>3, InStepQuietly
<1>8. CASE inst.op \in DOMAIN BranchesOn
  <2>1. Effect(c, inst) = Branch(c, inst) /\ Effect(m, inst) = Branch(m, inst)
    BY <1>8, Zenon DEF Effect, CountedBy, FlagOps, LoadedBy, Moves, BranchesOn, Combination
  <2>2. InStep(c, m, Effect(c, inst), Effect(m, inst), H, {})
    BY <2>1, BranchInStep
  <2>3. QED
    BY <1>2, <2>2, InStepQuietly
<1>9. QED
  BY <1>3, <1>4, <1>5, <1>6, <1>7, <1>8

(* The opcodes that use the stack, but for RTI.                            *)
LEMMA StackInStep ==
  ASSUME NEW c, IsCpu(c), NEW m, IsCpu(m), NEW H, Alike(c, m, H),
         NEW inst, Instruction(inst), H \cap Reads(c, inst) = {},
         inst.op \in {"RTS", "BRK", "PHA", "PHP", "PLA", "PLP"}
  PROVE  /\ Alike(Effect(c, inst), Effect(m, inst), H \ Writes(c, inst))
         /\ (inst.op = "PLP" => 4 \in Bits(Top(c, 1)))
              => InStep(c, m, Effect(c, inst), Effect(m, inst), H, Writes(c, inst))
<1> USE DEF CountedBy, FlagOps, LoadedBy, Moves, BranchesOn, Combination
<1>1. inst.op \notin Writing
  BY DEF Writing
<1>2. inst.op \in DOMAIN PushedBy => Writes(c, inst) = Below(c, PushedBy[inst.op])
  BY <1>1 DEF Writes, Below
<1>3. inst.op \notin DOMAIN PushedBy => Writes(c, inst) = {}
  BY <1>1 DEF Writes
<1>4. inst.op \in DOMAIN PulledBy => H \cap Above(c, PulledBy[inst.op]) = {}
  BY DEF Reads, Above
<1>5. CASE inst.op = "RTS"
  <2>1. Effect(c, inst) = ReturnFromSubroutine(c) /\ Effect(m, inst) = ReturnFromSubroutine(m)
    BY <1>5, Zenon DEF Effect
  <2>2. PulledBy[inst.op] = 2 /\ inst.op \in DOMAIN PulledBy /\ inst.op \notin DOMAIN PushedBy
    BY <1>5 DEF PulledBy, PushedBy
  <2>3. InStep(c, m, Effect(c, inst), Effect(m, inst), H, Writes(c, inst))
    BY <1>3, <1>4, <2>1, <2>2, PullsInStep
  <2>4. QED
    BY <2>3 DEF InStep
<1>6. CASE inst.op = "BRK"
  <2>1. Effect(c, inst) = Break(c) /\ Effect(m, inst) = Break(m)
    BY <1>6, Zenon DEF Effect
  <2>2. PushedBy[inst.op] = 3 /\ inst.op \in DOMAIN PushedBy
    BY <1>6 DEF PushedBy
  <2>3. IRQ_VECTOR \notin H /\ Word(IRQ_VECTOR + 1) \notin H
    BY <1>6 DEF Reads
  <2>4. InStep(c, m, Effect(c, inst), Effect(m, inst), H, Writes(c, inst))
    BY <1>2, <2>1, <2>2, <2>3, BreakInStep
  <2>5. QED
    BY <2>4 DEF InStep
<1>7. CASE inst.op \in {"PHA", "PHP"}
  <2>1. /\ Effect(c, inst) = push(c, Pushed(c, inst.op))
        /\ Effect(m, inst) = push(m, Pushed(m, inst.op))
    BY <1>7, Zenon DEF Effect
  <2>2. PushedBy[inst.op] = 1 /\ inst.op \in DOMAIN PushedBy
    BY <1>7 DEF PushedBy
  <2>3. InStep(c, m, Effect(c, inst), Effect(m, inst), H, Writes(c, inst))
    BY <1>2, <2>1, <2>2, PushedInStep
  <2>4. QED
    BY <2>3 DEF InStep
<1>8. CASE inst.op = "PLA"
  <2>1. /\ Effect(c, inst) = SetReg(Drop(c, 1), "A", Top(c, 1))
        /\ Effect(m, inst) = SetReg(Drop(m, 1), "A", Top(m, 1))
    BY <1>8, Zenon DEF Effect
  <2>2. PulledBy[inst.op] = 1 /\ inst.op \in DOMAIN PulledBy /\ inst.op \notin DOMAIN PushedBy
    BY <1>8 DEF PulledBy, PushedBy
  <2>3. InStep(c, m, Effect(c, inst), Effect(m, inst), H, Writes(c, inst))
    BY <1>3, <1>4, <2>1, <2>2, PullsInStep
  <2>4. QED
    BY <2>3 DEF InStep
<1>9. CASE inst.op = "PLP"
  <2> DEFINE d == set_flags_ignore_5_4(Drop(c, 1), Top(c, 1))
             n == set_flags_ignore_5_4(Drop(m, 1), Top(m, 1))
  <2>1. Effect(c, inst) = d /\ Effect(m, inst) = n
    BY <1>9, Zenon DEF Effect
  <2>2. PulledBy[inst.op] = 1 /\ inst.op \in DOMAIN PulledBy /\ inst.op \notin DOMAIN PushedBy
    BY <1>9 DEF PulledBy, PushedBy
  <2>3. Writes(c, inst) = {} /\ H \cap Above(c, 1) = {} /\ H \ {} = H
    BY <1>3, <1>4, <2>2
  <2>4. 1 \in Nat \ {0}
    OBVIOUS
  <2>5. Alike(d, n, H) /\ (4 \in Bits(Top(c, 1)) => InStep(c, m, d, n, H, {}))
    BY <2>3, <2>4, FlagsPulledAlike
  <2> HIDE DEF d, n
  <2>6. QED
    BY <1>9, <2>1, <2>3, <2>5
<1>10. QED
  BY <1>5, <1>6, <1>7, <1>8, <1>9

(* An instruction that reads no cell in which the two differ does the same *)
(* to both; CLI, RTI and a PLP of a clear mask may give the mask back.     *)
LEMMA EffectInStep ==
  ASSUME NEW c, IsCpu(c), NEW m, IsCpu(m), NEW H, Alike(c, m, H),
         NEW inst, Instruction(inst), inst.op # "JAM", H \cap Reads(c, inst) = {}
  PROVE  /\ Alike(Effect(c, inst), Effect(m, inst), H \ Writes(c, inst))
         /\ inst.op \notin {"CLI", "RTI"} /\ (inst.op = "PLP" => 4 \in Bits(Top(c, 1)))
              => InStep(c, m, Effect(c, inst), Effect(m, inst), H, Writes(c, inst))
<1>1. Legal(inst.op, inst.mode) /\ H \ {} = H
  BY DEF Instruction
<1>2. CASE inst.op \in Readers /\ inst.mode \in Addressed \union {"Imm"}
  <2>1. InStep(c, m, Effect(c, inst), Effect(m, inst), H, Writes(c, inst))
    BY <1>2, ReadersInStep
  <2>2. QED
    BY <2>1 DEF InStep
<1>3. CASE inst.op \in Writers /\ inst.mode \in Addressed
  <2>1. InStep(c, m, Effect(c, inst), Effect(m, inst), H, Writes(c, inst))
    BY <1>3, WritersInStep
  <2>2. QED
    BY <2>1 DEF InStep
<1>4. CASE inst.op \in Shifts /\ inst.mode \in Addressed \union {"Impl"}
  <2>1. InStep(c, m, Effect(c, inst), Effect(m, inst), H, Writes(c, inst))
    BY <1>4, ShiftsInStep
  <2>2. QED
    BY <2>1 DEF InStep
<1>5. CASE inst.op \in {"NOP", "TXS"} \union DOMAIN CountedBy \union DOMAIN FlagOps
                         \union DOMAIN Moves \union DOMAIN BranchesOn
  <2>1. /\ Writes(c, inst) = {}
        /\ Alike(Effect(c, inst), Effect(m, inst), H)
        /\ inst.op # "CLI" => InStep(c, m, Effect(c, inst), Effect(m, inst), H, {})
    BY <1>5, QuietInStep
  <2>2. QED
    BY <1>1, <2>1
<1>6. CASE inst.op \in {"RTS", "BRK", "PHA", "PHP", "PLA", "PLP"}
  BY <1>6, StackInStep
<1>7. CASE inst.op = "RTI"
  <2>1. /\ Effect(c, inst) = ReturnFromInterrupt(c)
        /\ Effect(m, inst) = ReturnFromInterrupt(m)
    BY <1>7, Zenon DEF Effect, CountedBy, FlagOps, LoadedBy, Moves, BranchesOn, Combination
  <2>2. inst.op \notin Writing /\ inst.op \notin DOMAIN PushedBy
    BY <1>7 DEF Writing, PushedBy, Combination
  <2>3. inst.op \in DOMAIN PulledBy /\ PulledBy[inst.op] = 3
    BY <1>7 DEF PulledBy
  <2>4. Writes(c, inst) = {} /\ H \cap Above(c, 3) = {}
    BY <2>2, <2>3 DEF Writes, Reads, Above
  <2>5. QED
    BY <1>1, <1>7, <2>1, <2>4, ReturnAlike
<1>8. QED
  BY <1>1, <1>2, <1>3, <1>4, <1>5, <1>6, <1>7 DEF Legal, Others

(* An executed instruction, and where it leaves pc.                        *)
LEMMA ExecuteIs ==
  ASSUME NEW c, IsCpu(c), Executable(c)
  PROVE  LET inst == fetch_next_instruction(c)
             effect == Effect(c, inst)
         IN /\ Instruction(inst) /\ inst.op # "JAM"
            /\ IsCpu(effect) /\ IsCpu(execute(c, inst))
            /\ execute(c, inst).r = effect.r /\ execute(c, inst).f = effect.f
            /\ execute(c, inst).mem = effect.mem
            /\ execute(c, inst).pc = IF c.pc = effect.pc /\ inst.op # "JMP"
                                     THEN Word(effect.pc + inst.size) ELSE effect.pc
<1> DEFINE inst == fetch_next_instruction(c)
           effect == Effect(c, inst)
           done == Advanced(c, effect, inst)
           pc == Word(effect.pc + inst.size)
           cycles == inst.cycles + done.extra
<1>1. /\ Instruction(inst) /\ IsCpu(execute(c, inst))
      /\ execute(c, inst).r = effect.r /\ execute(c, inst).f = effect.f
      /\ execute(c, inst).mem = effect.mem
  BY ExecuteKeeps
<1>2. inst.op # "JAM"
  BY DEF Executable, fetch_next_instruction, disassemble
<1>3. execute(c, inst) = [done EXCEPT !.cycles = cycles, !.extra = 0]
  BY DEF execute
<1> HIDE DEF inst
<1>4. IsCpu(effect)
  BY <1>1, <1>2, EffectKeeps
<1> HIDE DEF effect
<1>5. IsCpu(done)
  BY <1>1, <1>4, AdvancedKeeps
<1>6. done.pc = IF c.pc = effect.pc /\ inst.op # "JMP" THEN pc ELSE effect.pc
  <2>1. done = IF c.pc = effect.pc /\ inst.op # "JMP" THEN [effect EXCEPT !.pc = pc] ELSE effect
    BY DEF Advanced
  <2> HIDE DEF pc, done
  <2>2. QED
    BY <1>4, <2>1 DEF IsCpu
<1> HIDE DEF done, cycles
<1>7. execute(c, inst).pc = done.pc
  BY <1>3, <1>5 DEF IsCpu
<1>8. QED
  BY <1>1, <1>2, <1>4, <1>6, <1>7 DEF inst, effect

LEMMA ExecuteAlike ==
  ASSUME NEW c, IsCpu(c), NEW m, IsCpu(m), NEW H, Alike(c, m, H), Executable(c),
         H \cap Reads(c, fetch_next_instruction(c)) = {}
  PROVE  LET inst == fetch_next_instruction(c)
         IN /\ Executable(m) /\ fetch_next_instruction(m) = inst
            /\ Alike(execute(c, inst), execute(m, inst), H \ Writes(c, inst))
<1> DEFINE inst == fetch_next_instruction(c)
<1>1. c.pc \notin H /\ Word(c.pc + 1) \notin H /\ Word(c.pc + 2) \notin H
  BY DEF Reads
<1>2. /\ m.pc = c.pc
      /\ read8(m, c.pc) = read8(c, c.pc)
      /\ read8(m, Word(c.pc + 1)) = read8(c, Word(c.pc + 1))
      /\ read8(m, Word(c.pc + 2)) = read8(c, Word(c.pc + 2))
  BY <1>1 DEF Alike, SameBut, SameCell
<1>3. Executable(m)
  BY <1>2, Zenon DEF Executable
<1>4. fetch_next_instruction(m) = inst
  BY <1>2, Zenon DEF fetch_next_instruction
<1> DEFINE d == execute(c, inst)
           n == execute(m, inst)
           ec == Effect(c, inst)
           em == Effect(m, inst)
<1>5. /\ Instruction(inst) /\ inst.op # "JAM"
      /\ d.r = ec.r /\ d.f = ec.f /\ d.mem = ec.mem
      /\ d.pc = IF c.pc = ec.pc /\ inst.op # "JMP" THEN Word(ec.pc + inst.size) ELSE ec.pc
  BY ExecuteIs
<1>6. /\ n.r = em.r /\ n.f = em.f /\ n.mem = em.mem
      /\ n.pc = IF m.pc = em.pc /\ inst.op # "JMP" THEN Word(em.pc + inst.size) ELSE em.pc
  BY <1>3, <1>4, ExecuteIs
<1> DEFINE W == Writes(c, inst)
<1>7. Alike(ec, em, H \ W)
  BY <1>5, EffectInStep
<1> HIDE DEF inst, d, n, ec, em, W
<1>8. ec.pc = em.pc /\ ec.r = em.r /\ ec.f = em.f
  BY <1>7 DEF Alike
<1>9. d.pc = n.pc
  BY <1>2, <1>5, <1>6, <1>8
<1>10. Alike(d, n, H \ W)
  BY <1>5, <1>6, <1>7, <1>8, <1>9, AlikeOfFields
<1>11. QED
  BY <1>3, <1>4, <1>10 DEF inst, d, n, W

LEMMA ExecuteKept ==
  ASSUME NEW c, IsCpu(c), Executable(c)
  PROVE  LET inst == fetch_next_instruction(c)
         IN inst.op \notin {"CLI", "RTI"} /\ (inst.op = "PLP" => 4 \in Bits(Top(c, 1)))
              => Kept(c, execute(c, inst), Writes(c, inst))
<1> DEFINE inst == fetch_next_instruction(c)
           d == execute(c, inst)
           ec == Effect(c, inst)
           W == Writes(c, inst)
<1>1. Instruction(inst) /\ inst.op # "JAM" /\ d.f = ec.f /\ d.mem = ec.mem
  BY ExecuteIs
<1>2. Alike(c, c, {}) /\ {} \cap Reads(c, inst) = {}
  BY DEF Alike, SameBut, SameCell
<1>3. ASSUME inst.op \notin {"CLI", "RTI"}, inst.op = "PLP" => 4 \in Bits(Top(c, 1))
      PROVE  InStep(c, c, ec, ec, {}, W)
  BY <1>1, <1>2, <1>3, EffectInStep
<1> HIDE DEF inst, d, ec, W
<1>4. InStep(c, c, ec, ec, {}, W) => Kept(c, d, W)
  BY <1>1 DEF InStep, Kept, SameBut, SameCell, read8
<1>5. QED
  BY <1>3, <1>4 DEF inst, d, W

-----------------------------------------------------------------------------
(* The flags survive the stack: what RTI and PLP read from the byte that   *)
(* was pushed is what was pushed.                                          *)

LEMMA WeightsAre ==
  ASSUME NEW g \in [DOMAIN BitOf -> Carry]
  PROVE  flags_as_byte(g) = 128 * g.N + 64 * g.V + 32 * g.UNUSED + 16 * g.B
                            + 8 * g.D + 4 * g.I + 2 * g.Z + g.C
<1> DEFINE bits == {BitOf[b] : b \in {b \in DOMAIN g : g[b] = 1}}
           Weight(w) == IF w \in bits THEN w ELSE 0
<1>1. /\ DOMAIN g = {"N", "V", "UNUSED", "B", "D", "I", "Z", "C"}
      /\ \A b \in DOMAIN g : g[b] \in {0, 1}
  BY DEF BitOf, Carry
<1>2. /\ 128 \in bits <=> g.N = 1
      /\ 64 \in bits <=> g.V = 1
      /\ 32 \in bits <=> g.UNUSED = 1
      /\ 16 \in bits <=> g.B = 1
      /\ 8 \in bits <=> g.D = 1
      /\ 4 \in bits <=> g.I = 1
      /\ 2 \in bits <=> g.Z = 1
      /\ 1 \in bits <=> g.C = 1
  BY <1>1 DEF BitOf
<1>3. flags_as_byte(g) = Weight(128) + Weight(64) + Weight(32) + Weight(16)
                         + Weight(8) + Weight(4) + Weight(2) + Weight(1)
  BY DEF flags_as_byte, ByteOf
<1> HIDE DEF bits
<1>4. /\ Weight(128) = 128 * g.N /\ Weight(64) = 64 * g.V /\ Weight(32) = 32 * g.UNUSED
      /\ Weight(16) = 16 * g.B /\ Weight(8) = 8 * g.D /\ Weight(4) = 4 * g.I
      /\ Weight(2) = 2 * g.Z /\ Weight(1) = g.C
  BY <1>1, <1>2
<1> HIDE DEF Weight
<1>5. QED
  BY <1>3, <1>4

LEMMA BitOfSum ==
  ASSUME NEW hi \in Nat, NEW b \in Nat, b <= 1, NEW lo \in Nat, NEW x \in Nat
  PROVE  /\ lo < 128 /\ x = 256 * hi + 128 * b + lo => (x \div 128) % 2 = b
         /\ lo < 64 /\ x = 128 * hi + 64 * b + lo => (x \div 64) % 2 = b
         /\ lo < 32 /\ x = 64 * hi + 32 * b + lo => (x \div 32) % 2 = b
         /\ lo < 16 /\ x = 32 * hi + 16 * b + lo => (x \div 16) % 2 = b
         /\ lo < 8 /\ x = 16 * hi + 8 * b + lo => (x \div 8) % 2 = b
         /\ lo < 4 /\ x = 8 * hi + 4 * b + lo => (x \div 4) % 2 = b
         /\ lo < 2 /\ x = 4 * hi + 2 * b + lo => (x \div 2) % 2 = b
         /\ lo < 1 /\ x = 2 * hi + b + lo => (x \div 1) % 2 = b
<1>1. ASSUME lo < 128, x = 256 * hi + 128 * b + lo PROVE (x \div 128) % 2 = b
  <2>1. x \div 128 = 2 * hi + b
    BY <1>1
  <2>2. QED
    BY <2>1
<1>2. ASSUME lo < 64, x = 128 * hi + 64 * b + lo PROVE (x \div 64) % 2 = b
  <2>1. x \div 64 = 2 * hi + b
    BY <1>2
  <2>2. QED
    BY <2>1
<1>3. ASSUME lo < 32, x = 64 * hi + 32 * b + lo PROVE (x \div 32) % 2 = b
  <2>1. x \div 32 = 2 * hi + b
    BY <1>3
  <2>2. QED
    BY <2>1
<1>4. ASSUME lo < 16, x = 32 * hi + 16 * b + lo PROVE (x \div 16) % 2 = b
  <2>1. x \div 16 = 2 * hi + b
    BY <1>4
  <2>2. QED
    BY <2>1
<1>5. ASSUME lo < 8, x = 16 * hi + 8 * b + lo PROVE (x \div 8) % 2 = b
  <2>1. x \div 8 = 2 * hi + b
    BY <1>5
  <2>2. QED
    BY <2>1
<1>6. ASSUME lo < 4, x = 8 * hi + 4 * b + lo PROVE (x \div 4) % 2 = b
  <2>1. x \div 4 = 2 * hi + b
    BY <1>6
  <2>2. QED
    BY <2>1
<1>7. ASSUME lo < 2, x = 4 * hi + 2 * b + lo PROVE (x \div 2) % 2 = b
  <2>1. x \div 2 = 2 * hi + b
    BY <1>7
  <2>2. QED
    BY <2>1
<1>8. ASSUME lo < 1, x = 2 * hi + b + lo PROVE (x \div 1) % 2 = b
  <2>1. x \div 1 = 2 * hi + b
    BY <1>8
  <2>2. QED
    BY <2>1
<1>9. QED
  BY <1>1, <1>2, <1>3, <1>4, <1>5, <1>6, <1>7, <1>8

LEMMA FlagsSurvive ==
  ASSUME NEW g \in [DOMAIN BitOf -> Carry]
  PROVE  \A b \in DOMAIN BitOf : (flags_as_byte(g) \div BitOf[b]) % 2 = g[b]
<1> DEFINE x == flags_as_byte(g)
           n == g.N
           v == g.V
           u == g.UNUSED
           b == g.B
           d == g.D
           i == g.I
           z == g.Z
           c == g.C
<1>1. /\ n \in Nat /\ n <= 1 /\ v \in Nat /\ v <= 1 /\ u \in Nat /\ u <= 1
      /\ b \in Nat /\ b <= 1 /\ d \in Nat /\ d <= 1 /\ i \in Nat /\ i <= 1
      /\ z \in Nat /\ z <= 1 /\ c \in Nat /\ c <= 1
  BY DEF BitOf, Carry
<1>2. x = 128 * n + 64 * v + 32 * u + 16 * b + 8 * d + 4 * i + 2 * z + c
  BY WeightsAre
<1> HIDE DEF x, n, v, u, b, d, i, z, c
<1>3. (x \div 128) % 2 = n
  <2> DEFINE hi == 0
             lo == 64 * v + 32 * u + 16 * b + 8 * d + 4 * i + 2 * z + c
  <2>1. hi \in Nat /\ lo \in Nat /\ lo < 128 /\ x = 256 * hi + 128 * n + lo /\ x \in Nat
    BY <1>1, <1>2
  <2> HIDE DEF hi, lo
  <2>2. QED
    BY <1>1, <2>1, BitOfSum
<1>4. (x \div 64) % 2 = v
  <2> DEFINE hi == n
             lo == 32 * u + 16 * b + 8 * d + 4 * i + 2 * z + c
  <2>1. hi \in Nat /\ lo \in Nat /\ lo < 64 /\ x = 128 * hi + 64 * v + lo /\ x \in Nat
    BY <1>1, <1>2
  <2> HIDE DEF hi, lo
  <2>2. QED
    BY <1>1, <2>1, BitOfSum
<1>5. (x \div 32) % 2 = u
  <2> DEFINE hi == 2 * n + v
             lo == 16 * b + 8 * d + 4 * i + 2 * z + c
  <2>1. hi \in Nat /\ lo \in Nat /\ lo < 32 /\ x = 64 * hi + 32 * u + lo /\ x \in Nat
    BY <1>1, <1>2
  <2> HIDE DEF hi, lo
  <2>2. QED
    BY <1>1, <2>1, BitOfSum
<1>6. (x \div 16) % 2 = b
  <2> DEFINE hi == 4 * n + 2 * v + u
             lo == 8 * d + 4 * i + 2 * z + c
  <2>1. hi \in Nat /\ lo \in Nat /\ lo < 16 /\ x = 32 * hi + 16 * b + lo /\ x \in Nat
    BY <1>1, <1>2
  <2> HIDE DEF hi, lo
  <2>2. QED
    BY <1>1, <2>1, BitOfSum
<1>7. (x \div 8) % 2 = d
  <2> DEFINE hi == 8 * n + 4 * v + 2 * u + b
             lo == 4 * i + 2 * z + c
  <2>1. hi \in Nat /\ lo \in Nat /\ lo < 8 /\ x = 16 * hi + 8 * d + lo /\ x \in Nat
    BY <1>1, <1>2
  <2> HIDE DEF hi, lo
  <2>2. QED
    BY <1>1, <2>1, BitOfSum
<1>8. (x \div 4) % 2 = i
  <2> DEFINE hi == 16 * n + 8 * v + 4 * u + 2 * b + d
             lo == 2 * z + c
  <2>1. hi \in Nat /\ lo \in Nat /\ lo < 4 /\ x = 8 * hi + 4 * i + lo /\ x \in Nat
    BY <1>1, <1>2
  <2> HIDE DEF hi, lo
  <2>2. QED
    BY <1>1, <2>1, BitOfSum
<1>9. (x \div 2) % 2 = z
  <2> DEFINE hi == 32 * n + 16 * v + 8 * u + 4 * b + 2 * d + i
             lo == c
  <2>1. hi \in Nat /\ lo \in Nat /\ lo < 2 /\ x = 4 * hi + 2 * z + lo /\ x \in Nat
    BY <1>1, <1>2
  <2> HIDE DEF hi, lo
  <2>2. QED
    BY <1>1, <2>1, BitOfSum
<1>10. (x \div 1) % 2 = c
  <2> DEFINE hi == 64 * n + 32 * v + 16 * u + 8 * b + 4 * d + 2 * i + z
             lo == 0
  <2>1. hi \in Nat /\ lo \in Nat /\ lo < 1 /\ x = 2 * hi + c + lo /\ x \in Nat
    BY <1>1, <1>2
  <2> HIDE DEF hi, lo
  <2>2. QED
    BY <1>1, <2>1, BitOfSum
<1>11. QED
  BY <1>3, <1>4, <1>5, <1>6, <1>7, <1>8, <1>9, <1>10 DEF BitOf, x, n, v, u, b, d, i, z, c

(* What an interrupt leaves: the three bytes on the stack, and the rest.   *)
Pushes(c, b) == flags_as_byte([c.f EXCEPT !.B = b, !.UNUSED = 1])

HasEntered(c, d) ==
  /\ d.f = [c.f EXCEPT !.I = 1] /\ d.r = [c.r EXCEPT !.SP = c.r.SP - 3]
  /\ read8(d, STACK_TOP + c.r.SP) = c.pc \div 256
  /\ read8(d, STACK_TOP + c.r.SP - 1) = c.pc % 256
  /\ read8(d, STACK_TOP + c.r.SP - 2) = Pushes(c, 0)
  /\ SameBut(c, d, {STACK_TOP + c.r.SP, STACK_TOP + c.r.SP - 1, STACK_TOP + c.r.SP - 2})

LEMMA InterruptIs ==
  ASSUME NEW c, IsCpu(c), c.r.SP >= 3, NEW vector
  PROVE  IsCpu(interrupt(c, vector)) /\ HasEntered(c, interrupt(c, vector))
<1> DEFINE sp == c.r.SP
           d1 == push(c, c.pc \div 256)
           d2 == push(d1, c.pc % 256)
           d3 == push(d2, Pushes(c, 0))
           to == read16(d3, vector)
           e == [d3 EXCEPT !.f.I = 1, !.pc = to]
           d == [e EXCEPT !.extra = @ + 7]
<1>1. sp \in Byte /\ sp \in Nat /\ sp < 256 /\ sp >= 3
  BY BelowIs, ByteIsNat
<1>2. Wrap(sp - 1) = sp - 1 /\ Wrap(sp - 2) = sp - 2 /\ Wrap(sp - 3) = sp - 3
  BY <1>1, WrapDown
<1>3. interrupt(c, vector) = d /\ IsCpu(d)
  <2>1. interrupt(c, vector) = d
    BY DEF interrupt, Enter, push_word, Pushes
  <2>2. QED
    BY <2>1, InterruptKeeps
<1>4. c.pc \div 256 \in Byte /\ c.pc % 256 \in Byte /\ Pushes(c, 0) \in Byte
  BY BytesOfAWord, ByteOfIsByte DEF IsCpu, Pushes, flags_as_byte
<1>5. /\ IsCpu(d1) /\ d1.f = c.f
      /\ d1.r = [c.r EXCEPT !.SP = Wrap(sp - 1)]
      /\ d1.mem = write8(c, c.pc \div 256, STACK_TOP + sp).mem
  <2>1. IsCpu(d1)
    BY <1>4, PushKeeps
  <2>2. d1.f = c.f /\ d1.r = [c.r EXCEPT !.SP = Wrap(sp - 1)]
    BY PushIs
  <2>3. d1.mem = write8(c, c.pc \div 256, STACK_TOP + sp).mem
    BY PushIs
  <2>4. QED
    BY <2>1, <2>2, <2>3
<1> HIDE DEF d1
<1>6. /\ IsCpu(d2) /\ d2.f = d1.f
      /\ d2.r = [d1.r EXCEPT !.SP = Wrap(d1.r.SP - 1)]
      /\ d2.mem = write8(d1, c.pc % 256, STACK_TOP + d1.r.SP).mem
  <2>1. IsCpu(d1) /\ IsCpu(d2)
    BY <1>4, <1>5, PushKeeps
  <2>2. d2.f = d1.f /\ d2.r = [d1.r EXCEPT !.SP = Wrap(d1.r.SP - 1)]
    BY <2>1, PushIs
  <2>3. d2.mem = write8(d1, c.pc % 256, STACK_TOP + d1.r.SP).mem
    BY <2>1, PushIs
  <2>4. QED
    BY <2>1, <2>2, <2>3
<1> HIDE DEF d2
<1>7. /\ IsCpu(d3) /\ d3.f = d2.f
      /\ d3.r = [d2.r EXCEPT !.SP = Wrap(d2.r.SP - 1)]
      /\ d3.mem = write8(d2, Pushes(c, 0), STACK_TOP + d2.r.SP).mem
  <2>1. IsCpu(d2) /\ IsCpu(d3)
    BY <1>4, <1>6, PushKeeps
  <2>2. d3.f = d2.f /\ d3.r = [d2.r EXCEPT !.SP = Wrap(d2.r.SP - 1)]
    BY <2>1, PushIs
  <2>3. d3.mem = write8(d2, Pushes(c, 0), STACK_TOP + d2.r.SP).mem
    BY <2>1, PushIs
  <2>4. QED
    BY <2>1, <2>2, <2>3
<1> HIDE DEF d3
<1>8. "SP" \in DOMAIN c.r
  BY DEF IsCpu, Registers
<1>9. d1.r.SP = sp - 1 /\ d1.r = [c.r EXCEPT !.SP = sp - 1]
  BY <1>2, <1>5, <1>8
<1>10. d2.r.SP = sp - 2 /\ d2.r = [c.r EXCEPT !.SP = sp - 2]
  <2>1. Wrap((sp - 1) - 1) = sp - 2
    BY <1>1, <1>2
  <2>2. QED
    BY <1>6, <1>8, <1>9, <2>1
<1>11. d3.r = [c.r EXCEPT !.SP = sp - 3]
  <2>1. Wrap((sp - 2) - 1) = sp - 3
    BY <1>1, <1>2
  <2>2. QED
    BY <1>7, <1>8, <1>10, <2>1
<1> DEFINE a1 == STACK_TOP + sp
           a2 == STACK_TOP + sp - 1
           a3 == STACK_TOP + sp - 2
<1>12. a1 # a2 /\ a1 # a3 /\ a2 # a3 /\ STACK_TOP + (sp - 1) = a2 /\ STACK_TOP + (sp - 2) = a3
  BY <1>1 DEF STACK_TOP
<1> HIDE DEF a1, a2, a3, sp, to
<1>13. /\ DOMAIN d1.mem = DOMAIN c.mem \union {a1}
       /\ \A x : read8(d1, x) = IF x = a1 THEN c.pc \div 256 ELSE read8(c, x)
  <2>1. /\ DOMAIN write8(c, c.pc \div 256, a1).mem = DOMAIN c.mem \union {a1}
        /\ \A x : read8(write8(c, c.pc \div 256, a1), x)
                    = IF x = a1 THEN c.pc \div 256 ELSE read8(c, x)
    BY WriteIs
  <2>2. QED
    BY <1>5, <2>1 DEF read8, a1
<1>14. /\ DOMAIN d2.mem = DOMAIN d1.mem \union {a2}
       /\ \A x : read8(d2, x) = IF x = a2 THEN c.pc % 256 ELSE read8(d1, x)
  <2>1. /\ DOMAIN write8(d1, c.pc % 256, a2).mem = DOMAIN d1.mem \union {a2}
        /\ \A x : read8(write8(d1, c.pc % 256, a2), x)
                    = IF x = a2 THEN c.pc % 256 ELSE read8(d1, x)
    BY <1>5, WriteIs
  <2>2. d2.mem = write8(d1, c.pc % 256, a2).mem
    BY <1>6, <1>9, <1>12
  <2>3. QED
    BY <2>1, <2>2 DEF read8
<1>15. /\ DOMAIN d3.mem = DOMAIN d2.mem \union {a3}
       /\ \A x : read8(d3, x) = IF x = a3 THEN Pushes(c, 0) ELSE read8(d2, x)
  <2>1. /\ DOMAIN write8(d2, Pushes(c, 0), a3).mem = DOMAIN d2.mem \union {a3}
        /\ \A x : read8(write8(d2, Pushes(c, 0), a3), x)
                    = IF x = a3 THEN Pushes(c, 0) ELSE read8(d2, x)
    BY <1>6, WriteIs
  <2>2. d3.mem = write8(d2, Pushes(c, 0), a3).mem
    BY <1>7, <1>10, <1>12
  <2>3. QED
    BY <2>1, <2>2 DEF read8
<1>16. d.mem = d3.mem /\ d.r = d3.r /\ d.f = [d3.f EXCEPT !.I = 1]
  BY <1>7 DEF IsCpu
<1> HIDE DEF d
<1>17. \A x : read8(d, x) = read8(d3, x)
  BY <1>16 DEF read8
<1>18. read8(d, a1) = c.pc \div 256 /\ read8(d, a2) = c.pc % 256 /\ read8(d, a3) = Pushes(c, 0)
  BY <1>12, <1>13, <1>14, <1>15, <1>17
<1>19. SameBut(c, d, {a1, a2, a3})
  BY <1>13, <1>14, <1>15, <1>16, <1>17 DEF SameBut, SameCell
<1>20. d.f = [c.f EXCEPT !.I = 1]
  BY <1>5, <1>6, <1>7, <1>16
<1>21. HasEntered(c, d)
  BY <1>11, <1>16, <1>18, <1>19, <1>20 DEF HasEntered, a1, a2, a3, sp
<1>22. QED
  BY <1>3, <1>21

(* What RTI makes of the three bytes that an interrupt pushed.             *)
Holds(c, frame) ==
  /\ read8(c, STACK_TOP + frame.r.SP) = frame.pc \div 256
  /\ read8(c, STACK_TOP + frame.r.SP - 1) = frame.pc % 256
  /\ read8(c, STACK_TOP + frame.r.SP - 2) = Pushes(frame, 0)

LEMMA FrameIs ==
  ASSUME NEW frame \in Frame
  PROVE  /\ frame.pc \in Addresses /\ frame.r \in [Registers -> Byte]
         /\ frame.f \in [DOMAIN BitOf -> Carry] /\ frame.event \in {"nmi", "irq"}
         /\ frame.r.SP \in Byte /\ frame.r.SP \in Nat /\ frame.r.SP < 256
<1>1. frame.r.SP \in Byte /\ frame.r \in [Registers -> Byte]
  BY DEF Frame, Registers
<1>2. QED
  BY <1>1, ByteIsNat DEF Frame

LEMMA ReturnIs ==
  ASSUME NEW c, IsCpu(c), NEW frame \in Frame, frame.r.SP >= 3, Holds(c, frame),
         c.r = [frame.r EXCEPT !.SP = @ - 3],
         frame.f.B = c.f.B, frame.f.UNUSED = c.f.UNUSED
  PROVE  /\ ReturnFromInterrupt(c).pc = frame.pc
         /\ ReturnFromInterrupt(c).r = frame.r
         /\ ReturnFromInterrupt(c).f = frame.f
         /\ ReturnFromInterrupt(c).mem = c.mem
<1> DEFINE sp == frame.r.SP
           dropped == Drop(c, 3)
           v == Top(c, 1)
           d == set_flags_ignore_5_4(dropped, v)
           pc == Top(c, 2) + (256 * Top(c, 3))
<1>1. sp \in Byte /\ sp \in Nat /\ sp < 256 /\ sp >= 3 /\ frame.r \in [Registers -> Byte]
  BY FrameIs
<1>2. c.r.SP = sp - 3
  BY <1>1 DEF Registers
<1>3. /\ Wrap(c.r.SP + 1) = sp - 2 /\ Wrap(c.r.SP + 2) = sp - 1 /\ Wrap(c.r.SP + 3) = sp
  <2>1. sp - 3 \in Byte
    BY <1>2, BelowIs
  <2>2. \A n \in Nat : sp - 3 + n < 256 => Wrap(sp - 3 + n) = sp - 3 + n
    BY <2>1, WrapDown
  <2> HIDE DEF sp
  <2>3. /\ Wrap(sp - 3 + 1) = sp - 3 + 1 /\ Wrap(sp - 3 + 2) = sp - 3 + 2
        /\ Wrap(sp - 3 + 3) = sp - 3 + 3
    BY <1>1, <2>2
  <2>4. sp - 3 + 1 = sp - 2 /\ sp - 3 + 2 = sp - 1 /\ sp - 3 + 3 = sp
    BY <1>1
  <2>5. QED
    BY <1>2, <2>3, <2>4
<1>4. /\ Top(c, 1) = read8(c, STACK_TOP + (sp - 2))
      /\ Top(c, 2) = read8(c, STACK_TOP + (sp - 1))
      /\ Top(c, 3) = read8(c, STACK_TOP + sp)
  BY <1>3, Zenon DEF Top
<1>5. STACK_TOP + (sp - 2) = STACK_TOP + sp - 2 /\ STACK_TOP + (sp - 1) = STACK_TOP + sp - 1
  BY <1>1 DEF STACK_TOP
<1>6. v = Pushes(frame, 0) /\ Top(c, 2) = frame.pc % 256 /\ Top(c, 3) = frame.pc \div 256
  BY <1>4, <1>5 DEF Holds
<1>7. pc = frame.pc
  <2>1. frame.pc \in Nat
    BY FrameIs, BytesOfAWord DEF Addresses
  <2>2. QED
    BY <1>6, <2>1
<1>8. /\ dropped.r = [c.r EXCEPT !.SP = sp] /\ dropped.f = c.f
      /\ dropped.mem = c.mem /\ IsCpu(dropped)
  <2>1. /\ dropped.r = [c.r EXCEPT !.SP = Wrap(c.r.SP + 3)] /\ dropped.f = c.f
        /\ dropped.mem = c.mem
    BY DropIs
  <2>2. IsCpu(dropped)
    BY DropKeeps
  <2> HIDE DEF dropped, sp
  <2>3. QED
    BY <1>3, <2>1, <2>2
<1>9. dropped.r = frame.r
  BY <1>1, <1>8 DEF Registers
<1> HIDE DEF dropped, pc
<1>10. /\ d.r = frame.r /\ d.mem = c.mem
       /\ d.f = [b \in DOMAIN BitOf |-> IF b \in {"UNUSED", "B"} THEN c.f[b]
                                        ELSE (v \div BitOf[b]) % 2]
  BY <1>8, <1>9, RestoredFlagsAre
<1>11. d.f = frame.f
  <2> DEFINE g == [frame.f EXCEPT !.B = 0, !.UNUSED = 1]
  <2>1. frame.f \in [DOMAIN BitOf -> Carry]
    BY FrameIs
  <2>2. /\ g \in [DOMAIN BitOf -> Carry]
        /\ \A b \in DOMAIN BitOf : b \notin {"UNUSED", "B"} => g[b] = frame.f[b]
    BY <2>1 DEF Carry, BitOf
  <2>3. v = flags_as_byte(g)
    BY <1>6 DEF Pushes
  <2> HIDE DEF g
  <2>4. \A b \in DOMAIN BitOf : (v \div BitOf[b]) % 2 = g[b]
    BY <2>2, <2>3, FlagsSurvive
  <2>5. \A b \in DOMAIN BitOf : d.f[b] = frame.f[b]
    BY <1>10, <2>2, <2>4
  <2>6. QED
    BY <1>10, <2>1, <2>5
<1>12. Top(c, 1) \in Byte
  BY DropKeeps
<1>13. IsCpu(d)
  BY <1>8, <1>12, RestoredFlagsKeep
<1>14. ReturnFromInterrupt(c) = [d EXCEPT !.pc = pc]
  BY DEF ReturnFromInterrupt, dropped, pc
<1> HIDE DEF d
<1>15. QED
  BY <1>7, <1>10, <1>11, <1>13, <1>14 DEF IsCpu

-----------------------------------------------------------------------------
(* The inductive invariant.  Each interrupted frame is still on the stack, *)
(* below the one it interrupted; only NMIs interrupt handlers, which run   *)
(* with IRQs masked; and the uninterrupted CPU stands where the program    *)
(* does, with memory that differs only where a handler may write.          *)

Sheltered(c, frame) ==
  /\ frame.r.SP >= 3 /\ Holds(c, frame)
  /\ frame.f.B = c.f.B /\ frame.f.UNUSED = c.f.UNUSED

SamePlace(m, at) == m.pc = at.pc /\ m.r = at.r /\ m.f = at.f

Nested(c, m, s) ==
  /\ \A k \in 1 .. Len(s) : Sheltered(c, s[k])
  /\ \A k \in 2 .. Len(s) : s[k].event = "nmi" /\ s[k].f.I = 1
  /\ \A j, k \in 1 .. Len(s) : j < k => s[k].r.SP <= s[j].r.SP - 3
  /\ s # <<>> => c.f.I = 1
  /\ IF s = <<>> THEN SamePlace(m, c) ELSE SamePlace(m, s[1])
  /\ SameBut(c, m, HandlerMemory \cup Dead(m))

(* What shelters a frame: its three cells, B and the unused bit.           *)
LEMMA StaysSheltered ==
  ASSUME NEW c, NEW d, NEW W, SameBut(c, d, W), d.f.B = c.f.B, d.f.UNUSED = c.f.UNUSED,
         NEW frame \in Frame, Sheltered(c, frame),
         \A i \in frame.r.SP - 2 .. 255 : STACK_TOP + i \notin W
  PROVE  Sheltered(d, frame)
<1> DEFINE sp == frame.r.SP
<1>1. sp \in Nat /\ sp < 256 /\ sp >= 3
  BY FrameIs DEF Sheltered
<1> HIDE DEF sp
<1>2. /\ sp \in sp - 2 .. 255 /\ sp - 1 \in sp - 2 .. 255 /\ sp - 2 \in sp - 2 .. 255
      /\ STACK_TOP + (sp - 1) = STACK_TOP + sp - 1
      /\ STACK_TOP + (sp - 2) = STACK_TOP + sp - 2
  BY <1>1 DEF STACK_TOP
<1>3. STACK_TOP + sp \notin W /\ STACK_TOP + sp - 1 \notin W /\ STACK_TOP + sp - 2 \notin W
  <2>1. \A i \in sp - 2 .. 255 : STACK_TOP + i \notin W
    BY DEF sp
  <2>2. STACK_TOP + sp \notin W /\ STACK_TOP + (sp - 1) \notin W /\ STACK_TOP + (sp - 2) \notin W
    BY <1>2, <2>1
  <2>3. QED
    BY <1>2, <2>2
<1>4. /\ read8(d, STACK_TOP + sp) = read8(c, STACK_TOP + sp)
      /\ read8(d, STACK_TOP + sp - 1) = read8(c, STACK_TOP + sp - 1)
      /\ read8(d, STACK_TOP + sp - 2) = read8(c, STACK_TOP + sp - 2)
  BY <1>3 DEF SameBut, SameCell
<1>5. QED
  BY <1>4 DEF Sheltered, Holds, sp

LEMMA LastIs ==
  ASSUME NEW s \in Seq(Frame), s # <<>>
  PROVE  Len(s) \in Nat /\ Len(s) >= 1 /\ Last(s) = s[Len(s)] /\ Last(s) \in Frame
BY DEF Last

(* The last frame is the lowest on the stack.                              *)
LEMMA Lowest ==
  ASSUME NEW c, NEW m, NEW s \in Seq(Frame), s # <<>>, Nested(c, m, s)
  PROVE  \A k \in 1 .. Len(s) : s[k] \in Frame /\ Last(s).r.SP <= s[k].r.SP
<1> SUFFICES ASSUME NEW k \in 1 .. Len(s)
             PROVE  s[k] \in Frame /\ Last(s).r.SP <= s[k].r.SP
  OBVIOUS
<1>1. Len(s) \in Nat /\ Len(s) >= 1 /\ Last(s) = s[Len(s)] /\ Last(s) \in Frame
  BY LastIs
<1>2. s[k] \in Frame
  OBVIOUS
<1>3. s[k].r.SP \in Nat /\ Last(s).r.SP \in Nat
  BY <1>1, <1>2, FrameIs
<1>4. CASE k = Len(s)
  BY <1>1, <1>2, <1>3, <1>4
<1>5. CASE k < Len(s)
  <2>1. Len(s) \in 1 .. Len(s)
    BY <1>1
  <2>2. s[Len(s)].r.SP <= s[k].r.SP - 3
    BY <1>5, <2>1 DEF Nested
  <2>3. QED
    BY <1>1, <1>2, <1>3, <2>2
<1>6. QED
  BY <1>1, <1>4, <1>5

(* The program's instruction, with no handler running: it reads no cell in *)
(* which the two differ and raises the stack over none.                    *)
LEMMA ProgramKeepsNested ==
  ASSUME NEW c, IsCpu(c), NEW m, IsCpu(m), Nested(c, m, <<>>), Executable(c),
         NEW H, SameBut(c, m, H), H \subseteq HandlerMemory \cup Dead(m),
         LET inst == fetch_next_instruction(c)
         IN H \cap (Reads(c, inst)
                     \cup (Dead(c) \ (Dead(execute(c, inst)) \cup Writes(c, inst)))) = {}
  PROVE  /\ Executable(m)
         /\ Nested(execute(c, fetch_next_instruction(c)),
                   execute(m, fetch_next_instruction(m)), <<>>)
<1> DEFINE inst == fetch_next_instruction(c)
           d == execute(c, inst)
           n == execute(m, inst)
           W == Writes(c, inst)
<1>1. m.pc = c.pc /\ m.r = c.r /\ m.f = c.f
  BY DEF Nested, SamePlace
<1>2. Alike(c, m, H)
  BY <1>1 DEF Alike
<1>3. H \cap Reads(c, inst) = {}
  OBVIOUS
<1>4. Executable(m) /\ fetch_next_instruction(m) = inst /\ Alike(d, n, H \ W)
  BY <1>2, <1>3, ExecuteAlike
<1>5. H \cap (Dead(c) \ (Dead(d) \cup W)) = {}
  OBVIOUS
<1> HIDE DEF d, n, inst, W
<1>6. Dead(d) = Dead(n) /\ Dead(c) = Dead(m)
  BY <1>1, <1>4 DEF Alike, Dead
<1>7. H \ W \subseteq HandlerMemory \cup Dead(n)
  BY <1>5, <1>6
<1>8. SameBut(d, n, HandlerMemory \cup Dead(n)) /\ SamePlace(n, d)
  BY <1>4, <1>7 DEF Alike, SameBut, SamePlace
<1>9. Len(<<>>) = 0
  OBVIOUS
<1>10. Nested(d, n, <<>>)
  BY <1>8, <1>9 DEF Nested
<1>11. QED
  BY <1>4, <1>10 DEF d, n, inst

(* A handler's instruction, but for RTI.                                   *)
LEMMA HandlerKeepsNested ==
  ASSUME NEW c, NEW d, NEW m, IsCpu(m), NEW s \in Seq(Frame), s # <<>>, Nested(c, m, s),
         NEW W, Kept(c, d, W),
         W \subseteq HandlerMemory \cup {STACK_TOP + i : i \in 0 .. Last(s).r.SP - 3}
  PROVE  Nested(d, m, s)
<1> DEFINE low == Last(s).r.SP
<1>1. Len(s) \in Nat /\ Len(s) >= 1 /\ Last(s) \in Frame
  BY LastIs
<1>2. low \in Nat /\ low < 256
  BY <1>1, FrameIs
<1>3. \A k \in 1 .. Len(s) : s[k] \in Frame /\ low <= s[k].r.SP
  BY Lowest
<1>4. SameBut(c, d, W) /\ d.f.B = c.f.B /\ d.f.UNUSED = c.f.UNUSED /\ d.f.I = 1
  BY DEF Kept, Nested
<1>5. \A i \in low - 2 .. 255 : STACK_TOP + i \notin W
  <2> SUFFICES ASSUME NEW i \in low - 2 .. 255, STACK_TOP + i \in W PROVE FALSE
    OBVIOUS
  <2>1. \A j \in 0 .. low - 3 : STACK_TOP + i # STACK_TOP + j
    BY <1>2 DEF STACK_TOP
  <2>2. STACK_TOP + i \in HandlerMemory
    BY <2>1
  <2>3. s[Len(s)].r.SP >= 3 /\ Last(s) = s[Len(s)]
    BY <1>1, LastIs DEF Nested, Sheltered
  <2>4. i \in Byte
    BY <1>2, <2>3, SignIsBit7 DEF Byte
  <2>5. QED
    BY <2>2, <2>4, HandlerMemoryAssumption
<1>6. ASSUME NEW k \in 1 .. Len(s) PROVE Sheltered(d, s[k])
  <2>1. s[k] \in Frame /\ low <= s[k].r.SP /\ s[k].r.SP \in Nat /\ Sheltered(c, s[k])
    BY <1>3, FrameIs DEF Nested
  <2>2. \A i \in s[k].r.SP - 2 .. 255 : STACK_TOP + i \notin W
    BY <1>2, <1>5, <2>1
  <2>3. QED
    BY <1>4, <2>1, <2>2, StaysSheltered
<1>7. W \subseteq HandlerMemory \cup Dead(m)
  <2>1. m.r = s[1].r /\ 1 \in 1 .. Len(s)
    BY <1>1 DEF Nested, SamePlace
  <2>2. low <= m.r.SP /\ m.r.SP \in Nat
    BY <1>3, <2>1, FrameIs
  <2> HIDE DEF low
  <2>3. 0 .. low - 3 \subseteq 0 .. m.r.SP
    BY <1>2, <2>2
  <2>4. {STACK_TOP + i : i \in 0 .. low - 3} \subseteq Dead(m)
    BY <2>3 DEF Dead
  <2>5. QED
    BY <2>4 DEF low
<1>8. SameBut(d, m, HandlerMemory \cup Dead(m))
  <2>1. SameBut(c, m, HandlerMemory \cup Dead(m))
    BY DEF Nested
  <2>2. QED
    BY <1>4, <1>7, <2>1 DEF SameBut, SameCell
<1>9. QED
  BY <1>4, <1>6, <1>8 DEF Nested

(* RTI, with the registers that the handler found.                         *)
LEMMA ReturnKeepsNested ==
  ASSUME NEW c, NEW d, NEW m, NEW s \in Seq(Frame), s # <<>>, Nested(c, m, s),
         SamePlace(d, Last(s)), d.mem = c.mem
  PROVE  Nested(d, m, Front(s))
<1> DEFINE t == Front(s)
           frame == Last(s)
<1>1. Len(s) \in Nat /\ Len(s) >= 1 /\ frame = s[Len(s)] /\ frame \in Frame
  BY LastIs
<1>2. t \in Seq(Frame) /\ Len(t) = Len(s) - 1 /\ \A k \in 1 .. Len(t) : t[k] = s[k]
  BY FrontIs
<1> HIDE DEF t, frame
<1>3. Len(s) \in 1 .. Len(s) /\ 1 .. Len(t) \subseteq 1 .. Len(s)
      /\ 2 .. Len(t) \subseteq 2 .. Len(s) /\ 2 .. Len(t) \subseteq 1 .. Len(t)
  BY <1>1, <1>2
<1>4. d.pc = frame.pc /\ d.r = frame.r /\ d.f = frame.f
  BY DEF SamePlace, frame
<1>5. d.f.B = c.f.B /\ d.f.UNUSED = c.f.UNUSED
  BY <1>1, <1>3, <1>4 DEF Nested, Sheltered
<1>6. SameBut(c, d, {})
  BY SameMemory DEF SameBut
<1>7. ASSUME NEW k \in 1 .. Len(t) PROVE Sheltered(d, t[k])
  <2>1. t[k] = s[k] /\ s[k] \in Frame /\ Sheltered(c, s[k])
    BY <1>2, <1>3 DEF Nested
  <2>2. QED
    BY <1>5, <1>6, <2>1, StaysSheltered
<1>8. \A k \in 2 .. Len(t) : t[k].event = "nmi" /\ t[k].f.I = 1
  BY <1>2, <1>3 DEF Nested
<1>9. \A j, k \in 1 .. Len(t) : j < k => t[k].r.SP <= t[j].r.SP - 3
  BY <1>2, <1>3 DEF Nested
<1>10. t = <<>> => Len(s) = 1
  BY <1>1, <1>2
<1>11. t # <<>> => Len(s) \in 2 .. Len(s) /\ 1 \in 1 .. Len(t)
  <2>1. t # <<>> => Len(t) # 0
    BY <1>2
  <2>2. QED
    BY <1>1, <1>2, <2>1
<1>12. t # <<>> => d.f.I = 1
  BY <1>1, <1>4, <1>11 DEF Nested
<1>13. SamePlace(m, s[1])
  BY DEF Nested
<1>14. t = <<>> => SamePlace(m, d)
  BY <1>1, <1>4, <1>10, <1>13 DEF SamePlace
<1>15. t # <<>> => SamePlace(m, t[1])
  BY <1>2, <1>11, <1>13
<1>16. SameBut(d, m, HandlerMemory \cup Dead(m))
  BY DEF Nested, SameBut, SameCell, read8
<1>17. Nested(d, m, t)
  BY <1>7, <1>8, <1>9, <1>12, <1>14, <1>15, <1>16 DEF Nested
<1>18. QED
  BY <1>17 DEF t

(* An NMI or an IRQ: there is room on the stack, and a nested interrupt    *)
(* finds the stack below what the last one pushed.                         *)
LEMMA InterruptKeepsNested ==
  ASSUME NEW c, IsCpu(c), NEW m, IsCpu(m), NEW s \in Seq(Frame), Nested(c, m, s),
         c.r.SP >= 3, s # <<>> => c.r.SP <= Last(s).r.SP - 3,
         NEW frame \in Frame, SamePlace(frame, c),
         s # <<>> => frame.event = "nmi", NEW vector
  PROVE  Nested(interrupt(c, vector), m, Append(s, frame))
<1> DEFINE d == interrupt(c, vector)
           t == Append(s, frame)
           sp == c.r.SP
           W == {STACK_TOP + sp, STACK_TOP + sp - 1, STACK_TOP + sp - 2}
<1>1. /\ d.f = [c.f EXCEPT !.I = 1]
      /\ read8(d, STACK_TOP + sp) = c.pc \div 256
      /\ read8(d, STACK_TOP + sp - 1) = c.pc % 256
      /\ read8(d, STACK_TOP + sp - 2) = Pushes(c, 0)
      /\ SameBut(c, d, W)
  <2>1. HasEntered(c, d)
    BY InterruptIs
  <2> HIDE DEF d
  <2>2. QED
    BY <2>1 DEF HasEntered
<1>2. sp \in Nat /\ sp < 256 /\ sp >= 3
  BY BelowIs, ByteIsNat
<1>3. /\ t \in Seq(Frame) /\ Len(t) = Len(s) + 1 /\ Len(s) \in Nat
      /\ \A k \in 1 .. Len(s) : t[k] = s[k]
      /\ t[Len(s) + 1] = frame
  BY AppendProperties
<1> HIDE DEF d, t
<1>4. t # <<>> /\ 1 .. Len(t) = 1 .. Len(s) \union {Len(s) + 1}
  BY <1>3
<1>5. frame.pc = c.pc /\ frame.r = c.r /\ frame.f = c.f
  BY DEF SamePlace
<1>6. d.f.B = c.f.B /\ d.f.UNUSED = c.f.UNUSED /\ d.f.I = 1
  BY <1>1 DEF IsCpu, BitOf
<1>7. Sheltered(d, frame)
  BY <1>1, <1>2, <1>5, <1>6 DEF Sheltered, Holds, Pushes
<1>8. ASSUME NEW k \in 1 .. Len(s)
      PROVE  Sheltered(d, s[k]) /\ sp <= s[k].r.SP - 3
  <2>1. s # <<>>
    BY <1>3
  <2>2. s[k] \in Frame /\ Last(s).r.SP <= s[k].r.SP /\ Sheltered(c, s[k])
    BY <2>1, Lowest DEF Nested
  <2> DEFINE top == s[k].r.SP
             low == Last(s).r.SP
  <2>3. top \in Nat /\ low \in Nat /\ sp <= low - 3 /\ low <= top
    BY <2>1, <2>2, LastIs, FrameIs
  <2> HIDE DEF top, low, sp
  <2>4. sp <= top - 3
    BY <1>2, <2>3
  <2>5. ASSUME NEW i \in top - 2 .. 255 PROVE STACK_TOP + i \notin W
    <3>1. i \in Int /\ i > sp
      BY <1>2, <2>3, <2>4
    <3>2. /\ STACK_TOP + i # STACK_TOP + sp /\ STACK_TOP + i # STACK_TOP + sp - 1
          /\ STACK_TOP + i # STACK_TOP + sp - 2
      BY <1>2, <3>1 DEF STACK_TOP
    <3>3. QED
      BY <3>2
  <2> HIDE DEF W
  <2>6. Sheltered(d, s[k])
    BY <1>1, <1>6, <2>2, <2>5, StaysSheltered DEF top
  <2>7. QED
    BY <2>4, <2>6 DEF top
<1>9. \A k \in 1 .. Len(t) : Sheltered(d, t[k])
  BY <1>3, <1>4, <1>7, <1>8
<1>10. \A k \in 2 .. Len(t) : t[k].event = "nmi" /\ t[k].f.I = 1
  <2> SUFFICES ASSUME NEW k \in 2 .. Len(t) PROVE t[k].event = "nmi" /\ t[k].f.I = 1
    OBVIOUS
  <2>1. CASE k = Len(s) + 1
    <3>1. s # <<>>
      BY <1>3, <2>1
    <3>2. QED
      BY <1>3, <1>5, <2>1, <3>1 DEF Nested
  <2>2. CASE k # Len(s) + 1
    <3>1. k \in 2 .. Len(s) /\ k \in 1 .. Len(s)
      BY <1>3, <2>2
    <3>2. QED
      BY <1>3, <3>1 DEF Nested
  <2>3. QED
    BY <2>1, <2>2
<1>11. \A j, k \in 1 .. Len(t) : j < k => t[k].r.SP <= t[j].r.SP - 3
  <2> SUFFICES ASSUME NEW j \in 1 .. Len(t), NEW k \in 1 .. Len(t), j < k
               PROVE  t[k].r.SP <= t[j].r.SP - 3
    OBVIOUS
  <2>1. j \in 1 .. Len(s)
    BY <1>3
  <2>2. CASE k = Len(s) + 1
    BY <1>3, <1>5, <1>8, <2>1, <2>2
  <2>3. CASE k # Len(s) + 1
    <3>1. k \in 1 .. Len(s)
      BY <1>3, <2>3
    <3>2. QED
      BY <1>3, <2>1, <3>1 DEF Nested
  <2>4. QED
    BY <2>2, <2>3
<1>12. SamePlace(m, t[1]) /\ sp <= m.r.SP /\ m.r.SP \in Nat
  <2>1. CASE s = <<>>
    <3>1. t[1] = frame /\ SamePlace(m, c)
      BY <1>3, <2>1 DEF Nested
    <3>2. QED
      BY <1>2, <1>5, <3>1 DEF SamePlace
  <2>2. CASE s # <<>>
    <3>1. 1 \in 1 .. Len(s) /\ SamePlace(m, s[1])
      BY <1>3, <2>2 DEF Nested
    <3>2. t[1] = s[1] /\ s[1] \in Frame /\ m.r = s[1].r /\ sp <= s[1].r.SP - 3
      BY <1>3, <1>8, <3>1 DEF SamePlace
    <3>3. s[1].r.SP \in Nat
      BY <3>2, FrameIs
    <3>4. QED
      BY <1>2, <3>1, <3>2, <3>3
  <2>3. QED
    BY <2>1, <2>2
<1>13. W \subseteq Dead(m)
  <2> DEFINE top == m.r.SP
  <2> HIDE DEF sp
  <2>1. sp \in 0 .. top /\ sp - 1 \in 0 .. top /\ sp - 2 \in 0 .. top
    <3>1. sp <= top /\ top \in Nat
      BY <1>12
    <3> HIDE DEF top
    <3>2. QED
      BY <1>2, <3>1
  <2>2. STACK_TOP + (sp - 1) = STACK_TOP + sp - 1 /\ STACK_TOP + (sp - 2) = STACK_TOP + sp - 2
    BY <1>2 DEF STACK_TOP
  <2>3. QED
    BY <2>1, <2>2 DEF Dead
<1>14. SameBut(d, m, HandlerMemory \cup Dead(m))
  <2>1. SameBut(c, m, HandlerMemory \cup Dead(m))
    BY DEF Nested
  <2> HIDE DEF W
  <2>2. QED
    BY <1>1, <1>13, <2>1 DEF SameBut, SameCell
<1>15. Nested(d, m, t)
  BY <1>4, <1>6, <1>9, <1>10, <1>11, <1>12, <1>14 DEF Nested
<1>16. QED
  BY <1>15 DEF d, t

LEMMA ResetIs ==
  ASSUME NEW c, IsCpu(c)
  PROVE  /\ AtReset(c).pc = read16(c, RESET_VECTOR) /\ AtReset(c).mem = c.mem
         /\ AtReset(c).r = [A |-> 0, X |-> 0, Y |-> 0, SP |-> \hfd]
         /\ AtReset(c).f = [b \in DOMAIN BitOf |-> Flag(b \in {"UNUSED", "I"})]
BY DEF AtReset, IsCpu

(* Reset, which finds its vector and the stack it comes to use undisturbed. *)
LEMMA ResetKeepsNested ==
  ASSUME NEW c, IsCpu(c), NEW m, IsCpu(m), NEW H, SameBut(c, m, H),
         H \subseteq HandlerMemory \cup Dead(m),
         H \cap ({RESET_VECTOR, Word(RESET_VECTOR + 1)}
                  \cup (Dead(m) \ Dead(AtReset(m)))) = {}
  PROVE  Nested(AtReset(c), AtReset(m), <<>>)
<1> DEFINE d == AtReset(c)
           n == AtReset(m)
<1>1. read16(m, RESET_VECTOR) = read16(c, RESET_VECTOR)
  <2>1. /\ read8(m, RESET_VECTOR) = read8(c, RESET_VECTOR)
        /\ read8(m, Word(RESET_VECTOR + 1)) = read8(c, Word(RESET_VECTOR + 1))
    BY DEF SameBut, SameCell
  <2>2. QED
    BY <2>1, Zenon DEF read16
<1>2. SamePlace(n, d)
  <2>1. n.pc = d.pc
    <3>1. n.pc = read16(m, RESET_VECTOR)
      BY ResetIs, Zenon
    <3>2. d.pc = read16(c, RESET_VECTOR)
      BY ResetIs, Zenon
    <3>3. QED
      BY <1>1, <3>1, <3>2
  <2>2. n.r = d.r
    BY ResetIs, Zenon
  <2>3. n.f = d.f
    BY ResetIs, Zenon
  <2> HIDE DEF n, d
  <2>4. QED
    BY <2>1, <2>2, <2>3 DEF SamePlace
<1>3. d.mem = c.mem /\ n.mem = m.mem
  BY ResetIs
<1>4. H \cap (Dead(m) \ Dead(n)) = {}
  OBVIOUS
<1> HIDE DEF d, n
<1>5. H \subseteq HandlerMemory \cup Dead(n)
  BY <1>4
<1>6. SameBut(d, n, HandlerMemory \cup Dead(n))
  BY <1>3, <1>5 DEF SameBut, SameCell, read8
<1>7. Len(<<>>) = 0
  OBVIOUS
<1>8. Nested(d, n, <<>>)
  BY <1>2, <1>6, <1>7 DEF Nested
<1>9. QED
  BY <1>8 DEF d, n

-----------------------------------------------------------------------------
(* The machine.                                                            *)

LEMMA DisturbedIs ==
  ASSUME IsCpu(cpu), IsCpu(main)
  PROVE  \A a : a \in Disturbed <=> ~SameCell(cpu, main, a)
<1> SUFFICES ASSUME NEW a PROVE a \in Disturbed <=> ~SameCell(cpu, main, a)
  OBVIOUS
<1>1. CASE a \in DOMAIN cpu.mem \cap DOMAIN main.mem
  BY <1>1 DEF Disturbed, SameCell, read8
<1>2. CASE a \notin DOMAIN cpu.mem \cup DOMAIN main.mem
  BY <1>2 DEF Disturbed, SameCell, read8
<1>3. CASE /\ a \in DOMAIN cpu.mem \cup DOMAIN main.mem
           /\ a \notin DOMAIN cpu.mem \cap DOMAIN main.mem
  BY <1>3 DEF Disturbed, SameCell
<1>4. QED
  BY <1>1, <1>2, <1>3

TransparentInv == Nested(cpu, main, frames)

LEMMA DisturbedWhere ==
  ASSUME IsCpu(cpu), IsCpu(main), TransparentInv
  PROVE  /\ SameBut(cpu, main, Disturbed)
         /\ Disturbed \subseteq HandlerMemory \cup Dead(main)
<1>1. SameBut(cpu, main, HandlerMemory \cup Dead(main))
  BY DEF TransparentInv, Nested
<1>2. QED
  BY <1>1, DisturbedIs DEF SameBut

LEMMA TickIsTransparent ==
  ASSUME TypeOK, TransparentInv, tick, StepInOrder
  PROVE  TransparentInv'
<1> DEFINE inst == fetch_next_instruction(cpu)
           frame == Last(frames)
<1>1. /\ IsCpu(cpu) /\ IsCpu(main) /\ Executable(cpu) /\ frames \in Seq(Frame)
      /\ Nested(cpu, main, frames)
  BY DEF TypeOK, tick, TransparentInv
<1>2. cpu' = execute(cpu, inst) /\ frames' = FramesAfter(inst)
  BY DEF tick
<1>3. CASE frames = <<>>
  <2>1. ProgramInOrder(inst)
    BY <1>3 DEF StepInOrder
  <2>2. frames' = <<>>
    BY <1>2, <1>3 DEF FramesAfter
  <2>3. Disturbed \cap (Reads(cpu, inst)
                         \cup (Dead(cpu) \ (Dead(execute(cpu, inst)) \cup Writes(cpu, inst)))) = {}
    <3>1. Dead(cpu') = Dead(execute(cpu, inst))
      BY <1>2 DEF Dead
    <3>2. QED
      BY <2>1, <3>1 DEF ProgramInOrder
  <2>4. /\ SameBut(cpu, main, Disturbed)
        /\ Disturbed \subseteq HandlerMemory \cup Dead(main)
    BY <1>1, DisturbedWhere
  <2>5. /\ Executable(main)
        /\ Nested(execute(cpu, inst), execute(main, fetch_next_instruction(main)), <<>>)
    <3>1. Nested(cpu, main, <<>>)
      BY <1>1, <1>3
    <3>2. QED
      BY <1>1, <2>3, <2>4, <3>1, ProgramKeepsNested
  <2>6. main' = execute(main, fetch_next_instruction(main))
    BY <1>3, <2>5 DEF tick
  <2>7. QED
    BY <1>2, <2>2, <2>5, <2>6 DEF TransparentInv
<1>4. CASE frames # <<>> /\ inst.op # "RTI"
  <2>1. /\ Writes(cpu, inst)
             \subseteq HandlerMemory \cup {STACK_TOP + s : s \in 0 .. frame.r.SP - 3}
        /\ inst.op # "CLI"
        /\ inst.op = "PLP" => 4 \in Bits(Top(cpu, 1))
    <3>1. HandlerInOrder(inst, frame)
      BY <1>4 DEF StepInOrder
    <3>2. QED
      BY <1>4, <3>1 DEF HandlerInOrder
  <2>2. Kept(cpu, execute(cpu, inst), Writes(cpu, inst))
    BY <1>1, <1>4, <2>1, ExecuteKept
  <2>3. frames' = frames /\ main' = main
    BY <1>2, <1>4 DEF FramesAfter, tick
  <2>4. Nested(execute(cpu, inst), main, frames)
    BY <1>1, <1>4, <2>1, <2>2, HandlerKeepsNested
  <2>5. QED
    BY <1>2, <2>3, <2>4 DEF TransparentInv
<1>5. CASE frames # <<>> /\ inst.op = "RTI"
  <2>1. cpu.r = [frame.r EXCEPT !.SP = @ - 3] /\ cpu.pc # frame.pc
    <3>1. HandlerInOrder(inst, frame)
      BY <1>5 DEF StepInOrder
    <3>2. QED
      BY <1>5, <3>1 DEF HandlerInOrder
  <2>2. frame \in Frame /\ Sheltered(cpu, frame)
    <3>1. /\ Len(frames) \in 1 .. Len(frames)
          /\ frame = frames[Len(frames)] /\ frame \in Frame
      BY <1>1, <1>5, LastIs
    <3>2. QED
      BY <1>1, <3>1 DEF Nested
  <2>3. /\ ReturnFromInterrupt(cpu).pc = frame.pc
        /\ ReturnFromInterrupt(cpu).r = frame.r
        /\ ReturnFromInterrupt(cpu).f = frame.f
        /\ ReturnFromInterrupt(cpu).mem = cpu.mem
    BY <1>1, <2>1, <2>2, ReturnIs DEF Sheltered
  <2>4. Effect(cpu, inst) = ReturnFromInterrupt(cpu)
    BY <1>5, Zenon DEF Effect, CountedBy, FlagOps, LoadedBy, Moves, BranchesOn, Combination
  <2> DEFINE d == execute(cpu, inst)
  <2>5. /\ d.r = Effect(cpu, inst).r /\ d.f = Effect(cpu, inst).f
        /\ d.mem = Effect(cpu, inst).mem
        /\ d.pc = IF cpu.pc = Effect(cpu, inst).pc /\ inst.op # "JMP"
                  THEN Word(Effect(cpu, inst).pc + inst.size) ELSE Effect(cpu, inst).pc
    BY <1>1, ExecuteIs
  <2> HIDE DEF d, inst, frame
  <2>6. SamePlace(d, frame) /\ d.mem = cpu.mem
    BY <2>1, <2>3, <2>4, <2>5 DEF SamePlace
  <2>7. Nested(d, main, Front(frames))
    BY <1>1, <1>5, <2>6, ReturnKeepsNested DEF frame
  <2>8. frames' = Front(frames) /\ main' = main
    BY <1>2, <1>5 DEF FramesAfter, tick
  <2>9. QED
    BY <1>2, <2>7, <2>8 DEF TransparentInv, d
<1>6. QED
  BY <1>3, <1>4, <1>5

LEMMA InterruptIsTransparent ==
  ASSUME TypeOK, TransparentInv, StepInOrder, nmi \/ irq
  PROVE  TransparentInv'
<1>1. /\ IsCpu(cpu) /\ IsCpu(main) /\ frames \in Seq(Frame)
      /\ Nested(cpu, main, frames)
  BY DEF TypeOK, TransparentInv
<1>2. cpu.r.SP >= 3 /\ (frames # <<>> => cpu.r.SP <= Last(frames).r.SP - 3)
  BY DEF StepInOrder
<1>3. ASSUME NEW event \in {"nmi", "irq"}
      PROVE  /\ Interrupted(event) \in Frame /\ SamePlace(Interrupted(event), cpu)
             /\ Interrupted(event).event = event
  BY <1>1, InterruptedIsFrame DEF Interrupted, SamePlace
<1>4. CASE nmi
  <2>1. Nested(interrupt(cpu, NMI_VECTOR), main, Append(frames, Interrupted("nmi")))
    BY <1>1, <1>2, <1>3, InterruptKeepsNested
  <2>2. QED
    BY <1>4, <2>1 DEF nmi, TransparentInv
<1>5. CASE irq
  <2>1. frames = <<>>
    BY <1>1, <1>5 DEF irq, Nested
  <2>2. Nested(interrupt(cpu, IRQ_VECTOR), main, Append(frames, Interrupted("irq")))
    BY <1>1, <1>2, <1>3, <2>1, InterruptKeepsNested
  <2>3. QED
    BY <1>5, <2>2 DEF irq, TransparentInv
<1>6. QED
  BY <1>4, <1>5

LEMMA ResetIsTransparent ==
  ASSUME TypeOK, TransparentInv, StepInOrder, reset
  PROVE  TransparentInv'
<1>1. IsCpu(cpu) /\ IsCpu(main)
  BY DEF TypeOK
<1>2. cpu' = AtReset(cpu) /\ main' = AtReset(main) /\ frames' = <<>>
  BY DEF reset
<1>3. /\ SameBut(cpu, main, Disturbed)
      /\ Disturbed \subseteq HandlerMemory \cup Dead(main)
  BY <1>1, DisturbedWhere
<1>4. Disturbed \cap ({RESET_VECTOR, Word(RESET_VECTOR + 1)}
                       \cup (Dead(main) \ Dead(AtReset(main)))) = {}
  <2>1. Dead(main') = Dead(AtReset(main))
    BY <1>2 DEF Dead
  <2>2. QED
    BY <2>1 DEF StepInOrder
<1>5. Nested(AtReset(cpu), AtReset(main), <<>>)
  BY <1>1, <1>3, <1>4, ResetKeepsNested
<1>6. QED
  BY <1>2, <1>5 DEF TransparentInv

LEMMA TransparentInit == DebuggerInit => TransparentInv
<1> SUFFICES ASSUME DebuggerInit PROVE TransparentInv
  OBVIOUS
<1>1. main = cpu /\ frames = <<>>
  BY Zenon DEF DebuggerInit, Init
<1>2. Len(<<>>) = 0
  OBVIOUS
<1>3. QED
  BY <1>1, <1>2 DEF TransparentInv, Nested, SamePlace, SameBut, SameCell

LEMMA TransparentStep ==
  DebuggerInv /\ TransparentInv /\ [DebuggerNext]_<<vars, debuggerVars>> /\ [StepInOrder]_vars
    => TransparentInv'
<1> SUFFICES ASSUME DebuggerInv, TransparentInv, [DebuggerNext]_<<vars, debuggerVars>>,
                    [StepInOrder]_vars
             PROVE  TransparentInv'
  OBVIOUS
<1>1. TypeOK
  BY DEF DebuggerInv, DebuggerTypeOK
<1>2. CASE UNCHANGED vars
  BY <1>2 DEF vars, TransparentInv
<1>3. CASE Next /\ StepInOrder
  <2>1. CASE tick
    BY <1>1, <1>3, <2>1, TickIsTransparent
  <2>2. CASE Jam
    BY <2>2 DEF Jam, TransparentInv
  <2>3. CASE nmi \/ irq
    BY <1>1, <1>3, <2>3, InterruptIsTransparent
  <2>4. CASE reset
    BY <1>1, <1>3, <2>4, ResetIsTransparent
  <2>5. QED
    BY <1>3, <2>1, <2>2, <2>3, <2>4 DEF Next
<1>4. Next \/ UNCHANGED vars
  BY DEF DebuggerNext, DebuggerTick, WithoutDebugger, Next
<1>5. QED
  BY <1>2, <1>3, <1>4

(* With no handler running, the program sees what it would have seen.      *)
LEMMA NestedIsTransparent ==
  ASSUME IsCpu(cpu), IsCpu(main), TransparentInv
  PROVE  InterruptsAreTransparent
<1> SUFFICES ASSUME frames = <<>> PROVE Visible(cpu) = Visible(main)
  BY DEF InterruptsAreTransparent
<1>1. cpu.pc = main.pc /\ cpu.r = main.r /\ cpu.f = main.f
  BY DEF TransparentInv, Nested, SamePlace
<1>2. SameBut(cpu, main, HandlerMemory \cup Dead(main)) /\ Dead(cpu) = Dead(main)
  BY <1>1 DEF TransparentInv, Nested, Dead
<1> DEFINE own(c) == {a \in DOMAIN c.mem : a \notin Dead(c) \cup HandlerMemory}
           seen(c) == [a \in own(c) |-> c.mem[a]]
<1>3. own(cpu) = own(main)
  BY <1>2 DEF SameBut, SameCell
<1>4. \A a \in own(cpu) : cpu.mem[a] = main.mem[a]
  BY <1>2 DEF SameBut, SameCell, read8
<1>5. seen(cpu) = seen(main)
  BY <1>3, <1>4
<1> HIDE DEF seen
<1>6. \A c : Visible(c) = [pc |-> c.pc, r |-> c.r, f |-> c.f, mem |-> seen(c)]
  BY DEF Visible, seen
<1>7. QED
  BY <1>1, <1>5, <1>6

LEMMA StaysTransparent == DebuggerSpec /\ InOrder => [](DebuggerInv /\ TransparentInv)
<1>1. DebuggerInit => DebuggerInv /\ TransparentInv
  BY TypeOKInit, TransparentInit
<1>2. /\ DebuggerInv /\ TransparentInv
      /\ [DebuggerNext]_<<vars, debuggerVars>> /\ [StepInOrder]_vars
      => DebuggerInv' /\ TransparentInv'
  BY TypeOKStep, TransparentStep
<1>3. QED
  BY <1>1, <1>2, PTL DEF DebuggerSpec, InOrder

(* Interrupts are transparent to every program: if the program and the     *)
(* handlers keep to what InOrder asks of them, then whenever no handler    *)
(* runs the program has the registers, flags, stack and memory that it     *)
(* would have had on a CPU that was never interrupted, whatever program it *)
(* is, wherever the NMIs and IRQs fall and however deep they nest.         *)
THEOREM TransparentIfInOrder == DebuggerSpec /\ InOrder => []InterruptsAreTransparent
<1>1. DebuggerInv /\ TransparentInv => InterruptsAreTransparent
  BY NestedIsTransparent DEF DebuggerInv, DebuggerTypeOK, TypeOK
<1>2. QED
  BY <1>1, StaysTransparent, PTL

(* Whatever the program and however deep the NMIs nest, an IRQ is never    *)
(* taken while a handler runs, if the handlers keep to what InOrder asks   *)
(* of them: entering one masks IRQs, and only the last RTI unmasks them.   *)
THEOREM MaskedIfInOrder == DebuggerSpec /\ InOrder => []HandlersAreNotInterruptedByIrq
<1>1. TransparentInv => HandlersAreNotInterruptedByIrq
  BY DEF TransparentInv, Nested, HandlersAreNotInterruptedByIrq
<1>2. QED
  BY <1>1, StaysTransparent, PTL
=============================================================================
