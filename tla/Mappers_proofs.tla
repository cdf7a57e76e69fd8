---------------------------- MODULE Mappers_proofs ----------------------------
(***************************************************************************)
(* The boards of a cartridge: the shift register of the MMC1, the scanline *)
(* counter and the bank registers of the MMC3, for every set of bytes that *)
(* a game writes and every size of its ROM; and the bus that leads to the  *)
(* simple boards, for every game.                                          *)
(***************************************************************************)
EXTENDS Mappers, Words_proofs, TLAPS

-----------------------------------------------------------------------------
(* The MMC1.                                                               *)

(* What the shift register is worth after each number of writes.           *)
ShiftInv ==
  /\ serialWrites \in 0..4
  /\ serialBits \in Seq({0, 1}) /\ Len(serialBits) = serialWrites
  /\ serialWrites = 0 => serialShift = 0
  /\ serialWrites = 1 => serialShift = 16 * serialBits[1]
  /\ serialWrites = 2 => serialShift = 8 * serialBits[1] + 16 * serialBits[2]
  /\ serialWrites = 3 => serialShift = 4 * serialBits[1] + 8 * serialBits[2] + 16 * serialBits[3]
  /\ serialWrites = 4 => serialShift = 2 * serialBits[1] + 4 * serialBits[2]
                                         + 8 * serialBits[3] + 16 * serialBits[4]

LEMMA ShiftInit == Serial!Init => ShiftInv
BY DEF Serial!Init, ShiftInv

(* A bit comes in at the top and moves those before it one place down.     *)
LEMMA BitShiftedIn ==
  ASSUME ShiftInv, NEW bit \in {0, 1}, serialWrites < 4,
         serialShift' = Serial!Shifted(bit), serialWrites' = serialWrites + 1,
         serialBits' = Append(serialBits, bit)
  PROVE  ShiftInv'
<1> USE DEF ShiftInv
<1>1. /\ serialWrites' \in 0..4
      /\ serialBits' \in Seq({0, 1}) /\ Len(serialBits') = serialWrites'
  OBVIOUS
<1>2. /\ \A i \in 1..serialWrites : serialBits'[i] = serialBits[i] /\ serialBits[i] \in {0, 1}
      /\ serialBits'[serialWrites + 1] = bit
  OBVIOUS
<1>3. CASE serialWrites = 0
  BY <1>1, <1>2, <1>3 DEF Serial!Shifted
<1>4. CASE serialWrites = 1
  BY <1>1, <1>2, <1>4 DEF Serial!Shifted
<1>5. CASE serialWrites = 2
  BY <1>1, <1>2, <1>5 DEF Serial!Shifted
<1>6. CASE serialWrites = 3
  BY <1>1, <1>2, <1>6 DEF Serial!Shifted
<1>7. QED
  BY <1>3, <1>4, <1>5, <1>6

LEMMA ShiftStep == ShiftInv /\ [Serial!Next]_(Serial!vars) => ShiftInv'
<1> SUFFICES ASSUME ShiftInv, [Serial!Next]_(Serial!vars) PROVE ShiftInv'
  OBVIOUS
<1>1. ASSUME Serial!ResetShiftRegister PROVE ShiftInv'
  BY <1>1 DEF Serial!ResetShiftRegister, ShiftInv
<1>2. CASE Serial!WriteReset
  BY <1>1, <1>2 DEF Serial!WriteReset
<1>3. ASSUME NEW register \in Serial!Registers, NEW bit \in {0, 1},
             Serial!WriteBit(register, bit)
      PROVE  ShiftInv'
  BY <1>1, <1>3, BitShiftedIn DEF Serial!WriteBit
<1>4. CASE UNCHANGED Serial!vars
  BY <1>4 DEF Serial!vars, ShiftInv
<1>5. QED
  BY <1>2, <1>3, <1>4 DEF Serial!Next

LEMMA ShiftInvariant == Serial!Spec => []ShiftInv
<1>1. QED
  BY ShiftInit, ShiftStep, PTL DEF Serial!Spec

(* The weights of the bits in the shift register, read back bit by bit.    *)
LEMMA BitsReadBack == ShiftInv => Serial!ShiftHoldsBits
<1> SUFFICES ASSUME ShiftInv PROVE Serial!ShiftHoldsBits
  OBVIOUS
<1> USE DEF ShiftInv, Serial!ShiftHoldsBits
<1>1. 2^0 = 1 /\ 2^1 = 2 /\ 2^2 = 4 /\ 2^3 = 8 /\ 2^4 = 16 /\ 2^5 = 32
  OBVIOUS
<1>2. \A i \in 1..serialWrites : serialBits[i] \in {0, 1}
  OBVIOUS
<1>3. CASE serialWrites = 0
  BY <1>1, <1>2, <1>3
<1>4. CASE serialWrites = 1
  BY <1>1, <1>2, <1>4
<1>5. CASE serialWrites = 2
  BY <1>1, <1>2, <1>5
<1>6. CASE serialWrites = 3
  BY <1>1, <1>2, <1>6
<1>7. CASE serialWrites = 4
  BY <1>1, <1>2, <1>7
<1>8. QED
  BY <1>3, <1>4, <1>5, <1>6, <1>7

(* The shift register is the written bits, lowest first, at every moment:  *)
(* however resets, registers and bits are mixed (write_to_shift_register). *)
THEOREM ShiftIsExact == Serial!Spec => []Serial!ShiftHoldsBits
<1>1. QED
  BY ShiftInvariant, BitsReadBack, PTL

(* A board that is watched with the others at rest runs as it does alone.  *)
LEMMA BoardsRun == BoardSpec => Spec /\ Serial!Spec
<1>1. for_cart => Init /\ Serial!Init
  BY DEF for_cart
<1>2. [Game]_boardVars => [Next]_vars /\ [Serial!Next]_(Serial!vars)
  <2>1. UNCHANGED boardVars => UNCHANGED vars /\ UNCHANGED mmc1Vars
    BY Zenon DEF boardVars
  <2>2. UNCHANGED mmc1Vars => UNCHANGED Serial!vars
    BY DEF mmc1Vars, Serial!vars, Serial!regs
  <2> QED BY <2>1, <2>2 DEF Game
<1> QED BY <1>1, <1>2, PTL DEF BoardSpec, Spec, Serial!Spec

(* A fifth bit makes the shift register the value of all five, of which    *)
(* the control and the PRG register use the lower four only.               *)
LEMMA FifthBit ==
  ASSUME ShiftInv, serialWrites = 4, NEW bit \in {0, 1}
  PROVE  /\ Serial!Shifted(bit) = Serial!Value(bit)
         /\ Serial!Value(bit) % 16 = Serial!Value(0)
         /\ Serial!PrgModeOf(Serial!Value(bit)) = Serial!PrgModeOf(Serial!Value(0))
         /\ Serial!MirroringOf(Serial!Value(bit)) = Serial!MirroringOf(Serial!Value(0))
<1>1. /\ serialBits[1] \in {0, 1} /\ serialBits[2] \in {0, 1}
      /\ serialBits[3] \in {0, 1} /\ serialBits[4] \in {0, 1}
  <2>1. serialBits \in Seq({0, 1}) /\ Len(serialBits) = 4
    BY DEF ShiftInv
  <2>2. \A i \in 1..Len(serialBits) : serialBits[i] \in {0, 1}
    BY <2>1, SMTT(60)
  <2>3. QED
    BY <2>1, <2>2
<1>2. Serial!Shifted(bit) = Serial!Value(bit)
  <2>1. serialShift = 2 * Serial!Value(0) /\ Serial!Value(0) \in 0..15
    BY <1>1 DEF ShiftInv, Serial!Value
  <2>2. \A n \in 0..15 : (2 * n) \div 2 = n
    OBVIOUS
  <2>3. Serial!Value(bit) = Serial!Value(0) + 16 * bit
    BY <1>1 DEF Serial!Value
  <2>4. QED
    BY <2>1, <2>2, <2>3 DEF Serial!Shifted
<1>3. /\ Serial!Value(0) \in 0..15
      /\ Serial!Value(bit) = Serial!Value(0) \/ Serial!Value(bit) = Serial!Value(0) + 16
  BY <1>1 DEF Serial!Value
<1>4. \A n \in 0..15 : /\ n % 16 = n /\ (n + 16) % 16 = n
                       /\ ((n + 16) \div 4) % 4 = (n \div 4) % 4
                       /\ (n + 16) % 4 = n % 4
  OBVIOUS
<1>5. /\ Serial!Value(bit) % 16 = Serial!Value(0)
      /\ (Serial!Value(bit) \div 4) % 4 = (Serial!Value(0) \div 4) % 4
      /\ Serial!Value(bit) % 4 = Serial!Value(0) % 4
  BY <1>3, <1>4
<1>6. QED
  BY <1>2, <1>5 DEF Serial!PrgModeOf, Serial!MirroringOf

(* Each register that changes gets the five bits written since the last    *)
(* reset, and nothing else.                                                *)
THEOREM WritesAreWhole == BoardSpec => SerialWritesWhole
<1> DEFINE Whole ==
      /\ Serial!regs' # Serial!regs => Len(serialBits) = 4
      /\ serialPrg' # serialPrg => serialPrg' = Serial!Value(0)
      /\ serialMirroring' # serialMirroring => serialMirroring' = Serial!MirroringOf(Serial!Value(0))
      /\ serialPrgMode' # serialPrgMode => serialPrgMode' = Serial!PrgModeOf(Serial!Value(0))
      /\ serialChr0' # serialChr0 =>
           \E bit \in {0, 1} :
             serialChr0' = IF serialChrMode = "Switch8Kb" THEN Serial!Value(bit) \div 2
                             ELSE Serial!Value(bit)
      /\ serialChr1' # serialChr1 =>
           /\ serialChrMode # "Switch8Kb"
           /\ \E bit \in {0, 1} : serialChr1' = Serial!Value(bit)
<1>1. ShiftInv /\ [Serial!Next]_(Serial!vars) => [Whole]_(Serial!vars)
  <2> SUFFICES ASSUME ShiftInv, Serial!Next PROVE Whole
    OBVIOUS
  <2>1. CASE UNCHANGED Serial!regs
    BY <2>1 DEF Serial!regs
  <2>2. ASSUME NEW register \in Serial!Registers, NEW bit \in {0, 1},
               serialWrites = 4, Serial!Load(register, Serial!Shifted(bit))
        PROVE  Whole
    <3>1. Len(serialBits) = 4
      BY <2>2 DEF ShiftInv
    <3>2. CASE Serial!UpdateControlRegister(Serial!Shifted(bit))
      BY <2>2, <3>1, <3>2, FifthBit DEF Serial!UpdateControlRegister
    <3>3. CASE Serial!SwitchPrgBank(Serial!Shifted(bit))
      BY <2>2, <3>1, <3>3, FifthBit DEF Serial!SwitchPrgBank
    <3>4. CASE \/ Serial!SwitchLowerChrBank(Serial!Shifted(bit))
               \/ Serial!SwitchUpperChrBank(Serial!Shifted(bit))
      BY <2>2, <3>1, <3>4, FifthBit
         DEF Serial!SwitchLowerChrBank, Serial!SwitchUpperChrBank
    <3>5. QED
      BY <2>2, <3>2, <3>3, <3>4 DEF Serial!Load
  <2>3. QED
    BY <2>1, <2>2 DEF Serial!Next, Serial!WriteReset, Serial!WriteBit
<1>2. QED
  BY <1>1, ShiftInvariant, BoardsRun, PTL
     DEF Serial!Spec, SerialWritesWhole, Serial!RegistersGetWholeValues

-----------------------------------------------------------------------------
(* The MMC3.                                                               *)

(* What the counting needs: the latch and the counter are naturals, and    *)
(* the counter and the lines counted add up to what was loaded.            *)
CounterInv ==
  /\ latch \in 0..255 /\ counter \in 0..255
  /\ loaded \in 0..255 /\ since \in Nat
  /\ CounterCountsLines

(* At power up nothing is loaded and nothing is counted.                   *)
LEMMA CounterInit == Init => CounterInv
BY DEF Init, CounterInv, CounterCountsLines

(* Each action keeps the sum: only a line of the PPU moves the counter.    *)
LEMMA CounterStep == CounterInv /\ [Next]_vars => CounterInv'
<1> SUFFICES ASSUME CounterInv, [Next]_vars PROVE CounterInv'
  OBVIOUS
<1> USE DEF CounterInv, CounterCountsLines
<1>1. ASSUME NEW val \in Values, BankSelect(val) \/ BankData(val)
      PROVE  CounterInv'
  BY <1>1 DEF BankSelect, BankData, irqRegs, history
<1>2. ASSUME NEW new \in Mirrorings, SetMirroring(new)
      PROVE  CounterInv'
  BY <1>2 DEF SetMirroring, irqRegs, history
<1>3. ASSUME NEW val \in Latches, SetLatch(val)
      PROVE  CounterInv'
  BY <1>3, CartridgeAssumption DEF SetLatch, history
<1>4. CASE SetReload \/ Acknowledge \/ Enable
  BY <1>4 DEF SetReload, Acknowledge, Enable, history
<1>5. CASE CountLine
  <2>1. CASE reload \/ counter = 0
    BY <1>5, <2>1 DEF CountLine, Load
  <2>2. CASE ~(reload \/ counter = 0)
    BY <1>5, <2>2 DEF CountLine
  <2>3. QED
    BY <2>1, <2>2
<1>6. CASE UNCHANGED vars
  BY <1>6 DEF vars, irqRegs, history
<1>7. QED
  BY <1>1, <1>2, <1>3, <1>4, <1>5, <1>6 DEF Next

LEMMA CounterInvariant == Spec => []CounterInv
<1>1. QED
  BY CounterInit, CounterStep, PTL DEF Spec

(* However the game writes to the latch, the reload and the enable, the    *)
(* counter is what it was loaded with less the lines since (irq()).        *)
THEOREM CounterIsExact == Spec => []CounterCountsLines
<1>1. CounterInv => CounterCountsLines
  BY DEF CounterInv
<1>2. QED
  BY <1>1, CounterInvariant, PTL

(* An IRQ comes after exactly the lines that the counter was loaded with:  *)
(* the write of a new latch never moves an IRQ that is being counted to.   *)
THEOREM IrqsAreExact == Spec => IrqAfterWholeCount
<1>1. CounterInv /\ [Next]_vars
        => [pending' /\ ~pending => since = loaded]_vars
  <2> SUFFICES ASSUME CounterInv, Next, pending', ~pending
               PROVE  since = loaded
    OBVIOUS
  <2>1. CountLine
    BY DEF Next, BankSelect, BankData, SetMirroring, SetLatch, SetReload,
           Acknowledge, Enable, history
  <2>2. counter = 0
    BY <2>1 DEF CountLine, Raises
  <2>3. QED
    BY <2>2 DEF CounterInv, CounterCountsLines
<1>2. QED
  BY <1>1, CounterInvariant, PTL DEF Spec, IrqAfterWholeCount

-----------------------------------------------------------------------------
(* The bank registers.  The pairs rest on R0 and R1 being even, which the  *)
(* masking keeps only while `selected` is the register's number.           *)
BankInv ==
  /\ prgMode \in {0, 1} /\ chrMode \in {0, 1}
  /\ selected \in 0..7 /\ registers \in [0..7 -> Nat]
  /\ registers[0] % 2 = 0 /\ registers[1] % 2 = 0

LEMMA BankInit == Init => BankInv
BY DEF Init, BankInv

LEMMA ByteIsNat == ASSUME NEW val \in Values PROVE val \in Nat /\ val < 256
BY CartridgeAssumption

(* What BankData stores is a bank number, and even for R0 and R1.          *)
LEMMA MaskedIsEven ==
  ASSUME NEW val \in Nat, NEW r \in 0..7
  PROVE  /\ Masked(r, val) \in Nat
         /\ r \in {0, 1} => Masked(r, val) % 2 = 0
<1>1. val - (val % 2) \in Nat /\ (val - (val % 2)) % 2 = 0 /\ val % 64 \in Nat
  OBVIOUS
<1>2. Masked(r, val) \in {val - (val % 2), val % 64, val}
  BY Zenon DEF Masked
<1>3. r \in {0, 1} => Masked(r, val) = val - (val % 2)
  <2>1. r \in {0, 1} => r \notin {6, 7}
    OBVIOUS
  <2>2. QED
    BY <2>1, Zenon DEF Masked
<1>4. QED
  BY <1>1, <1>2, <1>3

LEMMA BankStep == BankInv /\ [Next]_vars => BankInv'
<1> SUFFICES ASSUME BankInv, [Next]_vars PROVE BankInv'
  OBVIOUS
<1>1. ASSUME NEW val \in Values, BankSelect(val) PROVE BankInv'
  <2>1. (val \div 64) % 2 \in {0, 1} /\ val \div 128 \in {0, 1} /\ val % 8 \in 0..7
    BY ByteIsNat
  <2>2. QED
    BY <1>1, <2>1 DEF BankSelect, BankInv
<1>2. ASSUME NEW val \in Values, BankData(val) PROVE BankInv'
  <2>1. /\ Masked(selected, val) \in Nat
        /\ selected \in {0, 1} => Masked(selected, val) % 2 = 0
    BY ByteIsNat, MaskedIsEven DEF BankInv
  <2>2. /\ registers' = [registers EXCEPT ![selected] = Masked(selected, val)]
        /\ prgMode' = prgMode /\ chrMode' = chrMode /\ selected' = selected
    BY <1>2 DEF BankData
  <2>3. registers' \in [0..7 -> Nat]
    BY <2>1, <2>2 DEF BankInv
  <2>4. registers'[0] % 2 = 0 /\ registers'[1] % 2 = 0
    BY <2>1, <2>2 DEF BankInv
  <2>5. QED
    BY <2>2, <2>3, <2>4 DEF BankInv
<1>3. CASE UNCHANGED banks
  BY <1>3 DEF BankInv, banks
<1>4. QED
  BY <1>1, <1>2, <1>3 DEF Next, SetMirroring, SetLatch, SetReload, Acknowledge,
     Enable, CountLine, vars

(* Wherever the mode puts a pair of banks, it is two whole kilobytes: an   *)
(* even bank and the one after it, whatever a game wrote to the bank       *)
(* registers, in which order and in which mode.                            *)
THEOREM PairsAreWhole == Spec => []PairsAreTwoKb
<1>1. BankInv => PairsAreTwoKb
  <2> SUFFICES ASSUME BankInv PROVE PairsAreTwoKb
    OBVIOUS
  <2>1. ASSUME NEW number \in Nat, number % 2 = 0 PROVE OrOne(number) = number + 1
    BY <2>1 DEF OrOne
  <2>2. /\ registers[0] \in Nat /\ registers[1] \in Nat
        /\ registers[0] % 2 = 0 /\ registers[1] % 2 = 0
    BY DEF BankInv
  <2>3. OrOne(registers[0]) = registers[0] + 1 /\ OrOne(registers[1]) = registers[1] + 1
    BY <2>1, <2>2
  <2>4. CASE chrMode = 0
    <3>1. /\ ChrBank[1] = registers[0] /\ ChrBank[2] = OrOne(registers[0])
          /\ ChrBank[3] = registers[1] /\ ChrBank[4] = OrOne(registers[1])
      BY <2>4 DEF ChrBank, Pairs, Singles
    <3>2. QED
      BY <2>2, <2>3, <2>4, <3>1 DEF PairsAreTwoKb
  <2>5. CASE chrMode # 0
    <3>1. /\ ChrBank[5] = registers[0] /\ ChrBank[6] = OrOne(registers[0])
          /\ ChrBank[7] = registers[1] /\ ChrBank[8] = OrOne(registers[1])
      BY <2>5 DEF ChrBank, Pairs, Singles
    <3>2. QED
      BY <2>2, <2>3, <2>5, <3>1 DEF PairsAreTwoKb
  <2>6. QED
    BY <2>4, <2>5
<1>2. QED
  BY BankInit, BankStep, <1>1, PTL DEF Spec

-----------------------------------------------------------------------------
(* The types of the two boards with registers of their own.                *)
LEMMA CounterTypes == Init => TypeOK
<1> SUFFICES ASSUME Init PROVE TypeOK
  OBVIOUS
<1>1. irqEnabled \in BOOLEAN /\ reload \in BOOLEAN /\ crashed \in BOOLEAN /\ pending \in BOOLEAN
  BY Zenon DEF Init
<1>2. mirrorMap \in Mirrorings /\ asked \in Mirrorings
  BY CartridgeAssumption DEF Init
<1> QED BY <1>1, <1>2 DEF Init, TypeOK

LEMMA CounterTypesKept == TypeOK /\ CounterInv /\ [Next]_vars => TypeOK'
<1> SUFFICES ASSUME TypeOK, CounterInv', [Next]_vars PROVE TypeOK'
  BY CounterStep
<1>0. /\ prgMode \in {0, 1} /\ chrMode \in {0, 1}
      /\ registers \in [0..7 -> 0..255] /\ selected \in 0..7
      /\ irqEnabled \in BOOLEAN /\ reload \in BOOLEAN
      /\ mirrorMap \in Mirrorings /\ asked \in Mirrorings
      /\ crashed \in BOOLEAN /\ pending \in BOOLEAN
  BY DEF TypeOK
<1>1. /\ prgMode' \in {0, 1} /\ chrMode' \in {0, 1} /\ selected' \in 0..7
      /\ registers' \in [0..7 -> 0..255]
  <2>1. ASSUME NEW val \in Values, BankSelect(val)
        PROVE  /\ prgMode' \in {0, 1} /\ chrMode' \in {0, 1} /\ selected' \in 0..7
               /\ registers' \in [0..7 -> 0..255]
    <3>1. (val \div 64) % 2 \in {0, 1} /\ val \div 128 \in {0, 1} /\ val % 8 \in 0..7
      BY ByteIsNat
    <3> QED BY <1>0, <2>1, <3>1 DEF BankSelect
  <2>2. ASSUME NEW val \in Values, BankData(val)
        PROVE  /\ prgMode' \in {0, 1} /\ chrMode' \in {0, 1} /\ selected' \in 0..7
               /\ registers' \in [0..7 -> 0..255]
    <3>1. Masked(selected, val) \in {val - (val % 2), val % 64, val}
      BY Zenon DEF Masked
    <3>2. Masked(selected, val) \in 0..255
      BY <3>1, ByteIsNat
    <3> QED BY <1>0, <2>2, <3>2 DEF BankData
  <2>3. CASE UNCHANGED banks
    BY <1>0, <2>3 DEF banks
  <2> QED BY <2>1, <2>2, <2>3 DEF Next, SetMirroring, SetLatch, SetReload, Acknowledge,
             Enable, CountLine, vars
<1>2. mirrorMap' \in Mirrorings /\ asked' \in Mirrorings
  BY <1>0 DEF Next, BankSelect, BankData, SetMirroring, SetLatch, SetReload, Acknowledge,
              Enable, CountLine, vars, vram
<1>3. irqEnabled' \in BOOLEAN /\ reload' \in BOOLEAN
  <2>1. CASE UNCHANGED irqRegs
    BY <1>0, <2>1 DEF irqRegs
  <2>2. ASSUME NEW val \in Latches, SetLatch(val) PROVE irqEnabled' \in BOOLEAN /\ reload' \in BOOLEAN
    BY <1>0, <2>2 DEF SetLatch
  <2>3. CASE SetReload \/ Acknowledge \/ Enable \/ CountLine
    BY <1>0, <2>3, Zenon DEF SetReload, Acknowledge, Enable, CountLine
  <2> QED BY <2>1, <2>2, <2>3 DEF Next, BankSelect, BankData, SetMirroring, vars
<1>4. crashed' \in BOOLEAN /\ pending' \in BOOLEAN
  <2>1. CASE UNCHANGED <<crashed, pending>>
    BY <1>0, <2>1
  <2>2. CASE Acknowledge \/ CountLine
    BY <1>0, <2>2, Zenon DEF Acknowledge, CountLine
  <2> QED BY <2>1, <2>2 DEF Next, BankSelect, BankData, SetMirroring, SetLatch, SetReload,
             Enable, vars, history
<1> QED BY <1>1, <1>2, <1>3, <1>4 DEF TypeOK, CounterInv

LEMMA SerialTypes == Serial!Init => Serial!TypeOK
BY DEF Serial!Init, Serial!TypeOK, Serial!PrgModes, Serial!ChrModes, Serial!Mirrorings

(* Five bits make a number below 32.                                       *)
LEMMA ShiftIsSmall == ASSUME ShiftInv PROVE serialShift \in 0..30 
<1>1. \A i \in 1..serialWrites : serialBits[i] \in {0, 1}
  BY DEF ShiftInv
<1> DEFINE a == serialBits[1]  b == serialBits[2]  c == serialBits[3]  d == serialBits[4]
<1>2. /\ serialWrites >= 1 => a \in {0, 1}
      /\ serialWrites >= 2 => b \in {0, 1}
      /\ serialWrites >= 3 => c \in {0, 1}
      /\ serialWrites >= 4 => d \in {0, 1}
  BY <1>1 DEF ShiftInv
<1>3. /\ serialWrites \in 0..4
      /\ serialWrites = 0 => serialShift = 0
      /\ serialWrites = 1 => serialShift = 16 * a
      /\ serialWrites = 2 => serialShift = 8 * a + 16 * b
      /\ serialWrites = 3 => serialShift = 4 * a + 8 * b + 16 * c
      /\ serialWrites = 4 => serialShift = 2 * a + 4 * b + 8 * c + 16 * d
  BY DEF ShiftInv
<1> HIDE DEF a, b, c, d
<1> QED BY <1>2, <1>3

LEMMA SerialTypesKept == Serial!TypeOK /\ ShiftInv /\ [Serial!Next]_(Serial!vars) => Serial!TypeOK'
<1> SUFFICES ASSUME Serial!TypeOK, ShiftInv, ShiftInv', [Serial!Next]_(Serial!vars)
             PROVE  Serial!TypeOK'
  BY ShiftStep
<1>1. serialShift' \in 0..31 /\ serialWrites' \in 0..4 /\ serialBits' \in Seq({0, 1})
  <2>1. \A bit \in {0, 1} : Serial!Shifted(bit) \in 0..31
    BY ShiftIsSmall DEF Serial!Shifted
  <2>2. \/ serialShift' = 0 \/ serialShift' = serialShift
        \/ \E bit \in {0, 1} : serialShift' = Serial!Shifted(bit)
    BY DEF Serial!Next, Serial!WriteReset, Serial!WriteBit,
       Serial!ResetShiftRegister, Serial!vars
  <2>3. serialShift' \in 0..31
    BY <2>1, <2>2, ShiftIsSmall
  <2> QED BY <2>3 DEF ShiftInv
<1>2. /\ serialPrgMode' \in Serial!PrgModes /\ serialChrMode' \in Serial!ChrModes
      /\ serialPrg' \in 0..15 /\ serialChr0' \in 0..31 /\ serialChr1' \in 0..31
      /\ serialMirroring' \in Serial!Mirrorings
  <2>1. CASE UNCHANGED Serial!regs
    BY <2>1 DEF Serial!regs, Serial!TypeOK
  <2>2. ASSUME NEW register \in Serial!Registers, NEW bit \in {0, 1},
               Serial!Load(register, Serial!Shifted(bit))
        PROVE  /\ serialPrgMode' \in Serial!PrgModes /\ serialChrMode' \in Serial!ChrModes
               /\ serialPrg' \in 0..15 /\ serialChr0' \in 0..31 /\ serialChr1' \in 0..31
               /\ serialMirroring' \in Serial!Mirrorings
    <3> DEFINE val == Serial!Shifted(bit)
    <3>1. val \in 0..31
      BY ShiftIsSmall DEF Serial!Shifted
    <3> HIDE DEF val
    <3>2. /\ val \div 2 \in 0..31 /\ val % 16 \in 0..15
          /\ (val \div 4) % 4 \in {0, 1, 2, 3} /\ val % 4 \in {0, 1, 2, 3}
      BY <3>1
    <3>3. Serial!PrgModeOf(val) \in Serial!PrgModes
      BY <3>2 DEF Serial!PrgModeOf, Serial!PrgModes
    <3>4. Serial!MirroringOf(val) \in Serial!Mirrorings
      BY <3>2 DEF Serial!MirroringOf, Serial!Mirrorings
    <3>5. /\ serialPrgMode \in Serial!PrgModes /\ serialChrMode \in Serial!ChrModes
          /\ serialPrg \in 0..15 /\ serialChr0 \in 0..31 /\ serialChr1 \in 0..31
          /\ serialMirroring \in Serial!Mirrorings
      BY DEF Serial!TypeOK
    <3>6. CASE Serial!UpdateControlRegister(val)
      BY <3>3, <3>4, <3>5, <3>6 DEF Serial!UpdateControlRegister, Serial!ChrModes
    <3>7. CASE Serial!SwitchPrgBank(val)
      BY <3>2, <3>5, <3>7 DEF Serial!SwitchPrgBank
    <3>8. CASE Serial!SwitchLowerChrBank(val) \/ Serial!SwitchUpperChrBank(val)
      BY <3>1, <3>2, <3>5, <3>8 DEF Serial!SwitchLowerChrBank, Serial!SwitchUpperChrBank
    <3> QED BY <2>2, <3>6, <3>7, <3>8 DEF Serial!Load, val
  <2> QED BY <2>1, <2>2 DEF Serial!Next, Serial!WriteReset, Serial!WriteBit, Serial!vars
<1> QED BY <1>1, <1>2 DEF Serial!TypeOK

-----------------------------------------------------------------------------
(* Bytes and addresses of a game.                                          *)
Byte == {n \in Nat : n < 256}

LEMMA Bytes8 == \A n : n \in Byte <=> n \in 0..255
BY DEF Byte

LEMMA GameBytes ==
  ASSUME NEW some \in Games
  PROVE  /\ \A address \in some.reads : address \in Word
         /\ \A write \in some.writes : write[1] \in Word /\ write[2] \in Byte
         /\ some.file.length \in Nat
         /\ some.file.prgBlocks \in Byte /\ some.file.chrBlocks \in Byte
         /\ some.file.flags6 \in Byte /\ some.file.flags7 \in Byte
<1>1. /\ some.file \in [length : Nat, magic : BOOLEAN, prgBlocks : 0..255,
                        chrBlocks : 0..255, flags6 : 0..255, flags7 : 0..255]
      /\ some.reads \subseteq 0 .. (2^16 - 1)
      /\ \A write \in some.writes : write[1] \in 0 .. (2^16 - 1) /\ write[2] \in 0..255
  BY GamesAssumption
<1>2. \A n \in 0 .. (2^16 - 1) : n \in Word
  BY SMTT(60) DEF Word
<1>3. /\ some.file.length \in Nat
      /\ some.file.prgBlocks \in 0..255 /\ some.file.chrBlocks \in 0..255
      /\ some.file.flags6 \in 0..255 /\ some.file.flags7 \in 0..255
  BY <1>1
<1>4. \A address \in some.reads : address \in Word
  BY <1>1, <1>2, Zenon
<1>5. \A write \in some.writes : write[1] \in Word /\ write[2] \in Byte
  BY <1>1, <1>2, Bytes8, Zenon
<1>6. /\ some.file.prgBlocks \in Byte /\ some.file.chrBlocks \in Byte
      /\ some.file.flags6 \in Byte /\ some.file.flags7 \in Byte
  BY <1>3, Bytes8, Zenon
<1> QED BY <1>3, <1>4, <1>5, <1>6, Zenon

LEMMA BusOperators ==
  ASSUME NEW m, NEW n
  PROVE  /\ Bus!Registers!And(m, n) = And(m, n)
         /\ Bus!Registers!Or(m, n) = Or(m, n)
<1>1. \A k, place : Bus!Registers!Digit(k, place) = Digit(k, place)
  BY DEF Bus!Registers!Digit, Digit
<1>2. \A a, b : /\ Bus!Registers!AndDigit(a, b) = AndDigit(a, b)
                /\ Bus!Registers!OrDigit(a, b) = OrDigit(a, b)
  BY DEF Bus!Registers!AndDigit, AndDigit, Bus!Registers!OrDigit, OrDigit,
         Bus!Registers!Bits, Bits, Bus!Registers!DigitOf, DigitOf
<1> QED BY <1>1, <1>2 DEF Bus!Registers!And, And, Bus!Registers!Or, Or

RegistersInv ==
  /\ v \in Word /\ t \in Word /\ t < 32768
  /\ fineX \in 0..7 /\ wLatch \in BOOLEAN
  /\ addrInc \in {0, 1, 32} /\ rendering \in BOOLEAN
  /\ walk \in 0..MaxWalk

LEMMA RegistersAreTyped == RegistersInv <=> Bus!Registers!TypeOK
BY DEF RegistersInv, Bus!Registers!TypeOK, Word

LEMMA RegistersStep ==
  ASSUME RegistersInv
  PROVE  /\ UNCHANGED Bus!scroll => RegistersInv'
         /\ Bus!Registers!Data2007 => RegistersInv'
         /\ Bus!Registers!Status2002 => RegistersInv'
         /\ \A val \in Byte : Bus!Registers!Addr2006(val) => RegistersInv'
         /\ \A val \in Byte : Bus!Registers!Ctrl2000(val) => RegistersInv'
<1>0. /\ v \in Word /\ t \in Word /\ t < 32768
      /\ fineX \in 0..7 /\ wLatch \in BOOLEAN
      /\ addrInc \in {0, 1, 32} /\ rendering \in BOOLEAN
      /\ walk \in 0..MaxWalk /\ MaxWalk \in Nat
  <2>1. MaxWalk \in Nat
    BY GamesAssumption, Zenon
  <2> QED BY <2>1 DEF RegistersInv
<1>1. UNCHANGED Bus!scroll => RegistersInv'
  BY DEF Bus!scroll, RegistersInv
<1>2. ASSUME Bus!Registers!Data2007 PROVE RegistersInv'
  <2>1. /\ v' = (v + addrInc) % 65536 /\ walk' = walk + 1 /\ walk < MaxWalk
        /\ UNCHANGED <<t, fineX, wLatch, addrInc, rendering>>
    BY <1>2 DEF Bus!Registers!Data2007
  <2>2. v' \in Word
    BY <1>0, <2>1 DEF Word
  <2> QED BY <1>0, <2>1, <2>2 DEF RegistersInv
<1>3. ASSUME Bus!Registers!Status2002 PROVE RegistersInv'
  BY <1>0, <1>3 DEF Bus!Registers!Status2002, RegistersInv
<1>4. ASSUME NEW val \in Byte, Bus!Registers!Addr2006(val) PROVE RegistersInv'
  <2>0. val \in Nat /\ val < 256
    BY DEF Byte
  <2>4. wLatch' = ~wLatch /\ UNCHANGED <<fineX, addrInc, rendering>>
    BY <1>4 DEF Bus!Registers!Addr2006
  <2>1. wLatch' \in BOOLEAN /\ UNCHANGED <<fineX, addrInc, rendering>>
    BY <2>4, Zenon
  <2>2. CASE wLatch
    <3>1. t' = (256 * (val % 64)) + (t % 256) /\ UNCHANGED <<v, walk>>
      BY <1>0, <1>4, <2>0, <2>2, BusOperators, AddressSetsBytes DEF Bus!Registers!Addr2006
    <3>2. t' \in Word /\ t' < 32768
      BY <1>0, <2>0, <3>1 DEF Word
    <3> QED BY <1>0, <2>1, <3>1, <3>2 DEF RegistersInv
  <2>3. CASE ~wLatch
    <3>1. t' = (256 * (t \div 256)) + val /\ v' = t' /\ walk' = 0
      BY <1>0, <1>4, <2>0, <2>3, BusOperators, AddressSetsBytes DEF Bus!Registers!Addr2006
    <3>2. t' \in Word /\ t' < 32768
      BY <1>0, <2>0, <3>1 DEF Word
    <3> QED BY <1>0, <2>1, <3>1, <3>2 DEF RegistersInv
  <2> QED BY <1>0, <2>2, <2>3
<1>5. ASSUME NEW val \in Byte, Bus!Registers!Ctrl2000(val) PROVE RegistersInv'
  <2>0. val \in Nat /\ val < 256
    BY DEF Byte
  <2>1. t' = Or(And(t, \hf3ff), And(val, 3) * 1024)
    BY <1>5, BusOperators DEF Bus!Registers!Ctrl2000
  <2>2. t' \in Word /\ t' < 32768 /\ Fields(t') = [Fields(t) EXCEPT !.nametable = val % 4]
    BY <1>0, <2>0, <2>1, ControlSetsNametable
  <2>3. addrInc' \in {1, 32} /\ UNCHANGED <<v, fineX, wLatch, rendering, walk>>
    BY <1>5 DEF Bus!Registers!Ctrl2000
  <2> QED BY <1>0, <2>2, <2>3 DEF RegistersInv
<1> QED BY <1>1, <1>2, <1>3, <1>4, <1>5

-----------------------------------------------------------------------------
(* What load makes of the header, for the boards of the bus.               *)
LoadedWell ==
  /\ \/ cart.mapper = "Nrom" /\ Bus!MapperId(game.file) = 0
     \/ cart.mapper = "Uxrom" /\ Bus!MapperId(game.file) = 2
     \/ cart.mapper = "Cnrom" /\ Bus!MapperId(game.file) = 3
  /\ cart.mirroring \in {"Vertical", "Horizontal"}
  /\ cart.prg = game.file.prgBlocks * 16384
  /\ cart.chrRam <=> game.file.chrBlocks = 0
  /\ cart.chr = IF game.file.chrBlocks = 0 THEN 8192 ELSE game.file.chrBlocks * 8192
  /\ cart.rom = game.file.length - 16
  /\ cart.prg <= cart.rom
  /\ cart.mapper # "Uxrom" => cart.prg \in {16384, 32768}

LEMMA Loaded ==
  ASSUME NEW some \in Games, ~Bus!Rejected(some.file),
         Bus!load(some.file).mapper \in {"Nrom", "Uxrom", "Cnrom"}
  PROVE  LET new == Bus!load(some.file)
         IN /\ \/ new.mapper = "Nrom" /\ Bus!MapperId(some.file) = 0
               \/ new.mapper = "Uxrom" /\ Bus!MapperId(some.file) = 2
               \/ new.mapper = "Cnrom" /\ Bus!MapperId(some.file) = 3
            /\ new.mirroring \in {"Vertical", "Horizontal"}
            /\ new.prg = some.file.prgBlocks * 16384
            /\ new.chrRam <=> some.file.chrBlocks = 0
            /\ new.chr = IF some.file.chrBlocks = 0 THEN 8192 ELSE some.file.chrBlocks * 8192
            /\ new.rom = some.file.length - 16
            /\ new # Bus!NoCart
<1> DEFINE new == Bus!load(some.file)  id == Bus!MapperId(some.file)
<1>1. id \in 0..4
  <2>1. ~(id > 4)
    BY DEF Bus!Rejected
  <2>2. id \in Nat
    <3>1. \A n \in Nat : n \div 16 \in Nat
      OBVIOUS
    <3>2. some.file.flags6 \div 16 \in Nat /\ some.file.flags7 \div 16 \in Nat
      BY <3>1, GameBytes DEF Byte
    <3> QED BY <3>2 DEF Bus!MapperId
  <2> QED BY <2>1, <2>2
<1>2. new.mapper = CASE id = 0 -> "Nrom" [] id = 1 -> "Mmc1" [] id = 2 -> "Uxrom"
                     [] id = 3 -> "Cnrom" [] id = 4 -> "Mmc3"
  BY DEF Bus!load
<1>3. /\ new.mirroring \in {"Vertical", "Horizontal"}
      /\ new.prg = some.file.prgBlocks * 16384
      /\ new.chrRam = (some.file.chrBlocks = 0)
      /\ new.chr = IF some.file.chrBlocks = 0 THEN 8192 ELSE some.file.chrBlocks * 8192
      /\ new.rom = some.file.length - 16
  BY DEF Bus!load, Bus!KB16, Bus!KB8, Bus!HeaderSize
<1>4. new.mapper # "none" /\ Bus!NoCart.mapper = "none"
  BY DEF Bus!NoCart
<1>5. \/ new.mapper = "Nrom" /\ id = 0
      \/ new.mapper = "Uxrom" /\ id = 2
      \/ new.mapper = "Cnrom" /\ id = 3
  <2> HIDE DEF id, new
  <2>1. new.mapper \in {"Nrom", "Uxrom", "Cnrom"}
    BY DEF new
  <2> QED BY <1>1, <1>2, <2>1
<1>6. new # Bus!NoCart
  BY <1>4, Zenon
<1>7. new.chrRam <=> some.file.chrBlocks = 0
  <2>1. new.chrRam = (some.file.chrBlocks = 0)
    BY <1>3
  <2> QED BY <2>1, Zenon
<1> HIDE DEF new, id
<1>8. /\ \/ new.mapper = "Nrom" /\ id = 0
         \/ new.mapper = "Uxrom" /\ id = 2
         \/ new.mapper = "Cnrom" /\ id = 3
      /\ new.mirroring \in {"Vertical", "Horizontal"}
      /\ new.prg = some.file.prgBlocks * 16384
      /\ new.chrRam <=> some.file.chrBlocks = 0
      /\ new.chr = IF some.file.chrBlocks = 0 THEN 8192 ELSE some.file.chrBlocks * 8192
      /\ new.rom = some.file.length - 16
      /\ new # Bus!NoCart
  BY <1>3, <1>5, <1>6, <1>7
<1> QED BY <1>8 DEF new, id

-----------------------------------------------------------------------------
(* What each access checks.                                                *)
LEMMA Areas ==
  /\ \A c, i : Bus!InArea(c, <<"prg", i>>) <=> c.prg <= c.rom /\ i \in 0 .. c.prg - 1
  /\ \A c, i : Bus!InArea(c, <<"chr", i>>) <=> (c.chrRam \/ c.prg + c.chr <= c.rom) /\ i < c.chr
  /\ \A c, i : Bus!InArea(c, <<"prgRam", i>>) <=> i < 8192
  /\ \A c : Bus!InArea(c, Bus!Nowhere)
BY DEF Bus!InArea, Bus!Nowhere, Bus!KB8

LEMMA OthersAreWhole ==
  /\ \A c, i : Bus!InArea(c, <<"ram", i>>) /\ Bus!InArea(c, <<"palette", i>>)
  /\ \A c, i, j : Bus!InArea(c, <<"vram", j, i>>)
BY DEF Bus!InArea

(* The header, as far as it says what the board finds.                     *)
LEMMA SoundFile ==
  ASSUME game \in Games, Bus!Sound
  PROVE  /\ game.file.prgBlocks \in Nat \ {0} /\ game.file.chrBlocks \in Nat
         /\ Bus!MapperId(game.file) # 2 => game.file.prgBlocks \in {1, 2}
         /\ game.file.length \in Nat
         /\ game.file.length >= 16 + (game.file.prgBlocks * 16384) + (game.file.chrBlocks * 8192)
<1>1. /\ game.file.length \in Nat
      /\ game.file.prgBlocks \in Nat /\ game.file.chrBlocks \in Nat
  BY GameBytes DEF Byte
<1>2. game.file.length >= 16 + (game.file.prgBlocks * 16384) + (game.file.chrBlocks * 8192)
  BY DEF Bus!Sound, Bus!HeaderSize, Bus!KB16, Bus!KB8
<1>3. game.file.prgBlocks \in (IF Bus!MapperId(game.file) = 2 THEN 1 .. 255 ELSE {1, 2})
  BY DEF Bus!Sound
<1>4. game.file.prgBlocks # 0 /\ (Bus!MapperId(game.file) # 2 => game.file.prgBlocks \in {1, 2})
  BY <1>3
<1> QED BY <1>1, <1>2, <1>4

(* Where each board looks.                                                 *)
LEMMA Looks ==
  ASSUME NEW a \in Word
  PROVE  /\ cart.mapper = "Nrom" => Bus!Place(cart, bank, a) =
              IF a < 8192 THEN <<"chr", a>>
              ELSE IF a < 32768 THEN Bus!Nowhere
              ELSE IF a < 49152 THEN <<"prg", a - 32768>>
              ELSE <<"prg", a - 49152 + (IF cart.prg = 16384 THEN 0 ELSE 16384)>>
         /\ cart.mapper = "Uxrom" => Bus!Place(cart, bank, a) =
              IF a < 8192 THEN <<"chr", a>>
              ELSE IF a < 32768 THEN Bus!Nowhere
              ELSE IF a < 49152 THEN <<"prg", (bank * 16384) + a - 32768>>
              ELSE <<"prg", cart.prg - 16384 + a - 49152>>
         /\ cart.mapper = "Cnrom" => Bus!Place(cart, bank, a) =
              IF a < 8192 THEN <<"chr", (bank * 8192) + a>>
              ELSE IF a < 32768 THEN <<"prgRam", a>>
              ELSE <<"prg", a - 32768 - (IF cart.prg = 16384 THEN 16384 ELSE 0)>>
BY DEF Bus!Place, Bus!NromPlace, Bus!UxromPlace, Bus!CnromPlace, Bus!KB8, Bus!KB16

(* In a sound file the CPU finds all of ROM but a bank that is not there,  *)
(* and nothing goes wrong below ROM but on a CNROM.                        *)
LEMMA CpuFindsRom ==
  ASSUME game \in Games, bank \in Byte, LoadedWell, Bus!Sound,
         NEW a \in Word, 8192 <= a, ~Bus!InArea(cart, Bus!Place(cart, bank, a))
  PROVE  \/ Bus!MapperId(game.file) = 2 /\ bank >= game.file.prgBlocks
         \/ Bus!MapperId(game.file) = 3 /\ (game.file.prgBlocks = 1 \/ a < 32768)
<1> DEFINE id == Bus!MapperId(game.file)  p == game.file.prgBlocks  prg == cart.prg
           place == Bus!Place(cart, bank, a)
<1>1. /\ p \in Nat \ {0}
      /\ id # 2 => p \in {1, 2}
      /\ prg = p * 16384 /\ cart.prg <= cart.rom
  BY SoundFile DEF LoadedWell
<1>2. a \in Nat /\ a < 65536 /\ bank \in Nat
  BY DEF Word, Byte
<1>3. /\ cart.mapper = "Nrom" => id = 0
      /\ cart.mapper = "Uxrom" => id = 2
      /\ cart.mapper = "Cnrom" => id = 3
  BY DEF LoadedWell
<1>4. ASSUME NEW i \in Int, place = <<"prg", i>> PROVE ~(0 <= i /\ i < prg)
  <2>1. ~Bus!InArea(cart, <<"prg", i>>)
    BY <1>4
  <2>2. ~(i \in 0 .. prg - 1)
    BY <1>1, <2>1, Areas
  <2>3. prg \in Int
    BY <1>1
  <2> QED BY <2>2, <2>3
<1>5. place # Bus!Nowhere
  <2>1. Bus!InArea(cart, Bus!Nowhere)
    BY Areas
  <2> QED BY <2>1
<1>6. CASE cart.mapper = "Nrom"
  <2>1. a >= 32768
    BY <1>2, <1>5, <1>6, Looks
  <2> DEFINE base == IF prg = 16384 THEN 0 ELSE 16384
  <2>2. CASE a < 49152
    <3>1. place = <<"prg", a - 32768>>
      BY <1>2, <1>6, <2>1, <2>2, Looks
    <3>2. ~(0 <= a - 32768 /\ a - 32768 < prg)
      BY <1>2, <1>4, <3>1
    <3> HIDE DEF place, p, prg, id
    <3> QED BY <1>1, <1>2, <1>3, <1>6, <2>1, <2>2, <3>2
  <2>3. CASE a >= 49152
    <3>1. place = <<"prg", a - 49152 + base>>
      BY <1>2, <1>6, <2>1, <2>3, Looks
    <3>2. ~(0 <= a - 49152 + base /\ a - 49152 + base < prg)
      BY <1>2, <1>4, <3>1
    <3> HIDE DEF place, p, prg, id
    <3> QED BY <1>1, <1>2, <1>3, <1>6, <2>1, <2>3, <3>2
  <2> QED BY <1>2, <2>2, <2>3
<1>7. CASE cart.mapper = "Uxrom"
  <2>1. a >= 32768
    BY <1>2, <1>5, <1>7, Looks
  <2>2. CASE a < 49152
    <3>1. place = <<"prg", (bank * 16384) + a - 32768>>
      BY <1>2, <1>7, <2>1, <2>2, Looks
    <3>2. ~(0 <= (bank * 16384) + a - 32768 /\ (bank * 16384) + a - 32768 < prg)
      BY <1>2, <1>4, <3>1
    <3>3. bank >= p
      <4> HIDE DEF place, p, prg, id
      <4> QED BY <1>1, <1>2, <2>1, <2>2, <3>2
    <3> QED BY <1>3, <1>7, <3>3
  <2>3. CASE a >= 49152
    <3>1. place = <<"prg", prg - 16384 + a - 49152>>
      BY <1>2, <1>7, <2>1, <2>3, Looks
    <3>2. ~(0 <= prg - 16384 + a - 49152 /\ prg - 16384 + a - 49152 < prg)
      BY <1>1, <1>2, <1>4, <3>1
    <3> HIDE DEF place, p, prg, id
    <3> QED BY <1>1, <1>2, <2>3, <3>2
  <2> QED BY <1>2, <2>2, <2>3
<1>8. CASE cart.mapper = "Cnrom"
  <2> DEFINE base == IF prg = 16384 THEN 16384 ELSE 0
  <2>1. CASE a >= 32768
    <3>1. place = <<"prg", a - 32768 - base>>
      BY <1>2, <1>8, <2>1, Looks
    <3>2. ~(0 <= a - 32768 - base /\ a - 32768 - base < prg)
      BY <1>2, <1>4, <3>1
    <3>3. id = 3 /\ p = 1
      <4> HIDE DEF place, p, prg, id
      <4> QED BY <1>1, <1>2, <1>3, <1>8, <2>1, <3>2
    <3> QED BY <3>3
  <2> QED BY <1>2, <1>3, <1>8, <2>1
<1> QED BY <1>6, <1>7, <1>8 DEF LoadedWell

LEMMA PpuFindsTiles ==
  ASSUME game \in Games, bank \in Byte, LoadedWell, Bus!Sound,
         NEW a \in Word, a < 8192, ~Bus!InArea(cart, Bus!Place(cart, bank, a))
  PROVE  Bus!MapperId(game.file) = 3 /\ bank >= game.file.chrBlocks
<1> DEFINE id == Bus!MapperId(game.file)  p == game.file.prgBlocks  q == game.file.chrBlocks
           place == Bus!Place(cart, bank, a)  chr == cart.chr  length == game.file.length
           prg == cart.prg  rom == cart.rom
<1>1. /\ p \in Nat \ {0} /\ q \in Nat /\ length \in Nat
      /\ length >= 16 + (p * 16384) + (q * 8192)
      /\ prg = p * 16384 /\ rom = length - 16
      /\ chr = IF q = 0 THEN 8192 ELSE q * 8192
  BY SoundFile DEF LoadedWell
<1>2. cart.chrRam <=> q = 0
  BY DEF LoadedWell
<1>3. a \in Nat /\ bank \in Nat
  BY DEF Word, Byte
<1>4. q # 0 => prg + chr <= rom
  <2> HIDE DEF p, q, chr, length, prg, rom
  <2> QED BY <1>1
<1>5. ASSUME NEW i, place = <<"chr", i>> PROVE ~(i < chr)
  <2>1. ~Bus!InArea(cart, <<"chr", i>>)
    BY <1>5
  <2>2. cart.chrRam \/ prg + chr <= rom
    BY <1>2, <1>4
  <2> QED BY <2>1, <2>2, Areas
<1>6. a < chr
  <2> HIDE DEF p, q, chr, length, prg, rom
  <2> QED BY <1>1, <1>3
<1>7. ~(cart.mapper = "Nrom" \/ cart.mapper = "Uxrom")
  <2>1. cart.mapper = "Nrom" \/ cart.mapper = "Uxrom" => place = <<"chr", a>>
    BY Looks
  <2> QED BY <1>5, <1>6, <2>1
<1>8. id = 3 /\ place = <<"chr", (bank * 8192) + a>>
  BY <1>7, Looks DEF LoadedWell
<1>9. bank >= q
  <2>1. ~((bank * 8192) + a < chr)
    BY <1>5, <1>8
  <2> HIDE DEF p, q, chr, length, prg, rom
  <2> QED BY <1>1, <1>3, <2>1
<1> QED BY <1>8, <1>9

-----------------------------------------------------------------------------
(* The CPU's memory map by ranges.                                         *)
LEMMA CpuMap ==
  ASSUME NEW a \in Word
  PROVE  /\ Bus!map(a)[1] = "ram" <=> a < 8192
         /\ Bus!map(a)[1] = "cartridge" <=> a >= 16416
         /\ Bus!map(a)[1] = "dma" <=> a = 16404
         /\ a < 8192 => Bus!map(a) = <<"ram", a % 2048>>
<1>1. a \in Nat
  BY DEF Word
<1> QED BY <1>1 DEF Bus!map

LEMMA CpuPlaces ==
  ASSUME NEW a \in Word
  PROVE  /\ a < 8192 => Bus!CpuPlace(a) = <<"ram", a % 2048>>
         /\ a >= 16416 => Bus!CpuPlace(a) = Bus!Place(cart, bank, a)
         /\ 8192 <= a /\ a < 16416 => Bus!CpuPlace(a) = Bus!Nowhere
<1>1. a \in Nat
  BY DEF Word
<1>2. "ram" # "cartridge"
  OBVIOUS
<1> QED BY <1>1, <1>2, CpuMap DEF Bus!CpuPlace

(* What is known of an access that ends the emulator.                      *)
Known(a, val) ==
  \/ ~Bus!Sound
  \/ a = 16404 /\ 32 <= val /\ val <= 63
  \/ Bus!MapperId(game.file) = 2 /\ (bank >= game.file.prgBlocks \/ game.file.chrBlocks > 0)
  \/ Bus!MapperId(game.file) = 3 /\ (bank >= game.file.chrBlocks \/ game.file.prgBlocks = 1)
  \/ Bus!MapperId(game.file) = 3 /\ 16416 <= a /\ a < 32768
  \/ Bus!MapperId(game.file) = 3 /\ a = 16404 /\ 64 <= val /\ val <= 127

BusInv ==
  /\ game \in Games
  /\ bank \in Byte /\ oamAddress \in Byte /\ panicked \in BOOLEAN
  /\ RegistersInv
  /\ cart # Bus!NoCart => LoadedWell
  /\ access[1] \in Nat /\ access[2] \in Nat
  /\ panicked => Known(access[1], access[2])

LEMMA KnownPanics == BusInv => Bus!PanicsAreKnown
<1> SUFFICES ASSUME BusInv, panicked PROVE Bus!PanicsAreKnown
  BY DEF Bus!PanicsAreKnown
<1> DEFINE a == access[1]  val == access[2]
<1>1. a \in Nat /\ val \in Nat /\ Known(a, val)
  BY DEF BusInv
<1>2. /\ 32 <= val /\ val <= 63 => val \in 32 .. 63
      /\ 64 <= val /\ val <= 127 => val \in \h40 .. \h7f
  BY <1>1
<1> QED BY <1>1, <1>2 DEF Bus!PanicsAreKnown, Known

(* A read by the CPU.                                                      *)
LEMMA CpuReadKnown ==
  ASSUME BusInv, cart # Bus!NoCart, NEW a \in Word,
         ~Bus!InArea(cart, Bus!CpuPlace(a))
  PROVE  /\ a >= 16416
         /\ \/ ~Bus!Sound
            \/ Bus!MapperId(game.file) = 2 /\ bank >= game.file.prgBlocks
            \/ Bus!MapperId(game.file) = 3 /\ (game.file.prgBlocks = 1 \/ a < 32768)
<1>1. a \in Nat
  BY DEF Word
<1>2. a >= 16416
  <2> DEFINE i == a % 2048
  <2>1. Bus!InArea(cart, Bus!Nowhere)
    BY Areas
  <2>3. Bus!InArea(cart, <<"ram", i>>)
    <3> HIDE DEF i
    <3> QED BY OthersAreWhole
  <2>4. a < 8192 => Bus!CpuPlace(a) = <<"ram", i>>
    BY CpuPlaces
  <2> HIDE DEF i
  <2>2. ~(a < 8192) /\ ~(8192 <= a /\ a < 16416)
    BY <2>1, <2>3, <2>4, CpuPlaces
  <2> QED BY <1>1, <2>2
<1>3. ~Bus!InArea(cart, Bus!Place(cart, bank, a))
  BY <1>2, CpuPlaces
<1> QED BY <1>2, <1>1, <1>3, CpuFindsRom DEF BusInv

(* What $2007 reaches.                                                     *)
LEMMA DataKnown ==
  ASSUME BusInv, cart # Bus!NoCart, ~Bus!InArea(cart, Bus!DataPlace)
  PROVE  /\ v % 16384 < 8192
         /\ ~Bus!Sound \/ (Bus!MapperId(game.file) = 3 /\ bank >= game.file.chrBlocks)
<1> DEFINE a == v % 16384
<1>1. a \in Nat /\ a < 16384 /\ a \in Word
  BY DEF BusInv, RegistersInv, Word
<1>2. Bus!DataPlace = Bus!PpuPlace(a)
  BY DEF Bus!DataPlace
<1> HIDE DEF a
<1>3. a < 8192
  <2> DEFINE cell == Bus!PaletteCell(a)
             table == Bus!MirrorMap[((a \div 1024) % 4) + 1]  offset == a % 1024
  <2>1. a >= 16128 => Bus!PpuPlace(a) = <<"palette", cell>>
    BY <1>1 DEF Bus!PpuPlace
  <2>2. 8192 <= a /\ a < 16128 => Bus!PpuPlace(a) = <<"vram", table, offset>>
    BY <1>1 DEF Bus!PpuPlace, Bus!VramPlace
  <2> HIDE DEF cell, table, offset
  <2>3. /\ Bus!InArea(cart, <<"palette", cell>>)
        /\ Bus!InArea(cart, <<"vram", table, offset>>)
    BY OthersAreWhole
  <2>4. ~(a >= 16128) /\ ~(8192 <= a /\ a < 16128)
    BY <1>2, <2>1, <2>2, <2>3
  <2> QED BY <1>1, <2>4
<1>4. ~Bus!InArea(cart, Bus!Place(cart, bank, a))
  BY <1>1, <1>2, <1>3 DEF Bus!PpuPlace
<1>5. ~Bus!Sound \/ (Bus!MapperId(game.file) = 3 /\ bank >= game.file.chrBlocks)
  BY <1>1, <1>3, <1>4, PpuFindsTiles DEF BusInv
<1> QED BY <1>3, <1>5 DEF a

(* A write to the cartridge.                                               *)
LEMMA WriteKnown ==
  ASSUME BusInv, cart # Bus!NoCart, NEW a \in Word,
         ~Bus!CanWrite(cart, Bus!WritePlace(cart, a))
  PROVE  \/ ~Bus!Sound
         \/ Bus!MapperId(game.file) = 2 /\ game.file.chrBlocks > 0
         \/ Bus!MapperId(game.file) = 3 /\ 8192 <= a /\ a < 32768
<1> DEFINE id == Bus!MapperId(game.file)  q == game.file.chrBlocks
           place == Bus!WritePlace(cart, a)
<1>1. a \in Nat /\ q \in Nat
  BY GameBytes DEF Word, Byte, BusInv
<1>2. /\ cart.mapper = "Nrom" => id = 0
      /\ cart.mapper = "Uxrom" => id = 2
      /\ cart.mapper = "Cnrom" => id = 3
      /\ cart.mapper \in {"Nrom", "Uxrom", "Cnrom"}
      /\ cart.chrRam <=> q = 0
      /\ q = 0 => cart.chr = 8192
  BY DEF BusInv, LoadedWell
<1>3. place # Bus!Nowhere
  <2>1. Bus!CanWrite(cart, Bus!Nowhere)
    BY Areas DEF Bus!CanWrite, Bus!Nowhere
  <2> QED BY <2>1
<1>4. place = <<"chr", a>> => ~(q = 0 /\ a < 8192)
  <2> SUFFICES ASSUME place = <<"chr", a>>, q = 0, a < 8192 PROVE FALSE
    OBVIOUS
  <2>1. cart.chrRam /\ a < cart.chr
    BY <1>2
  <2>2. Bus!InArea(cart, <<"chr", a>>)
    BY <2>1, Areas
  <2> QED BY <2>1, <2>2 DEF Bus!CanWrite
<1>5. place = <<"prgRam", a>> => ~(a < 8192)
  <2>1. a < 8192 => Bus!InArea(cart, <<"prgRam", a>>)
    BY Areas
  <2> QED BY <2>1 DEF Bus!CanWrite
<1>6. CASE cart.mapper = "Nrom"
  <2>1. place = IF a < 8192 /\ cart.chrRam THEN <<"chr", a>> ELSE Bus!Nowhere
    BY <1>6 DEF Bus!WritePlace
  <2> QED BY <1>2, <1>3, <1>4, <2>1
<1>7. CASE cart.mapper = "Uxrom"
  <2>1. place = IF a < 8192 THEN <<"chr", a>> ELSE Bus!Nowhere
    BY <1>7 DEF Bus!WritePlace
  <2> QED BY <1>1, <1>2, <1>3, <1>4, <1>7, <2>1
<1>8. CASE cart.mapper = "Cnrom"
  <2>1. place = IF a < 32768 THEN <<"prgRam", a>> ELSE Bus!Nowhere
    BY <1>8 DEF Bus!WritePlace
  <2>2. a < 32768 /\ 8192 <= a
    BY <1>1, <1>3, <1>5, <2>1
  <2> QED BY <1>2, <1>8, <2>2
<1> QED BY <1>2, <1>6, <1>7, <1>8

LEMMA BusStart == for_cart => BusInv
<1> SUFFICES ASSUME for_cart PROVE BusInv
  OBVIOUS
<1>1. /\ game \in Games /\ cart = Bus!NoCart /\ bank = 0 /\ oamAddress = 0
      /\ panicked = FALSE /\ access = <<0, 0>> /\ Bus!Registers!Init
  BY DEF for_cart, Bus!BusInit
<1>2. RegistersInv
  <2>1. /\ v = 0 /\ t = 0 /\ fineX = 0 /\ wLatch = TRUE
        /\ addrInc = 0 /\ rendering = FALSE /\ walk = 0
    BY <1>1 DEF Bus!Registers!Init
  <2>2. wLatch \in BOOLEAN /\ rendering \in BOOLEAN
    BY <2>1, Zenon
  <2>4. MaxWalk \in Nat
    BY GamesAssumption
  <2>3. 0 \in Word /\ 0 < 32768 /\ 0 \in 0..MaxWalk
    BY <2>4 DEF Word
  <2> QED BY <2>1, <2>2, <2>3 DEF RegistersInv
<1>3. panicked \in BOOLEAN /\ ~panicked
  BY <1>1, Zenon
<1>4. bank \in Byte /\ oamAddress \in Byte
  BY <1>1 DEF Byte
<1> QED BY <1>1, <1>2, <1>3, <1>4 DEF BusInv

(* The two ways a step ends.                                               *)
LEMMA QuietStep ==
  ASSUME BusInv, ~panicked, UNCHANGED <<game, cart, panicked, access>>,
         bank' \in Byte, oamAddress' \in Byte, RegistersInv'
  PROVE  BusInv'
<1>1. cart' # Bus!NoCart => LoadedWell'
  BY DEF BusInv, LoadedWell, Bus!NoCart, Bus!MapperId
<1>2. panicked' \in BOOLEAN /\ ~panicked'
  BY DEF BusInv
<1> QED BY <1>1, <1>2 DEF BusInv

LEMMA PanicStep ==
  ASSUME BusInv, NEW a \in Nat, NEW val \in Nat, Bus!Panic(a, val), Known(a, val)
  PROVE  BusInv'
<1>1. /\ panicked' = TRUE /\ access' = <<a, val>>
      /\ UNCHANGED <<game, cart, bank, oamAddress>> /\ UNCHANGED Bus!scroll
  BY DEF Bus!Panic
<1>2. RegistersInv'
  BY <1>1, RegistersStep DEF BusInv
<1>3. cart' # Bus!NoCart => LoadedWell'
  BY <1>1 DEF BusInv, LoadedWell, Bus!NoCart, Bus!MapperId
<1>4. panicked' \in BOOLEAN
  BY <1>1, Zenon
<1>5. access'[1] = a /\ access'[2] = val
  BY <1>1
<1>6. Known(access[1], access[2])'
  BY <1>1, <1>5 DEF Known, Bus!Sound, Bus!MapperId
<1> QED BY <1>1, <1>2, <1>3, <1>4, <1>5, <1>6 DEF BusInv

(* A sound file has a board, and its reset vector is found.                *)
LEMMA VectorFound ==
  ASSUME game \in Games, ~Bus!Rejected(game.file), Bus!Sound,
         Bus!load(game.file).mapper \in {"Nrom", "Uxrom", "Cnrom"}
  PROVE  LET new == Bus!load(game.file)
         IN Bus!CanBuild(new) /\ Bus!InArea(new, Bus!Place(new, 0, \hfffc))
<1> DEFINE new == Bus!load(game.file)  id == Bus!MapperId(game.file)
           p == game.file.prgBlocks  q == game.file.chrBlocks  length == game.file.length
           prg == new.prg  rom == new.rom
<1>1. /\ \/ new.mapper = "Nrom" /\ id = 0
         \/ new.mapper = "Uxrom" /\ id = 2
         \/ new.mapper = "Cnrom" /\ id = 3
      /\ prg = p * 16384 /\ rom = length - 16
  BY Loaded
<1>2. /\ p \in Nat \ {0} /\ q \in Nat /\ length \in Nat
      /\ id # 2 => p \in {1, 2}
      /\ length >= 16 + (p * 16384) + (q * 8192)
  BY SoundFile
<1> HIDE DEF new
<1>3. prg <= rom
  <2> HIDE DEF p, q, length, prg, rom, id
  <2> QED BY <1>1, <1>2
<1>4. id # 2 => prg \in {16384, 32768}
  <2> HIDE DEF p, q, length, prg, rom, id
  <2> QED BY <1>1, <1>2
<1>5. Bus!CanBuild(new)
  BY <1>1, <1>3, <1>4 DEF Bus!CanBuild, Bus!KB16
<1>6. \A i \in Int : 0 <= i /\ i < prg => Bus!InArea(new, <<"prg", i>>)
  <2>1. prg \in Int
    BY <1>1, <1>2
  <2>2. \A i \in Int : 0 <= i /\ i < prg => i \in 0 .. prg - 1
    BY <2>1
  <2> QED BY <1>3, <2>2, Areas
<1>7. Bus!InArea(new, Bus!Place(new, 0, \hfffc))
  <2>1. CASE new.mapper = "Nrom"
    <3> DEFINE i == 65532 - 49152 + (IF prg = 16384 THEN 0 ELSE 16384)
    <3>1. Bus!Place(new, 0, \hfffc) = <<"prg", i>>
      BY <2>1 DEF Bus!Place, Bus!NromPlace, Bus!KB16
    <3>2. i \in Int /\ 0 <= i /\ i < prg
      BY <1>1, <1>4, <2>1
    <3> HIDE DEF i
    <3> QED BY <1>6, <3>1, <3>2
  <2>2. CASE new.mapper = "Uxrom"
    <3> DEFINE i == prg - 16384 + 65532 - 49152
    <3>1. Bus!Place(new, 0, \hfffc) = <<"prg", i>>
      BY <2>2 DEF Bus!Place, Bus!UxromPlace, Bus!KB16
    <3>2. i \in Int /\ 0 <= i /\ i < prg
      <4> HIDE DEF prg, p
      <4> QED BY <1>1, <1>2
    <3> HIDE DEF i
    <3> QED BY <1>6, <3>1, <3>2
  <2>3. CASE new.mapper = "Cnrom"
    <3> DEFINE i == 65532 - 32768 - (IF prg = 16384 THEN 16384 ELSE 0)
    <3>1. Bus!Place(new, 0, \hfffc) = <<"prg", i>>
      BY <2>3 DEF Bus!Place, Bus!CnromPlace, Bus!KB16
    <3>2. i \in Int /\ 0 <= i /\ i < prg
      BY <1>1, <1>4, <2>3
    <3> HIDE DEF i
    <3> QED BY <1>6, <3>1, <3>2
  <2> QED BY <1>1, <2>1, <2>2, <2>3
<1> QED BY <1>5, <1>7 DEF new

LEMMA InsertStep == ASSUME BusInv, Bus!Insert PROVE BusInv'
<1> DEFINE new == Bus!load(game.file)
           good == Bus!CanBuild(new) /\ Bus!InArea(new, Bus!Place(new, 0, \hfffc))
<1>1. /\ cart = Bus!NoCart /\ ~panicked /\ ~Bus!Rejected(game.file)
      /\ new.mapper \in {"Nrom", "Uxrom", "Cnrom"}
      /\ UNCHANGED <<game, bank, oamAddress, access>> /\ UNCHANGED Bus!scroll
      /\ \/ good /\ cart' = new /\ UNCHANGED panicked
         \/ ~good /\ panicked' = TRUE /\ UNCHANGED cart
  BY DEF Bus!Insert, Bus!history
<1>2. RegistersInv' /\ game' \in Games /\ bank' \in Byte /\ oamAddress' \in Byte
  BY <1>1, RegistersStep DEF BusInv
<1>3. CASE good /\ cart' = new /\ UNCHANGED panicked
  <2>1. /\ \/ new.mapper = "Nrom" /\ Bus!MapperId(game.file) = 0
           \/ new.mapper = "Uxrom" /\ Bus!MapperId(game.file) = 2
           \/ new.mapper = "Cnrom" /\ Bus!MapperId(game.file) = 3
        /\ new.mirroring \in {"Vertical", "Horizontal"}
        /\ new.prg = game.file.prgBlocks * 16384
        /\ new.chrRam <=> game.file.chrBlocks = 0
        /\ new.chr = IF game.file.chrBlocks = 0 THEN 8192 ELSE game.file.chrBlocks * 8192
        /\ new.rom = game.file.length - 16
    BY <1>1, Loaded DEF BusInv
  <2>2. new.prg <= new.rom /\ (new.mapper # "Uxrom" => new.prg \in {16384, 32768})
    <3> HIDE DEF new
    <3>1. Bus!CanBuild(new)
      BY <1>3
    <3> QED BY <2>1, <3>1 DEF Bus!CanBuild, Bus!KB16
  <2> HIDE DEF new
  <2>3. LoadedWell'
    BY <1>1, <1>3, <2>1, <2>2 DEF LoadedWell, Bus!MapperId
  <2> QED BY <1>1, <1>2, <1>3, <2>3 DEF BusInv
<1>4. CASE ~good /\ panicked' = TRUE /\ UNCHANGED cart
  <2>1. ~Bus!Sound
    BY <1>1, <1>4, VectorFound DEF BusInv
  <2>2. ~Bus!Sound'
    BY <1>1, <2>1 DEF Bus!Sound, Bus!MapperId
  <2>3. Known(access[1], access[2])' /\ panicked' \in BOOLEAN
    BY <1>4, <2>2 DEF Known
  <2>4. cart' = Bus!NoCart /\ access' = access
    BY <1>1, <1>4
  <2>5. cart' = Bus!NoCart'
    BY <2>4 DEF Bus!NoCart
  <2> HIDE DEF new, good
  <2> QED BY <1>1, <1>2, <2>3, <2>4, <2>5 DEF BusInv
<1> HIDE DEF new, good
<1> QED BY <1>1, <1>3, <1>4

LEMMA RunningGame ==
  ASSUME BusInv, Bus!Running
  PROVE  /\ cart # Bus!NoCart /\ ~panicked /\ LoadedWell /\ bank \in Byte
         /\ \A address \in game.reads : address \in Word /\ address \in Nat
         /\ \A write \in game.writes : /\ write[1] \in Word /\ write[1] \in Nat
                                       /\ write[2] \in Byte /\ write[2] \in Nat
<1>1. \A n \in Word : n \in Nat
  BY DEF Word
<1>2. \A n \in Byte : n \in Nat
  BY DEF Byte
<1> QED BY <1>1, <1>2, GameBytes DEF Bus!Running, BusInv

(* A step that changes neither the cartridge nor a register of scrolling.  *)
LEMMA StillStep ==
  ASSUME BusInv, ~panicked, UNCHANGED <<game, cart, panicked, access>>,
         UNCHANGED Bus!scroll, bank' \in Byte, oamAddress' \in Byte
  PROVE  BusInv'
<1>1. RegistersInv'
  BY RegistersStep DEF BusInv
<1> QED BY <1>1, QuietStep

LEMMA ReadStep ==
  ASSUME BusInv, NEW a \in game.reads, Bus!ReadMemory(a) PROVE BusInv'
<1>1. Bus!Running
  BY DEF Bus!ReadMemory
<1>2. a \in Word /\ a \in Nat /\ cart # Bus!NoCart /\ ~panicked
  BY <1>1, RunningGame
<1>3. CASE Bus!InArea(cart, Bus!CpuPlace(a))
  <2>1. /\ UNCHANGED <<game, cart, panicked, access, bank, oamAddress>>
        /\ UNCHANGED Bus!scroll
    BY <1>3 DEF Bus!ReadMemory, Bus!history
  <2> QED BY <1>2, <2>1, StillStep DEF BusInv
<1>4. CASE ~Bus!InArea(cart, Bus!CpuPlace(a))
  <2>1. Bus!Panic(a, 0)
    BY <1>4 DEF Bus!ReadMemory
  <2>2. Known(a, 0)
    BY <1>2, <1>4, CpuReadKnown DEF Known
  <2> QED BY <1>2, <2>1, <2>2, PanicStep
<1> QED BY <1>3, <1>4

LEMMA WriteStep ==
  ASSUME BusInv, NEW write \in game.writes, Bus!WriteMemory(write[1], write[2])
  PROVE  BusInv'
<1> DEFINE a == write[1]  val == write[2]  inRam == Bus!map(a)[1] = "ram"
           place == IF inRam THEN Bus!map(a) ELSE Bus!WritePlace(cart, a)
<1>1. Bus!Running /\ (inRam \/ Bus!map(a)[1] = "cartridge")
  BY DEF Bus!WriteMemory
<1>2. /\ a \in Word /\ a \in Nat /\ val \in Byte /\ val \in Nat
      /\ cart # Bus!NoCart /\ ~panicked /\ bank \in Byte
  BY <1>1, RunningGame
<1>3. CASE Bus!CanWrite(cart, place)
  <2>1. /\ bank' = IF inRam THEN bank ELSE Bus!BankAfter(cart, bank, val, a)
        /\ UNCHANGED <<game, cart, panicked, access, oamAddress>>
        /\ UNCHANGED Bus!scroll
    BY <1>3 DEF Bus!WriteMemory
  <2>2. Bus!BankAfter(cart, bank, val, a) \in Byte
    <3>1. val % 4 \in Byte
      BY <1>2 DEF Byte
    <3>2. Bus!BankAfter(cart, bank, val, a) \in {val, val % 4, bank}
      <4> DEFINE m == val % 4
      <4> HIDE DEF m
      <4>1. Bus!BankAfter(cart, bank, val, a) = CASE cart.mapper = "Uxrom" /\ a >= 32768 -> val
              [] cart.mapper = "Cnrom" /\ a >= 32768 -> m
              [] OTHER -> bank
        BY DEF Bus!BankAfter, m
      <4>2. Bus!BankAfter(cart, bank, val, a) \in {val, m, bank}
        BY <4>1
      <4> QED BY <4>2 DEF m
    <3> QED BY <1>2, <3>1, <3>2
  <2>3. bank' \in Byte /\ oamAddress' \in Byte
    BY <1>2, <2>1, <2>2 DEF BusInv
  <2> QED BY <1>2, <2>1, <2>3, StillStep
<1>4. CASE ~Bus!CanWrite(cart, place)
  <2>1. Bus!Panic(a, val)
    BY <1>4 DEF Bus!WriteMemory
  <2>2. ~inRam
    <3> DEFINE i == a % 2048
    <3>1. Bus!InArea(cart, <<"ram", i>>)
      <4> HIDE DEF i
      <4> QED BY OthersAreWhole
    <3>2. inRam => Bus!map(a) = <<"ram", i>>
      BY <1>2, CpuMap
    <3> HIDE DEF i
    <3> QED BY <1>4, <3>1, <3>2 DEF Bus!CanWrite
  <2>3. a >= 16416 /\ ~Bus!CanWrite(cart, Bus!WritePlace(cart, a))
    BY <1>1, <1>2, <1>4, <2>2, CpuMap
  <2>4. Known(a, val)
    BY <1>2, <2>3, WriteKnown DEF Known
  <2> QED BY <1>2, <2>1, <2>4, PanicStep
<1> QED BY <1>3, <1>4

(* The game through $2007.                                                 *)
LEMMA DataSteps ==
  ASSUME BusInv, ~panicked, cart # Bus!NoCart, Bus!Registers!Data2007,
         UNCHANGED <<game, cart, panicked, access, bank, oamAddress>>
  PROVE  BusInv'
<1>1. RegistersInv'
  BY RegistersStep DEF BusInv
<1>2. bank' \in Byte /\ oamAddress' \in Byte
  BY DEF BusInv
<1> QED BY <1>1, <1>2, QuietStep

LEMMA ReadDataStep ==
  ASSUME BusInv, NEW a \in game.reads, Bus!ReadData(a) PROVE BusInv'
<1>1. Bus!Running
  BY DEF Bus!ReadData
<1>2. a \in Nat /\ cart # Bus!NoCart /\ ~panicked
  BY <1>1, RunningGame
<1>3. CASE Bus!InArea(cart, Bus!DataPlace)
  <2>1. /\ Bus!Registers!Data2007
        /\ UNCHANGED <<game, cart, panicked, access, bank, oamAddress>>
    BY <1>3 DEF Bus!ReadData
  <2> QED BY <1>2, <2>1, DataSteps
<1>4. CASE ~Bus!InArea(cart, Bus!DataPlace)
  <2>1. Bus!Panic(a, 0)
    BY <1>4 DEF Bus!ReadData
  <2>2. Known(a, 0)
    BY <1>2, <1>4, DataKnown DEF Known
  <2> QED BY <1>2, <2>1, <2>2, PanicStep
<1> QED BY <1>3, <1>4

(* Nametables and palette are always there.                                *)
LEMMA DataAbove ==
  ASSUME BusInv, v % 16384 >= 8192 PROVE Bus!CanWrite(cart, Bus!DataPlace)
<1> DEFINE a == v % 16384  cell == Bus!PaletteCell(a)
           table == Bus!MirrorMap[((a \div 1024) % 4) + 1]  offset == a % 1024
<1>1. a \in Nat
  BY DEF BusInv, RegistersInv, Word
<1>2. Bus!DataPlace = IF a < 16128 THEN <<"vram", table, offset>> ELSE <<"palette", cell>>
  BY <1>1 DEF Bus!DataPlace, Bus!PpuPlace, Bus!VramPlace
<1> HIDE DEF a, cell, table, offset
<1>3. /\ Bus!InArea(cart, <<"vram", table, offset>>)
      /\ Bus!InArea(cart, <<"palette", cell>>)
  BY DEF Bus!InArea
<1>4. CASE Bus!DataPlace = <<"vram", table, offset>>
  BY <1>3, <1>4 DEF Bus!CanWrite
<1>5. CASE Bus!DataPlace = <<"palette", cell>>
  BY <1>3, <1>5 DEF Bus!CanWrite
<1> QED BY <1>2, <1>4, <1>5

LEMMA WriteDataStep ==
  ASSUME BusInv, NEW write \in game.writes, Bus!WriteData(write[1], write[2])
  PROVE  BusInv'
<1> DEFINE a == write[1]  val == write[2]  target == v % 16384
           place == IF target < 8192 THEN Bus!WritePlace(cart, target) ELSE Bus!DataPlace
<1>1. Bus!Running
  BY DEF Bus!WriteData
<1>2. a \in Nat /\ val \in Nat /\ cart # Bus!NoCart /\ ~panicked
  BY <1>1, RunningGame
<1>3. CASE Bus!CanWrite(cart, place)
  <2>1. /\ Bus!Registers!Data2007
        /\ UNCHANGED <<game, cart, panicked, access, bank, oamAddress>>
    BY <1>3 DEF Bus!WriteData
  <2> QED BY <1>2, <2>1, DataSteps
<1>4. CASE ~Bus!CanWrite(cart, place)
  <2>1. Bus!Panic(a, val)
    BY <1>4 DEF Bus!WriteData
  <2>2. target \in Word /\ target \in Nat
    BY DEF BusInv, RegistersInv, Word
  <2>3. target < 8192 /\ ~Bus!CanWrite(cart, Bus!WritePlace(cart, target))
    <3>1. target >= 8192 => Bus!CanWrite(cart, Bus!DataPlace)
      BY DataAbove
    <3> HIDE DEF target
    <3> QED BY <1>4, <2>2, <3>1
  <2> HIDE DEF target, place
  <2>4. Known(a, val)
    BY <1>2, <2>2, <2>3, WriteKnown DEF Known
  <2> QED BY <1>2, <2>1, <2>4, PanicStep
<1> QED BY <1>3, <1>4

(* A transfer reads a page of the CPU's memory.                            *)
LEMMA DmaStep ==
  ASSUME BusInv, NEW write \in game.writes, Bus!WriteDma(write[1], write[2])
  PROVE  BusInv'
<1> DEFINE a == write[1]  val == write[2]
           Source(k) == Bus!CpuPlace((val * 256) + k)
<1>1. Bus!Running /\ Bus!map(a)[1] = "dma"
  BY DEF Bus!WriteDma
<1>2. /\ a \in Word /\ a \in Nat /\ val \in Byte /\ val \in Nat
      /\ cart # Bus!NoCart /\ ~panicked
  BY <1>1, RunningGame
<1>3. a = 16404
  BY <1>1, <1>2, CpuMap
<1>4. CASE /\ oamAddress' = 0
           /\ UNCHANGED <<game, cart, bank, panicked, access>>
           /\ UNCHANGED Bus!scroll
  <2>1. bank' \in Byte /\ oamAddress' \in Byte
    BY <1>4 DEF BusInv, Byte
  <2> QED BY <1>2, <1>4, <2>1, StillStep
<1>5. ASSUME Bus!Panic(a, val), val \in 32 .. 63 PROVE BusInv'
  <2>1. 32 <= val /\ val <= 63
    BY <1>5
  <2>2. Known(a, val)
    BY <1>3, <2>1 DEF Known
  <2> QED BY <1>2, <1>5, <2>2, PanicStep
<1>6. ASSUME Bus!Panic(a, val), NEW k \in {0, 255}, ~Bus!InArea(cart, Source(k)) PROVE BusInv'
  <2> DEFINE from == (val * 256) + k
  <2>1. from \in Word /\ from \in Nat
    BY <1>2 DEF Word, Byte
  <2>2. ~Bus!InArea(cart, Bus!CpuPlace(from))
    BY <1>6
  <2>3. from >= 16416 => val >= 64
    BY <1>2 DEF Byte
  <2>4. from < 32768 => val <= 127
    BY <1>2 DEF Byte
  <2> HIDE DEF from
  <2>5. Known(a, val)
    BY <1>2, <1>3, <2>1, <2>2, <2>3, <2>4, CpuReadKnown DEF Known
  <2> QED BY <1>2, <1>6, <2>5, PanicStep
<1>7. \/ /\ oamAddress' = 0
         /\ UNCHANGED <<game, cart, bank, panicked, access>>
         /\ UNCHANGED Bus!scroll
      \/ /\ val \in 32 .. 63 \/ \E k \in {0, 255} : ~Bus!InArea(cart, Source(k))
         /\ Bus!Panic(a, val)
  BY DEF Bus!WriteDma, Bus!history
<1> QED BY <1>4, <1>5, <1>6, <1>7

LEMMA RegisterSteps ==
  ASSUME BusInv
  PROVE  /\ \A a \in game.reads : Bus!ReadStatus(a) => BusInv'
         /\ \A write \in game.writes :
              /\ Bus!WriteAddress(write[1], write[2]) => BusInv'
              /\ Bus!WriteControl(write[1], write[2]) => BusInv'
              /\ Bus!WriteOam(write[1], write[2]) => BusInv'
<1>0. bank \in Byte /\ oamAddress \in Byte /\ RegistersInv
  BY DEF BusInv
<1>1. ASSUME NEW a \in game.reads, Bus!ReadStatus(a) PROVE BusInv'
  <2>1. /\ Bus!Running /\ Bus!Registers!Status2002
        /\ UNCHANGED <<game, cart, bank, oamAddress, panicked, access>>
    BY <1>1 DEF Bus!ReadStatus, Bus!history
  <2>2. RegistersInv' /\ ~panicked
    BY <1>0, <2>1, RegistersStep, RunningGame
  <2> QED BY <1>0, <2>1, <2>2, QuietStep
<1>2. ASSUME NEW write \in game.writes, Bus!WriteAddress(write[1], write[2]) PROVE BusInv'
  <2>1. /\ Bus!Running /\ Bus!Registers!Addr2006(write[2])
        /\ UNCHANGED <<game, cart, bank, oamAddress, panicked, access>>
    BY <1>2 DEF Bus!WriteAddress
  <2>2. RegistersInv' /\ ~panicked
    BY <1>0, <2>1, RegistersStep, RunningGame
  <2> QED BY <1>0, <2>1, <2>2, QuietStep
<1>3. ASSUME NEW write \in game.writes, Bus!WriteControl(write[1], write[2]) PROVE BusInv'
  <2>1. /\ Bus!Running /\ Bus!Registers!Ctrl2000(write[2])
        /\ UNCHANGED <<game, cart, bank, oamAddress, panicked, access>>
    BY <1>3 DEF Bus!WriteControl, Bus!history
  <2>2. RegistersInv' /\ ~panicked
    BY <1>0, <2>1, RegistersStep, RunningGame
  <2> QED BY <1>0, <2>1, <2>2, QuietStep
<1>4. ASSUME NEW write \in game.writes, Bus!WriteOam(write[1], write[2]) PROVE BusInv'
  <2>1. /\ Bus!Running
        /\ oamAddress' = write[2] \/ oamAddress' = (oamAddress + 1) % 256
        /\ UNCHANGED <<game, cart, bank, panicked, access>>
        /\ UNCHANGED Bus!scroll
    BY <1>4 DEF Bus!WriteOam, Bus!history
  <2>2. ~panicked /\ write[2] \in Byte
    BY <2>1, RunningGame
  <2>3. (oamAddress + 1) % 256 \in Byte
    BY <1>0 DEF Byte
  <2> QED BY <1>0, <2>1, <2>2, <2>3, StillStep
<1> QED BY <1>1, <1>2, <1>3, <1>4

LEMMA BusStep == BusInv /\ [Bus!BusNext]_busVars => BusInv'
<1>1. ASSUME BusInv, UNCHANGED busVars PROVE BusInv'
  BY <1>1 DEF busVars, BusInv, RegistersInv, LoadedWell, Known, Bus!NoCart, Bus!Sound,
     Bus!MapperId
<1>2. ASSUME BusInv, Bus!BusNext PROVE BusInv'
  BY <1>2, InsertStep, ReadStep, WriteStep, ReadDataStep, WriteDataStep, DmaStep,
     RegisterSteps DEF Bus!BusNext
<1> QED BY <1>1, <1>2

LEMMA BusInvariant == BoardSpec => []BusInv
<1>1. BusInv /\ [Game]_boardVars => BusInv'
  <2>1. [Game]_boardVars => [Bus!BusNext]_busVars
    BY DEF Game, boardVars
  <2> QED BY <2>1, BusStep
<1> QED BY BusStart, <1>1, PTL DEF BoardSpec

(* Whatever a game of one of the simple boards reads and writes, what ends *)
(* the emulator is one of these (the panics of cartridge.rs, mappers/*.rs, *)
(* nesbus.rs and ppu.rs).                                                  *)
THEOREM PanicsAreUnderstood == BoardSpec => []PanicsAreKnown
<1>1. BusInv => PanicsAreKnown
  BY KnownPanics DEF PanicsAreKnown
<1> QED BY <1>1, BusInvariant, PTL

(* The variables of the board that is in, and of the bus, keep their types.*)
THEOREM BoardTypeCorrect == BoardSpec => []BoardTypeOK
<1> DEFINE Inv == TypeOK /\ CounterInv /\ Serial!TypeOK /\ ShiftInv /\ BusInv
<1>1. for_cart => Inv
  BY CounterTypes, CounterInit, SerialTypes, ShiftInit, BusStart DEF for_cart
<1>2. Inv /\ [Game]_boardVars => Inv'
  <2>1. [Game]_boardVars => [Next]_vars /\ [Serial!Next]_(Serial!vars) /\ [Bus!BusNext]_busVars
    BY DEF Game, boardVars, mmc1Vars, Serial!vars, Serial!regs
  <2> QED BY <2>1, CounterTypesKept, CounterStep, SerialTypesKept, ShiftStep, BusStep
<1>3. Inv => BoardTypeOK
  <2>1. BusInv => Bus!BusTypeOK
    BY RegistersAreTyped, Bytes8 DEF BusInv, Bus!BusTypeOK
  <2> QED BY <2>1 DEF BoardTypeOK
<1> QED BY <1>1, <1>2, <1>3, PTL DEF BoardSpec

-----------------------------------------------------------------------------
(* Where the PPU keeps the byte that the game knows by an address, for as  *)
(* long as the cartridge is in: the same whatever bank is selected.        *)
Table(a) == Bus!MirrorMap[((a \div 1024) % 4) + 1]
Home(a) ==
  IF a < 8192 THEN <<"chr", a>>
  ELSE IF a < 16128 THEN <<"vram", Table(a), a % 1024>>
  ELSE <<"palette", Bus!PaletteCell(a)>>

LEMMA PpuHomes ==
  ASSUME NEW a \in Nat, a < 16384,
         a < 8192 => cart.mapper \in {"Nrom", "Uxrom"}
  PROVE  Bus!PpuPlace(a) = Home(a)
<1>1. CASE a < 8192
  <2>1. a \in Word
    BY DEF Word
  <2>2. Bus!Place(cart, bank, a) = <<"chr", a>>
    BY <1>1, <2>1, Looks
  <2> QED BY <1>1, <2>2 DEF Bus!PpuPlace, Home
<1>2. CASE a >= 8192
  BY <1>2 DEF Bus!PpuPlace, Bus!VramPlace, Home, Table
<1> QED BY <1>1, <1>2

(* The console's map and the place in the PPU are two names of one byte.   *)
LEMMA PpuCells ==
  ASSUME NEW a \in Nat, a < 16384, cart.mirroring \in {"Vertical", "Horizontal"}
  PROVE  /\ a < 8192 => Bus!Cell("ppu", a) = <<"ppu", a>>
         /\ 8192 <= a /\ a < 16128 =>
              /\ Table(a) \in {0, 1}
              /\ Bus!Cell("ppu", a) = <<"ppu", 8192 + (1024 * Table(a)) + (a % 1024)>>
         /\ a >= 16128 =>
              /\ Bus!PaletteCell(a) \in Nat
              /\ Bus!Cell("ppu", a) = <<"ppu", 16128 + Bus!PaletteCell(a)>>
<1>1. a < 8192 => Bus!Cell("ppu", a) = <<"ppu", a>>
  BY DEF Bus!Cell
<1>2. ASSUME 8192 <= a, a < 16128
      PROVE  /\ Table(a) \in {0, 1}
             /\ Bus!Cell("ppu", a) = <<"ppu", 8192 + (1024 * Table(a)) + (a % 1024)>>
  <2> DEFINE q == (a \div 1024) % 4  low == a % 1024
             vertical == 8192 + (a % 2048)
             horizontal == 8192 + (((a % 4096) \div 2048) * 1024) + (a % 1024)
  <2>1. q \in {0, 1, 2, 3}
    OBVIOUS
  <2>3. Bus!Cell("ppu", a) = <<"ppu", IF cart.mirroring = "Vertical" THEN vertical ELSE horizontal>>
    BY <1>2 DEF Bus!Cell
  <2>4. /\ vertical = 8192 + (1024 * (q % 2)) + low
        /\ horizontal = 8192 + (1024 * (q \div 2)) + low
    OBVIOUS
  <2> HIDE DEF vertical, horizontal, low
  <2>5. Table(a) = IF cart.mirroring = "Horizontal" THEN <<0, 0, 1, 1>>[q + 1] ELSE <<0, 1, 0, 1>>[q + 1]
    BY DEF Table, Bus!MirrorMap
  <2> HIDE DEF q
  <2>6. Table(a) = IF cart.mirroring = "Horizontal" THEN q \div 2 ELSE q % 2
    BY <2>1, <2>5
  <2>7. q \div 2 \in {0, 1} /\ q % 2 \in {0, 1}
    BY <2>1
  <2>8. Table(a) \in {0, 1}
    BY <2>6, <2>7
  <2>9. (IF cart.mirroring = "Vertical" THEN vertical ELSE horizontal)
          = 8192 + (1024 * Table(a)) + low
    BY <2>4, <2>6
  <2> QED BY <2>3, <2>8, <2>9 DEF low
<1>3. ASSUME a >= 16128
      PROVE  /\ Bus!PaletteCell(a) \in Nat
             /\ Bus!Cell("ppu", a) = <<"ppu", 16128 + Bus!PaletteCell(a)>>
  <2> DEFINE c == a % 32  n == IF a % 4 = 0 THEN 16128 + (a % 16) ELSE 16128 + c
  <2>2. Bus!Cell("ppu", a) = <<"ppu", n>>
    BY <1>3 DEF Bus!Cell
  <2>3. Bus!PaletteCell(a) = IF c \in {16, 20, 24, 28} THEN c - 16 ELSE c
    BY DEF Bus!PaletteCell
  <2>4. c \in 0..31 /\ a % 4 = c % 4 /\ a % 16 = c % 16
    OBVIOUS
  <2>5. n = IF c % 4 = 0 THEN 16128 + (c % 16) ELSE 16128 + c
    BY <2>4
  <2> HIDE DEF n, c
  <2>6. Bus!PaletteCell(a) \in Nat /\ n = 16128 + Bus!PaletteCell(a)
    BY <2>3, <2>4, <2>5
  <2> QED BY <2>2, <2>6
<1> QED BY <1>1, <1>2, <1>3

LEMMA CellsAreHomes ==
  ASSUME NEW a \in Nat, a < 16384, NEW b \in Nat, b < 16384,
         cart.mirroring \in {"Vertical", "Horizontal"}
  PROVE  Bus!Cell("ppu", a) = Bus!Cell("ppu", b) <=> Home(a) = Home(b)
<1> DEFINE A == Bus!Cell("ppu", a)  B == Bus!Cell("ppu", b)
           p == Table(a)  q == Table(b)  x == a % 1024  y == b % 1024
           c == Bus!PaletteCell(a)  d == Bus!PaletteCell(b)
<1>1. /\ a < 8192 => A = <<"ppu", a>>
      /\ 8192 <= a /\ a < 16128 => p \in {0, 1} /\ A = <<"ppu", 8192 + (1024 * p) + x>>
      /\ a >= 16128 => c \in Nat /\ A = <<"ppu", 16128 + c>>
  BY PpuCells
<1>2. /\ b < 8192 => B = <<"ppu", b>>
      /\ 8192 <= b /\ b < 16128 => q \in {0, 1} /\ B = <<"ppu", 8192 + (1024 * q) + y>>
      /\ b >= 16128 => d \in Nat /\ B = <<"ppu", 16128 + d>>
  BY PpuCells
<1>3. /\ Home(a) = IF a < 8192 THEN <<"chr", a>> ELSE IF a < 16128 THEN <<"vram", p, x>>
                   ELSE <<"palette", c>>
      /\ Home(b) = IF b < 8192 THEN <<"chr", b>> ELSE IF b < 16128 THEN <<"vram", q, y>>
                   ELSE <<"palette", d>>
  BY DEF Home
<1>4. x \in 0..1023 /\ y \in 0..1023
  OBVIOUS
<1> HIDE DEF A, B, p, q, x, y, c, d
<1> DEFINE m == A[2]  n == B[2]
<1>5. /\ a < 8192 => m = a
      /\ 8192 <= a /\ a < 16128 => p \in {0, 1} /\ m = 8192 + (1024 * p) + x
      /\ a >= 16128 => c \in Nat /\ m = 16128 + c
      /\ A[1] = "ppu" /\ A = <<"ppu", m>>
  BY <1>1
<1>6. /\ b < 8192 => n = b
      /\ 8192 <= b /\ b < 16128 => q \in {0, 1} /\ n = 8192 + (1024 * q) + y
      /\ b >= 16128 => d \in Nat /\ n = 16128 + d
      /\ B = <<"ppu", n>>
  BY <1>2
<1>7. A = B <=> m = n
  BY <1>5, <1>6
<1> HIDE DEF m, n
<1>8. m = n <=> \/ a < 8192 /\ b < 8192 /\ a = b
                \/ 8192 <= a /\ a < 16128 /\ 8192 <= b /\ b < 16128 /\ p = q /\ x = y
                \/ a >= 16128 /\ b >= 16128 /\ c = d
  BY <1>4, <1>5, <1>6
<1>9. Home(a) = Home(b)
        <=> \/ a < 8192 /\ b < 8192 /\ a = b
            \/ 8192 <= a /\ a < 16128 /\ 8192 <= b /\ b < 16128 /\ p = q /\ x = y
            \/ a >= 16128 /\ b >= 16128 /\ c = d
  BY <1>3
<1> QED BY <1>7, <1>8, <1>9 DEF A, B

LEMMA ApartFromHomes ==
  ASSUME NEW a
  PROVE  /\ \A i : Home(a) # <<"ram", i>> /\ Home(a) # <<"prgRam", i>>
         /\ \A i : Bus!Cell("cpu", i)[1] = "cpu"
<1>1. Home(a)[1] \in {"chr", "vram", "palette"}
  BY DEF Home
<1>2. \A i : <<"ram", i>>[1] = "ram" /\ <<"prgRam", i>>[1] = "prgRam"
  OBVIOUS
<1>3. \A i : Bus!Cell("cpu", i)[1] = "cpu"
  BY DEF Bus!Cell
<1> QED BY <1>1, <1>2, <1>3

LEMMA Stored ==
  ASSUME NEW store, NEW cell, NEW val, NEW other
  PROVE  /\ other \in DOMAIN Bus!With(store, cell, val) <=> other \in DOMAIN store \/ other = cell
         /\ other = cell => Bus!With(store, cell, val)[other] = val
         /\ other \in DOMAIN store /\ other # cell
              => Bus!With(store, cell, val)[other] = store[other]
BY DEF Bus!With

(* A byte that is written under both of its names is still the same.       *)
LEMMA StoredTwice ==
  ASSUME NEW places, NEW cells, NEW spot, NEW cell, NEW val, NEW here, NEW there,
         here = spot <=> there = cell,
         there \in DOMAIN cells => here \in DOMAIN places /\ places[here] = cells[there],
         there \in DOMAIN Bus!With(cells, cell, val)
  PROVE  /\ here \in DOMAIN Bus!With(places, spot, val)
         /\ Bus!With(places, spot, val)[here] = Bus!With(cells, cell, val)[there]
BY Stored

-----------------------------------------------------------------------------
(* What the game wrote last is in the place of each of its addresses.      *)
FlatRam ==
  \A a \in Nat : a < 8192 /\ Bus!Cell("cpu", a) \in DOMAIN flat
    => /\ <<"ram", a % 2048>> \in DOMAIN memory
       /\ memory[<<"ram", a % 2048>>] = flat[Bus!Cell("cpu", a)]

FlatPpu ==
  \A a \in Nat : a < 16384 /\ Bus!Cell("ppu", a) \in DOMAIN flat
    => /\ a < 8192 => Bus!HasChrRam
       /\ Home(a) \in DOMAIN memory
       /\ memory[Home(a)] = flat[Bus!Cell("ppu", a)]

(* The buffer has the byte at the address read last, the result that of    *)
(* the one before it.                                                      *)
Wanted == IF trail[2] < 16128 THEN trail[1] ELSE trail[2]

ReadInv ==
  /\ trail \in Seq({n \in Nat : n < 16384})
  /\ trail # <<>> /\ Bus!Cell("ppu", trail[Len(trail)]) \in DOMAIN flat
       => buffer = flat[Bus!Cell("ppu", trail[Len(trail)])]
  /\ Len(trail) = 2 /\ Bus!Cell("ppu", Wanted) \in DOMAIN flat
       => result = flat[Bus!Cell("ppu", Wanted)]

FlatInv ==
  /\ cart = Bus!NoCart => flat = <<>> /\ trail = <<>>
  /\ FlatRam /\ FlatPpu /\ ReadInv

LEMMA FlatStart == for_cart => FlatInv
<1> SUFFICES ASSUME for_cart PROVE FlatInv
  OBVIOUS
<1>1. flat = <<>> /\ trail = <<>>
  BY DEF for_cart, Bus!BusInit
<1>2. \A cell : cell \notin DOMAIN flat
  BY <1>1
<1>3. Len(trail) = 0 /\ trail \in Seq({n \in Nat : n < 16384})
  BY <1>1
<1> QED BY <1>1, <1>2, <1>3 DEF FlatInv, FlatRam, FlatPpu, ReadInv

(* A byte of the PPU that the game wrote is found at its address.          *)
LEMMA PpuByte ==
  ASSUME BusInv, FlatInv, cart # Bus!NoCart,
         NEW a \in Nat, a < 16384, Bus!Cell("ppu", a) \in DOMAIN flat
  PROVE  Bus!Content(Bus!PpuPlace(a)) = flat[Bus!Cell("ppu", a)]
<1>1. /\ a < 8192 => Bus!HasChrRam
      /\ Home(a) \in DOMAIN memory
      /\ memory[Home(a)] = flat[Bus!Cell("ppu", a)]
  BY DEF FlatInv, FlatPpu
<1>2. a < 8192 => cart.mapper \in {"Nrom", "Uxrom"}
  BY <1>1 DEF Bus!HasChrRam, BusInv, LoadedWell
<1>3. Bus!PpuPlace(a) = Home(a)
  BY <1>2, PpuHomes
<1> QED BY <1>1, <1>3 DEF Bus!Content

LEMMA FlatMeans == BusInv /\ FlatInv => MemoryIsFlat /\ SecondReadIsFirstCell
<1> SUFFICES ASSUME BusInv, FlatInv PROVE MemoryIsFlat /\ SecondReadIsFirstCell
  OBVIOUS
<1>1. ASSUME Bus!Running, NEW a \in game.reads, a < 8192,
             Bus!Cell("cpu", a) \in DOMAIN flat
      PROVE  Bus!Content(Bus!CpuPlace(a)) = flat[Bus!Cell("cpu", a)]
  <2>1. a \in Word /\ a \in Nat
    BY <1>1, RunningGame
  <2> DEFINE place == <<"ram", a % 2048>>
  <2>2. Bus!CpuPlace(a) = place
    BY <1>1, <2>1, CpuPlaces
  <2>3. place \in DOMAIN memory /\ memory[place] = flat[Bus!Cell("cpu", a)]
    BY <1>1, <2>1 DEF FlatInv, FlatRam
  <2> HIDE DEF place
  <2> QED BY <2>2, <2>3 DEF Bus!Content
<1>2. ASSUME Bus!Running, NEW a \in PpuAddresses, Bus!Cell("ppu", a) \in DOMAIN flat
      PROVE  Bus!Content(Bus!PpuPlace(a)) = flat[Bus!Cell("ppu", a)]
  <2>1. a \in Nat /\ a < 16384
    <3>1. a \in 0 .. (2^14 - 1)
      BY GamesAssumption
    <3> QED BY <3>1
  <2> QED BY <1>2, <2>1, PpuByte DEF Bus!Running
<1>3. Bus!MemoryIsFlat
  BY <1>1, <1>2 DEF Bus!MemoryIsFlat
<1>4. Bus!SecondReadIsFirstCell
  BY DEF FlatInv, ReadInv, Wanted, Bus!SecondReadIsFirstCell
<1> QED BY <1>3, <1>4 DEF MemoryIsFlat, SecondReadIsFirstCell

LEMMA SameNames ==
  ASSUME cart' = cart
  PROVE  /\ \A space, a : Bus!Cell(space, a)' = Bus!Cell(space, a)
         /\ \A a : Home(a)' = Home(a)
         /\ Bus!HasChrRam' <=> Bus!HasChrRam
<1>1. \A space, a : Bus!Cell(space, a)' = Bus!Cell(space, a)
  BY DEF Bus!Cell
<1>2. \A a : Home(a)' = Home(a)
  BY DEF Home, Table, Bus!MirrorMap, Bus!PaletteCell
<1>3. Bus!HasChrRam' <=> Bus!HasChrRam
  BY DEF Bus!HasChrRam
<1> QED BY <1>1, <1>2, <1>3

LEMMA PpuCellsArePpu ==
  ASSUME NEW b \in Nat PROVE \A i : Bus!Cell("ppu", b) # <<"cpu", i>>
<1>1. "ppu" # "cpu"
  OBVIOUS
<1>2. Bus!Cell("ppu", b)[1] = "ppu"
  BY DEF Bus!Cell
<1> QED BY <1>1, <1>2

(* The addresses that ReadInv speaks of are addresses of the PPU.          *)
LEMMA TrailIsPpu ==
  ASSUME ReadInv
  PROVE  /\ trail # <<>> => trail[Len(trail)] \in Nat /\ trail[Len(trail)] < 16384
         /\ Len(trail) = 2 => Wanted \in Nat /\ Wanted < 16384
<1> DEFINE S == {n \in Nat : n < 16384}
<1>1. trail \in Seq(S)
  BY DEF ReadInv
<1> HIDE DEF S
<1>2. /\ Len(trail) \in Nat
      /\ trail # <<>> => trail[Len(trail)] \in S
      /\ Len(trail) = 2 => trail[1] \in S /\ trail[2] \in S
  BY <1>1
<1> QED BY <1>2 DEF S, Wanted

LEMMA NothingWritten == ASSUME flat' = <<>>, trail' = <<>> PROVE FlatInv'
<1>1. \A cell : cell \notin DOMAIN flat'
  OBVIOUS
<1>2. Len(trail') = 0 /\ trail' \in Seq({n \in Nat : n < 16384})
  OBVIOUS
<1> QED BY <1>1, <1>2 DEF FlatInv, FlatRam, FlatPpu, ReadInv

LEMMA FlatKept ==
  ASSUME FlatInv, cart # Bus!NoCart, UNCHANGED <<cart, memory, flat>>
  PROVE  /\ FlatRam' /\ FlatPpu'
         /\ ReadInv' => FlatInv'
         /\ UNCHANGED <<trail, buffer, result>> => FlatInv'
<1>1. FlatRam' /\ FlatPpu'
  BY SameNames DEF FlatInv, FlatRam, FlatPpu
<1>2. cart' # Bus!NoCart'
  BY DEF Bus!NoCart
<1>3. ReadInv' => FlatInv'
  BY <1>1, <1>2 DEF FlatInv
<1>4. ASSUME UNCHANGED <<trail, buffer, result>> PROVE ReadInv'
  BY <1>4, SameNames DEF FlatInv, ReadInv, Wanted
<1> QED BY <1>1, <1>3, <1>4

(* The CPU writes RAM, or what no address of the game's is kept at.        *)
LEMMA FlatWrite ==
  ASSUME BusInv, FlatInv, NEW write \in game.writes, Bus!WriteMemory(write[1], write[2])
  PROVE  FlatInv'
<1> DEFINE a == write[1]  val == write[2]  i == a % 2048  spot == <<"ram", i>>
           inRam == Bus!map(a)[1] = "ram"
           place == IF inRam THEN Bus!map(a) ELSE Bus!WritePlace(cart, a)
           cell == Bus!Cell("cpu", a)
<1>1. Bus!Running /\ (inRam \/ Bus!map(a)[1] = "cartridge")
  BY DEF Bus!WriteMemory
<1>2. a \in Word /\ a \in Nat /\ cart # Bus!NoCart
  BY <1>1, RunningGame
<1>3. CASE Bus!Panic(a, val)
  <2>1. UNCHANGED <<cart, memory, flat, trail, buffer, result>>
    BY <1>3 DEF Bus!Panic
  <2> QED BY <1>2, <2>1, FlatKept
<1>4. ASSUME ~Bus!Panic(a, val) PROVE FlatInv'
  <2>1. /\ memory' = IF place = Bus!Nowhere THEN memory ELSE Bus!With(memory, place, val)
        /\ flat' = IF a < 8192 THEN Bus!With(flat, cell, val) ELSE flat
        /\ UNCHANGED <<cart, buffer, result, trail>>
    BY <1>4 DEF Bus!WriteMemory
  <2>2. cart' # Bus!NoCart'
    BY <1>2, <2>1 DEF Bus!NoCart
  <2>3. cell = <<"cpu", i>>
    BY DEF Bus!Cell
  <2>4. inRam => a < 8192 /\ place = spot /\ spot # Bus!Nowhere
    <3>1. inRam => a < 8192 /\ Bus!map(a) = spot
      BY <1>2, CpuMap
    <3>2. spot # Bus!Nowhere
      BY DEF Bus!Nowhere
    <3> QED BY <3>1, <3>2
  <2>5. ~inRam => a >= 8192 /\ (place = Bus!Nowhere \/ place = <<"prgRam", a>>)
    <3>1. ~inRam => a >= 8192 /\ place = Bus!WritePlace(cart, a)
      BY <1>2, CpuMap
    <3>2. cart.mapper \in {"Nrom", "Uxrom", "Cnrom"}
      BY <1>2 DEF BusInv, LoadedWell
    <3> QED BY <1>2, <3>1, <3>2 DEF Bus!WritePlace
  <2> HIDE DEF inRam, place, cell, spot, i
  <2>6. FlatRam'
    <3>1. ASSUME NEW b \in Nat, b < 8192, Bus!Cell("cpu", b) \in DOMAIN flat'
          PROVE  /\ <<"ram", b % 2048>> \in DOMAIN memory'
                 /\ memory'[<<"ram", b % 2048>>] = flat'[Bus!Cell("cpu", b)]
      <4> DEFINE j == b % 2048  here == <<"ram", j>>  there == Bus!Cell("cpu", b)
      <4>1. there = <<"cpu", j>>
        BY DEF Bus!Cell
      <4>2. there \in DOMAIN flat => here \in DOMAIN memory /\ memory[here] = flat[there]
        BY <3>1 DEF FlatInv, FlatRam
      <4>3. there \in DOMAIN flat'
        BY <3>1
      <4> HIDE DEF there, j, here
      <4>4. ASSUME inRam PROVE here \in DOMAIN memory' /\ memory'[here] = flat'[there]
        <5>1. memory' = Bus!With(memory, spot, val) /\ flat' = Bus!With(flat, cell, val)
          BY <2>1, <2>4, <4>4
        <5>2. spot = <<"ram", i>>
          BY DEF spot
        <5>3. here = spot <=> there = cell
          BY <2>3, <4>1, <5>2 DEF here
        <5>4. there \in DOMAIN Bus!With(flat, cell, val)
          BY <4>3, <5>1
        <5>5. /\ here \in DOMAIN Bus!With(memory, spot, val)
              /\ Bus!With(memory, spot, val)[here] = Bus!With(flat, cell, val)[there]
          BY <4>2, <5>3, <5>4, StoredTwice
        <5> QED BY <5>1, <5>5
      <4>5. ASSUME ~inRam PROVE here \in DOMAIN memory' /\ memory'[here] = flat'[there]
        <5>1. flat' = flat
          BY <1>2, <2>1, <2>5, <4>5
        <5>2. memory' = memory \/ memory' = Bus!With(memory, <<"prgRam", a>>, val)
          BY <2>1, <2>5, <4>5
        <5>3. here # <<"prgRam", a>>
          BY DEF here
        <5> DEFINE far == <<"prgRam", a>>
        <5> HIDE DEF far
        <5>4. memory' = memory \/ memory' = Bus!With(memory, far, val)
          BY <5>2 DEF far
        <5>5. here # far
          BY <5>3 DEF far
        <5>6. here \in DOMAIN memory => here \in DOMAIN memory' /\ memory'[here] = memory[here]
          BY <5>4, <5>5, Stored
        <5> QED BY <4>2, <4>3, <5>1, <5>6
      <4>6. here \in DOMAIN memory' /\ memory'[here] = flat'[there]
        BY <4>4, <4>5
      <4> QED BY <4>6 DEF here, there, j
    <3> QED BY <2>1, <3>1, SameNames DEF FlatRam
  <2>7. \A b : Home(b) \in DOMAIN memory
          => Home(b) \in DOMAIN memory' /\ memory'[Home(b)] = memory[Home(b)]
    <3> TAKE b
    <3>1. Home(b) # spot /\ Home(b) # <<"prgRam", a>>
      BY ApartFromHomes DEF spot
    <3> DEFINE far == <<"prgRam", a>>  home == Home(b)
    <3>2. memory' = memory \/ memory' = Bus!With(memory, spot, val)
            \/ memory' = Bus!With(memory, far, val)
      BY <2>1, <2>4, <2>5
    <3>3. home # spot /\ home # far
      BY <3>1
    <3> HIDE DEF far, home
    <3>4. home \in DOMAIN memory => home \in DOMAIN memory' /\ memory'[home] = memory[home]
      BY <3>2, <3>3, Stored
    <3> QED BY <3>4 DEF home
  <2>8. \A b \in Nat :
          /\ Bus!Cell("ppu", b) \in DOMAIN flat' <=> Bus!Cell("ppu", b) \in DOMAIN flat
          /\ Bus!Cell("ppu", b) \in DOMAIN flat
               => flat'[Bus!Cell("ppu", b)] = flat[Bus!Cell("ppu", b)]
    <3> TAKE b \in Nat
    <3>1. Bus!Cell("ppu", b) # cell
      BY <2>3, PpuCellsArePpu
    <3> DEFINE there == Bus!Cell("ppu", b)
    <3>2. flat' = flat \/ flat' = Bus!With(flat, cell, val)
      BY <2>1
    <3>3. there # cell
      BY <3>1
    <3> HIDE DEF there
    <3>4. /\ there \in DOMAIN flat' <=> there \in DOMAIN flat
          /\ there \in DOMAIN flat => flat'[there] = flat[there]
      BY <3>2, <3>3, Stored
    <3> QED BY <3>4 DEF there
  <2>9. FlatPpu'
    <3>1. ASSUME NEW b \in Nat, b < 16384, Bus!Cell("ppu", b) \in DOMAIN flat'
          PROVE  /\ b < 8192 => Bus!HasChrRam
                 /\ Home(b) \in DOMAIN memory'
                 /\ memory'[Home(b)] = flat'[Bus!Cell("ppu", b)]
      BY <2>7, <2>8, <3>1 DEF FlatInv, FlatPpu
    <3> QED BY <2>1, <3>1, SameNames DEF FlatPpu
  <2>10. ReadInv'
    <3> DEFINE last == trail[Len(trail)]
    <3>1. ReadInv /\ UNCHANGED <<trail, buffer, result>>
      BY <2>1 DEF FlatInv
    <3>2. /\ trail # <<>> => last \in Nat
          /\ Len(trail) = 2 => Wanted \in Nat
      BY <3>1, TrailIsPpu
    <3>3. trail # <<>> /\ Bus!Cell("ppu", last) \in DOMAIN flat'
            => buffer = flat'[Bus!Cell("ppu", last)]
      BY <2>8, <3>1, <3>2 DEF ReadInv
    <3>4. Len(trail) = 2 /\ Bus!Cell("ppu", Wanted) \in DOMAIN flat'
            => result = flat'[Bus!Cell("ppu", Wanted)]
      BY <2>8, <3>1, <3>2 DEF ReadInv
    <3>5. Wanted' = Wanted
      BY <3>1 DEF Wanted
    <3> QED BY <2>1, <3>1, <3>3, <3>4, <3>5, SameNames DEF ReadInv
  <2> QED BY <2>2, <2>6, <2>9, <2>10 DEF FlatInv
<1> QED BY <1>3, <1>4

LEMMA TargetIsPpu == BusInv => v % 16384 \in Nat /\ v % 16384 < 16384
BY DEF BusInv, RegistersInv, Word

LEMMA NoReads == ASSUME trail' = <<>> PROVE ReadInv'
<1>1. Len(trail') = 0 /\ trail' \in Seq({n \in Nat : n < 16384})
  OBVIOUS
<1> QED BY <1>1 DEF ReadInv

(* No tile has the place of a byte of a nametable or of the palette.       *)
LEMMA HomesOfTiles ==
  ASSUME NEW a \in Nat, a < 8192, NEW b \in Nat, b >= 8192
  PROVE  Home(a) # Home(b)
<1>1. Home(a)[1] = "chr" /\ Home(b)[1] \in {"vram", "palette"}
  BY DEF Home
<1> QED BY <1>1

(* A read of $2007 puts the byte at the address into the buffer, after the *)
(* one before has been given out.                                          *)
LEMMA FlatReadData ==
  ASSUME BusInv, FlatInv, NEW a \in game.reads, Bus!ReadData(a)
  PROVE  FlatInv'
<1> DEFINE S == {n \in Nat : n < 16384}  target == v % 16384
           read == Bus!Content(Bus!PpuPlace(target))
           last == trail[Len(trail)]  wanted == Wanted'
<1>1. Bus!Running /\ cart # Bus!NoCart
  BY DEF Bus!ReadData, Bus!Running
<1>2. CASE Bus!Panic(a, 0)
  <2>1. UNCHANGED <<cart, memory, flat, trail, buffer, result>>
    BY <1>2 DEF Bus!Panic
  <2> QED BY <1>1, <2>1, FlatKept
<1>3. ASSUME ~Bus!Panic(a, 0) PROVE FlatInv'
  <2>1. /\ result' = IF target < 16128 THEN buffer ELSE read
        /\ buffer' = read
        /\ trail' = Append(trail, target)
        /\ UNCHANGED <<cart, memory, flat>>
    BY <1>3 DEF Bus!ReadData, Bus!DataPlace
  <2>2. target \in S
    BY TargetIsPpu
  <2>3. trail \in Seq(S)
    BY DEF FlatInv, ReadInv
  <2>4. Bus!Cell("ppu", target) \in DOMAIN flat => read = flat[Bus!Cell("ppu", target)]
    BY <1>1, <2>2, PpuByte
  <2>5. trail # <<>> /\ Bus!Cell("ppu", last) \in DOMAIN flat => buffer = flat[Bus!Cell("ppu", last)]
    BY DEF FlatInv, ReadInv
  <2> HIDE DEF S, target, read
  <2>6. /\ trail' \in Seq(S) /\ Len(trail') = Len(trail) + 1
        /\ trail'[Len(trail')] = target
    BY <2>1, <2>2, <2>3
  <2>7. Len(trail') = 2 => /\ trail # <<>> /\ trail'[1] = last /\ trail'[2] = target
    BY <2>1, <2>2, <2>3
  <2> HIDE DEF last
  <2>8. /\ Len(trail') = 2 /\ target < 16128 => wanted = last /\ result' = buffer
        /\ Len(trail') = 2 /\ ~(target < 16128) => wanted = target /\ result' = read
    BY <2>1, <2>7 DEF Wanted
  <2> HIDE DEF wanted
  <2>9. Len(trail') = 2 /\ Bus!Cell("ppu", wanted) \in DOMAIN flat
          => result' = flat[Bus!Cell("ppu", wanted)]
    BY <2>4, <2>5, <2>7, <2>8
  <2>10. trail' # <<>> /\ Bus!Cell("ppu", trail'[Len(trail')]) \in DOMAIN flat
           => buffer' = flat[Bus!Cell("ppu", trail'[Len(trail')])]
    BY <2>1, <2>4, <2>6
  <2>11. ReadInv'
    BY <2>1, <2>6, <2>9, <2>10, SameNames DEF ReadInv, S, wanted
  <2> QED BY <1>1, <2>1, <2>11, FlatKept
<1> QED BY <1>2, <1>3

(* A write through $2007 reaches the place that the game's address names.  *)
LEMMA FlatWriteData ==
  ASSUME BusInv, FlatInv, NEW write \in game.writes, Bus!WriteData(write[1], write[2])
  PROVE  FlatInv'
<1> DEFINE a == write[1]  val == write[2]  target == v % 16384
           place == IF target < 8192 THEN Bus!WritePlace(cart, target) ELSE Bus!DataPlace
           spot == Home(target)  cell == Bus!Cell("ppu", target)
           far == <<"prgRam", target>>
<1>1. Bus!Running /\ cart # Bus!NoCart
  BY DEF Bus!WriteData, Bus!Running
<1>2. CASE Bus!Panic(a, val)
  <2>1. UNCHANGED <<cart, memory, flat, trail, buffer, result>>
    BY <1>2 DEF Bus!Panic
  <2> QED BY <1>1, <2>1, FlatKept
<1>3. ASSUME ~Bus!Panic(a, val) PROVE FlatInv'
  <2>1. /\ Bus!CanWrite(cart, place)
        /\ memory' = IF place = Bus!Nowhere THEN memory ELSE Bus!With(memory, place, val)
        /\ flat' = IF target >= 8192 \/ Bus!HasChrRam THEN Bus!With(flat, cell, val) ELSE flat
        /\ trail' = <<>> /\ UNCHANGED cart
    BY <1>3 DEF Bus!WriteData
  <2>2. target \in Nat /\ target < 16384
    BY TargetIsPpu
  <2>3. cart' # Bus!NoCart'
    BY <1>1, <2>1 DEF Bus!NoCart
  <2>4. cart.mapper \in {"Nrom", "Uxrom", "Cnrom"} /\ cart.mirroring \in {"Vertical", "Horizontal"}
    BY <1>1 DEF BusInv, LoadedWell
  <2>5. spot # Bus!Nowhere
    BY DEF Home, Bus!Nowhere
  <2>6. CASE target >= 8192 \/ Bus!HasChrRam
    <3>1. place = spot
      <4>1. CASE target >= 8192
        BY <2>2, <4>1, PpuHomes DEF Bus!DataPlace
      <4>2. CASE target < 8192
        <5>1. cart.chrRam /\ cart.mapper \in {"Nrom", "Uxrom"}
          BY <2>2, <2>4, <2>6, <4>2 DEF Bus!HasChrRam
        <5> QED BY <4>2, <5>1 DEF Home, Bus!WritePlace
      <4> QED BY <2>2, <4>1, <4>2
    <3>2. memory' = Bus!With(memory, spot, val) /\ flat' = Bus!With(flat, cell, val)
      BY <2>1, <2>5, <2>6, <3>1
    <3>3. target < 8192 => Bus!HasChrRam
      BY <2>2, <2>6
    <3>4. \A b \in Nat : b < 16384 => (Home(b) = spot <=> Bus!Cell("ppu", b) = cell)
      BY <2>2, <2>4, CellsAreHomes
    <3>5. \A b \in Nat : b < 8192 /\ target >= 8192 => Bus!Cell("ppu", b) # cell
      BY <2>2, <2>4, HomesOfTiles, CellsAreHomes
    <3> HIDE DEF spot, target, place
    <3>6. ASSUME NEW b \in Nat, b < 16384, Bus!Cell("ppu", b) \in DOMAIN flat'
          PROVE  /\ b < 8192 => Bus!HasChrRam
                 /\ Home(b) \in DOMAIN memory'
                 /\ memory'[Home(b)] = flat'[Bus!Cell("ppu", b)]
      <4> DEFINE here == Home(b)  there == Bus!Cell("ppu", b)
      <4>1. there \in DOMAIN flat
              => /\ b < 8192 => Bus!HasChrRam
                 /\ here \in DOMAIN memory /\ memory[here] = flat[there]
        BY <3>6 DEF FlatInv, FlatPpu
      <4>2. here = spot <=> there = cell
        BY <3>4, <3>6
      <4>3. there \in DOMAIN Bus!With(flat, cell, val)
        BY <3>2, <3>6
      <4>4. there = cell /\ b < 8192 => Bus!HasChrRam
        BY <2>2, <3>3, <3>5
      <4> HIDE DEF here, there, cell
      <4>5. b < 8192 => Bus!HasChrRam
        BY <4>1, <4>3, <4>4, Stored
      <4>6. /\ here \in DOMAIN Bus!With(memory, spot, val)
            /\ Bus!With(memory, spot, val)[here] = Bus!With(flat, cell, val)[there]
        BY <4>1, <4>2, <4>3, StoredTwice
      <4>7. here \in DOMAIN memory' /\ memory'[here] = flat'[there]
        BY <3>2, <4>6 DEF cell
      <4> QED BY <4>5, <4>7 DEF here, there
    <3>7. FlatPpu'
      BY <2>1, <3>6, SameNames DEF FlatPpu
    <3>8. ASSUME NEW b \in Nat, b < 8192, Bus!Cell("cpu", b) \in DOMAIN flat'
          PROVE  /\ <<"ram", b % 2048>> \in DOMAIN memory'
                 /\ memory'[<<"ram", b % 2048>>] = flat'[Bus!Cell("cpu", b)]
      <4> DEFINE j == b % 2048  here == <<"ram", j>>  there == Bus!Cell("cpu", b)
      <4>1. there \in DOMAIN flat => here \in DOMAIN memory /\ memory[here] = flat[there]
        BY <3>8 DEF FlatInv, FlatRam
      <4>2. there # cell
        <5>1. there = <<"cpu", j>>
          BY DEF Bus!Cell
        <5> HIDE DEF there, j
        <5> QED BY <2>2, <5>1, PpuCellsArePpu DEF target
      <4>3. here # spot
        BY ApartFromHomes DEF spot
      <4>4. there \in DOMAIN Bus!With(flat, cell, val)
        BY <3>2, <3>8
      <4> HIDE DEF here, there, cell
      <4>5. /\ here \in DOMAIN Bus!With(memory, spot, val)
            /\ Bus!With(memory, spot, val)[here] = Bus!With(flat, cell, val)[there]
        BY <4>1, <4>2, <4>3, <4>4, StoredTwice
      <4>6. here \in DOMAIN memory' /\ memory'[here] = flat'[there]
        BY <3>2, <4>5 DEF cell
      <4> QED BY <4>6 DEF here, there, j
    <3>9. FlatRam'
      BY <2>1, <3>8, SameNames DEF FlatRam
    <3> QED BY <2>1, <2>3, <3>7, <3>9, NoReads DEF FlatInv
  <2>7. CASE ~(target >= 8192 \/ Bus!HasChrRam)
    <3>1. flat' = flat /\ target < 8192
      BY <2>1, <2>2, <2>7
    <3>2. place = Bus!Nowhere \/ place = far
      <4>1. ~(cart.chrRam /\ cart.mapper # "Cnrom")
        BY <2>7 DEF Bus!HasChrRam
      <4>2. place = Bus!WritePlace(cart, target)
        BY <3>1
      <4>3. place # <<"chr", target>> \/ cart.chrRam
        BY <2>1 DEF Bus!CanWrite
      <4> HIDE DEF place
      <4> QED BY <2>4, <3>1, <4>1, <4>2, <4>3 DEF Bus!WritePlace
    <3>3. memory' = memory \/ memory' = Bus!With(memory, far, val)
      BY <2>1, <3>2
    <3>4. \A b : Home(b) # far /\ (\A i : <<"ram", i>> # far)
      <4> TAKE b
      <4>1. Home(b) # far
        BY ApartFromHomes
      <4>2. \A i : <<"ram", i>> # far
        OBVIOUS
      <4> QED BY <4>1, <4>2
    <3> HIDE DEF far, target
    <3>5. \A other : other \in DOMAIN memory /\ other # far
            => other \in DOMAIN memory' /\ memory'[other] = memory[other]
      BY <3>3, Stored
    <3>6. FlatPpu'
      BY <2>1, <3>1, <3>4, <3>5, SameNames DEF FlatInv, FlatPpu
    <3>7. FlatRam'
      BY <2>1, <3>1, <3>4, <3>5, SameNames DEF FlatInv, FlatRam
    <3> QED BY <2>1, <2>3, <3>6, <3>7, NoReads DEF FlatInv
  <2> QED BY <2>6, <2>7
<1> QED BY <1>2, <1>3

LEMMA FlatStep == BusInv /\ FlatInv /\ [Bus!BusNext]_busVars => FlatInv'
<1> SUFFICES ASSUME BusInv, FlatInv, [Bus!BusNext]_busVars PROVE FlatInv'
  OBVIOUS
<1>1. CASE Bus!Insert
  BY <1>1, NothingWritten DEF Bus!Insert, Bus!history, FlatInv
<1>2. ASSUME NEW a \in game.reads, Bus!ReadMemory(a) PROVE FlatInv'
  <2>1. UNCHANGED <<cart, memory, flat, trail, buffer, result>> /\ cart # Bus!NoCart
    BY <1>2 DEF Bus!ReadMemory, Bus!Panic, Bus!history, Bus!Running
  <2> QED BY <2>1, FlatKept
<1>3. ASSUME NEW a \in game.reads, Bus!ReadStatus(a) PROVE FlatInv'
  <2>1. UNCHANGED <<cart, memory, flat, trail, buffer, result>> /\ cart # Bus!NoCart
    BY <1>3 DEF Bus!ReadStatus, Bus!history, Bus!Running
  <2> QED BY <2>1, FlatKept
<1>4. ASSUME NEW write \in game.writes, Bus!WriteAddress(write[1], write[2]) PROVE FlatInv'
  <2>1. UNCHANGED <<cart, memory, flat>> /\ trail' = <<>> /\ cart # Bus!NoCart
    BY <1>4 DEF Bus!WriteAddress, Bus!Running
  <2> QED BY <2>1, FlatKept, NoReads
<1>5. ASSUME NEW write \in game.writes,
             Bus!WriteControl(write[1], write[2]) \/ Bus!WriteOam(write[1], write[2])
               \/ Bus!WriteDma(write[1], write[2])
      PROVE  FlatInv'
  <2>1. UNCHANGED <<cart, memory, flat, trail, buffer, result>> /\ cart # Bus!NoCart
    BY <1>5 DEF Bus!WriteControl, Bus!WriteOam, Bus!WriteDma, Bus!Panic, Bus!history,
       Bus!Running
  <2> QED BY <2>1, FlatKept
<1>6. CASE UNCHANGED busVars
  <2>1. UNCHANGED <<cart, memory, flat, trail, buffer, result>>
    BY <1>6 DEF busVars
  <2>2. CASE cart # Bus!NoCart
    BY <2>1, <2>2, FlatKept
  <2>3. CASE cart = Bus!NoCart
    BY <2>1, <2>3, NothingWritten DEF FlatInv
  <2> QED BY <2>2, <2>3
<1> QED BY <1>1, <1>2, <1>3, <1>4, <1>5, <1>6, FlatWrite, FlatReadData, FlatWriteData
        DEF Bus!BusNext

LEMMA FlatInvariant == BoardSpec => []FlatInv
<1>1. BusInv /\ FlatInv /\ [Game]_boardVars => FlatInv'
  <2>1. [Game]_boardVars => [Bus!BusNext]_busVars
    BY DEF Game, boardVars
  <2> QED BY <2>1, FlatStep
<1> QED BY FlatStart, BusInvariant, <1>1, PTL DEF BoardSpec

(* Every byte of RAM, of a nametable, of CHR RAM and of the palette that a *)
(* game wrote is at each of its mirrors, whatever else it wrote and which- *)
(* ever bank it selected (nesbus.rs, vram.rs, palette.rs).                 *)
THEOREM MirrorsAgree == BoardSpec => []MemoryIsFlat
BY FlatMeans, BusInvariant, FlatInvariant, PTL

(* $2007 gives out the byte before, and the palette at once, whatever the  *)
(* game did between the reads (recv and read_data of ppu.rs).              *)
THEOREM BufferIsOneByteLate == BoardSpec => []SecondReadIsFirstCell
BY FlatMeans, BusInvariant, FlatInvariant, PTL
=============================================================================
