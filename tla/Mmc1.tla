-------------------------------- MODULE Mmc1 --------------------------------
(***************************************************************************)
(* The MMC1 mapper (nes/src/mappers/mmc1.rs): a game writes its registers  *)
(* one bit at a time through a shift register; the address of the fifth    *)
(* write chooses the register.  RAM contents are left out; a read is the   *)
(* bank it goes to.                                                        *)
(***************************************************************************)
EXTENDS Naturals, Sequences

CONSTANTS Values,  \* the values of five bits that the game writes
          PrgBanks \* prg_rom_bank_num, 16 KB each

VARIABLES
  prgMode,    \* prg_rom_bank_mode
  chrMode,    \* chr_rom_bank_mode
  selectedPrg, selectedChr0, selectedChr1,
  mirroring,  \* mirroring: kept here, and read by nobody
  shift,      \* shift_register
  writes,     \* num_shift_writes
  bits        \* history: the bits written since the last reset

regs == <<prgMode, chrMode, selectedPrg, selectedChr0, selectedChr1, mirroring>>
vars == <<regs, shift, writes, bits>>

Registers == {"Control", "Chr0", "Chr1", "Prg"}

PrgModes == {"Switch32Kb", "FixFirstLowerSwitchUpper", "FixLastUpperSwitchLower"}
ChrModes == {"Switch8Kb", "SwitchTwo4KbBanks"}
Mirrorings == {"SingleScreenLower", "SingleScreenUpper", "Vertical", "Horizontal"}

Init ==
  /\ prgMode = "FixLastUpperSwitchLower" /\ chrMode = "Switch8Kb"
  /\ selectedPrg = 0 /\ selectedChr0 = 0 /\ selectedChr1 = 0
  /\ mirroring \in {"Horizontal", "Vertical"}
  /\ shift = 0 /\ writes = 0 /\ bits = <<>>

-----------------------------------------------------------------------------
(* Definitions marked "Mutant" are variants a bug in the code would make:   *)
(* Spec does not use them, each of them breaks a property of the runs.     *)

(* The fifth write *)

PrgModeOf(val) ==
  CASE (val \div 4) % 4 \in {0, 1} -> "Switch32Kb"
    [] (val \div 4) % 4 = 2 -> "FixFirstLowerSwitchUpper"
    [] (val \div 4) % 4 = 3 -> "FixLastUpperSwitchLower"

MirroringOf(val) ==
  CASE val % 4 = 0 -> "SingleScreenLower"
    [] val % 4 = 1 -> "SingleScreenUpper"
    [] val % 4 = 2 -> "Vertical"
    [] val % 4 = 3 -> "Horizontal"

UpdateControlRegister(val) ==
  /\ mirroring' = MirroringOf(val)
  /\ chrMode' = IF val \div 16 = 0 THEN "Switch8Kb" ELSE "SwitchTwo4KbBanks"
  /\ prgMode' = PrgModeOf(val)
  /\ UNCHANGED <<selectedPrg, selectedChr0, selectedChr1>>

SwitchLowerChrBank(val) ==
  /\ selectedChr0' = IF chrMode = "Switch8Kb" THEN val \div 2 ELSE val
  /\ UNCHANGED <<prgMode, chrMode, selectedPrg, selectedChr1, mirroring>>

(* Ignored in 8 KB mode.                                                   *)
SwitchUpperChrBank(val) ==
  /\ selectedChr1' = IF chrMode = "Switch8Kb" THEN selectedChr1 ELSE val
  /\ UNCHANGED <<prgMode, chrMode, selectedPrg, selectedChr0, mirroring>>

SwitchPrgBank(val) ==
  /\ selectedPrg' = val % 16
  /\ UNCHANGED <<prgMode, chrMode, selectedChr0, selectedChr1, mirroring>>

Load(register, val) ==
  \/ register = "Control" /\ UpdateControlRegister(val)
  \/ register = "Chr0" /\ SwitchLowerChrBank(val)
  \/ register = "Chr1" /\ SwitchUpperChrBank(val)
  \/ register = "Prg" /\ SwitchPrgBank(val)

-----------------------------------------------------------------------------
(* write_to_shift_register() *)

ResetShiftRegister == shift' = 0 /\ writes' = 0 /\ bits' = <<>>

(* A value with bit 7 set.                                                 *)
WriteReset ==
  /\ ResetShiftRegister
  /\ UNCHANGED regs

(* Lowest bit first: a new bit comes in at the top.                        *)
Shifted(bit) == (shift \div 2) + 16 * bit

(* Mutant: the register is written by the bit after the fifth.             *)
WriteBitLate(register, bit) ==
  \/ /\ writes < 5
     /\ shift' = Shifted(bit) /\ writes' = writes + 1
     /\ bits' = Append(bits, bit)
     /\ UNCHANGED regs
  \/ /\ writes = 5
     /\ Load(register, Shifted(bit))
     /\ ResetShiftRegister

WriteBit(register, bit) ==
  \/ /\ writes < 4
     /\ shift' = Shifted(bit) /\ writes' = writes + 1
     /\ bits' = Append(bits, bit)
     /\ UNCHANGED regs
  \/ /\ writes = 4
     /\ Load(register, Shifted(bit))
     /\ ResetShiftRegister

-----------------------------------------------------------------------------
(* The bits written so far and this one begin one of the game's values.    *)
Continues(bit) ==
  \E val \in Values : \A i \in 1..(Len(bits) + 1) :
    Append(bits, bit)[i] = (val \div 2^(i - 1)) % 2

Next ==
  \/ WriteReset
  \/ \E register \in Registers, bit \in {0, 1} :
       Continues(bit) /\ WriteBit(register, bit)

Spec == Init /\ [][Next]_vars

-----------------------------------------------------------------------------
(* Reads: the bank that a window of the address space shows *)

LowerPrgBank ==
  CASE prgMode = "Switch32Kb" -> selectedPrg \div 2
    [] prgMode = "FixFirstLowerSwitchUpper" -> 0
    [] prgMode = "FixLastUpperSwitchLower" -> selectedPrg

UpperPrgBank ==
  CASE prgMode = "Switch32Kb" -> selectedPrg \div 2 + 1
    [] prgMode = "FixFirstLowerSwitchUpper" -> selectedPrg
    [] prgMode = "FixLastUpperSwitchLower" -> PrgBanks - 1

LowerChrBank == selectedChr0
UpperChrBank == IF chrMode = "Switch8Kb" THEN selectedChr0 + 1 ELSE selectedChr1

-----------------------------------------------------------------------------
(* Properties *)

(* The variables hold values of the code's types.                          *)
TypeOK ==
  /\ prgMode \in PrgModes /\ chrMode \in ChrModes
  /\ selectedPrg \in 0..15
  /\ selectedChr0 \in 0..31 /\ selectedChr1 \in 0..31
  /\ mirroring \in Mirrorings
  /\ shift \in 0..31 /\ writes \in 0..4
  /\ bits \in Seq({0, 1})

(* The shift register holds exactly the bits written since it was reset,   *)
(* the first of them lowest, and nothing of what was shifted before.       *)
ShiftHoldsBits ==
  /\ Len(bits) = writes
  /\ shift % 2^(5 - writes) = 0
  /\ \A i \in 1..writes : (shift \div 2^(4 - writes + i)) % 2 = bits[i]

(* The value of the four bits written so far, and of a fifth.              *)
Value(bit) == bits[1] + 2 * bits[2] + 4 * bits[3] + 8 * bits[4] + 16 * bit

(* A register changes only with a fifth bit, and gets the five bits since  *)
(* the last reset whole: what was written before a reset or for another    *)
(* register never shows.  The CHR banks are taken in the unit of the mode  *)
(* at that time, and in 8 KB mode the upper one stays.                     *)
RegistersGetWholeValues ==
  [][/\ regs' # regs => Len(bits) = 4
     /\ selectedPrg' # selectedPrg => selectedPrg' = Value(0)
     /\ mirroring' # mirroring => mirroring' = MirroringOf(Value(0))
     /\ prgMode' # prgMode => prgMode' = PrgModeOf(Value(0))
     /\ selectedChr0' # selectedChr0 =>
          \E bit \in {0, 1} :
            selectedChr0' = IF chrMode = "Switch8Kb" THEN Value(bit) \div 2
                            ELSE Value(bit)
     /\ selectedChr1' # selectedChr1 =>
          /\ chrMode # "Switch8Kb"
          /\ \E bit \in {0, 1} : selectedChr1' = Value(bit)]_vars

(* "Switch32Kb" (mmc1.rs:12): the two windows show the halves of one of    *)
(* the 32 KB banks, an even bank and the one after it.  The code shifts    *)
(* the bank number down without shifting it up again.                      *)
Switches32Kb ==
  prgMode = "Switch32Kb" => /\ LowerPrgBank % 2 = 0
                            /\ UpperPrgBank = LowerPrgBank + 1
=============================================================================
