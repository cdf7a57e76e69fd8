-------------------------------- MODULE Mmc3 --------------------------------
(***************************************************************************)
(* The MMC3 mapper (nes/src/mappers/mmc3.rs) and the nametable map of the  *)
(* PPU that it may change (nes/src/ppu/vram.rs): bank registers written in *)
(* two steps, a scanline counter that raises IRQs, and a mirroring that    *)
(* the mapper passes on through a callback.                                *)
(*                                                                         *)
(* A panic of the emulator is a state (crashed) in which nothing happens   *)
(* any more.  RAM contents are left out; a read is the bank it goes to.    *)
(***************************************************************************)
EXTENDS Naturals, Sequences

CONSTANTS PrgBanks, \* 8 KB banks of PRG ROM
          Header,   \* mirroring in the cartridge's header
          Values,   \* bytes written to the bank registers
          Latches   \* bytes written to the IRQ latch

Mirrorings == {"Horizontal", "Vertical"}

ASSUME CartridgeAssumption ==
  /\ PrgBanks \in Nat /\ PrgBanks > 1
  /\ Header \in Mirrorings
  /\ Values \subseteq 0..255 /\ Latches \subseteq 0..255

VARIABLES
  prgMode, chrMode, \* prg_rom_bank_mode, chr_rom_bank_mode
  registers,        \* R0 to R7
  selected,         \* register_to_update
  irqEnabled, latch, counter, reload, \* irq_enabled, irq_latch, ...
  mirrorMap,        \* Vram.mirror_map: the mirroring it was set up for
  crashed,
  asked,            \* history: the mirroring the game asked for last
  loaded,           \* history: what the counter was last loaded with
  since,            \* history: lines counted since
  pending           \* history: an IRQ was raised and not acknowledged

banks   == <<prgMode, chrMode, registers, selected>>
irqRegs == <<irqEnabled, latch, counter, reload>>
vram    == <<mirrorMap, asked>>
history == <<loaded, since, pending>>
vars    == <<banks, irqRegs, vram, crashed, history>>

Init ==
  /\ prgMode = 0 /\ chrMode = 0
  /\ registers = [r \in 0..7 |-> 0] /\ selected = 0
  /\ irqEnabled = FALSE /\ latch = 0 /\ counter = 0 /\ reload = FALSE
  /\ mirrorMap = Header /\ asked = Header
  /\ crashed = FALSE
  /\ loaded = 0 /\ since = 0 /\ pending = FALSE

-----------------------------------------------------------------------------
(* Definitions marked "Mutant" are variants a bug in the code would make:   *)
(* Spec does not use them, each of them breaks a property of the runs.     *)

(* Writes to $8000-$9FFF, even and odd *)

(* Mutant: the register's number keeps the bits of the modes.              *)
BankSelectUnmasked(val) ==
  /\ ~crashed
  /\ prgMode' = (val \div 64) % 2
  /\ chrMode' = val \div 128
  /\ selected' = val
  /\ UNCHANGED <<registers, irqRegs, vram, crashed, history>>

BankSelect(val) ==
  /\ ~crashed
  /\ prgMode' = (val \div 64) % 2
  /\ chrMode' = val \div 128
  /\ selected' = val % 8
  /\ UNCHANGED <<registers, irqRegs, vram, crashed, history>>

(* Mutant: R0 and R1 keep the bit that selects a half of their pair.       *)
MaskedTopOnly(r, val) == IF r \in {6, 7} THEN val % 64 ELSE val

(* R6 and R7 have six bits, R0 and R1 count in pairs.                      *)
Masked(r, val) ==
  CASE r \in {0, 1} -> val - (val % 2)
    [] r \in {6, 7} -> val % 64
    [] OTHER -> val

BankData(val) ==
  /\ ~crashed
  /\ registers' = [registers EXCEPT ![selected] = Masked(selected, val)]
  /\ UNCHANGED <<prgMode, chrMode, selected, irqRegs, vram, crashed, history>>

(* An even address in $A000-$BFFF: the callback is called when the new     *)
(* mirroring is not the header's.                                          *)
SetMirroring(new) ==
  /\ ~crashed
  /\ asked' = new
  /\ mirrorMap' = IF new # Header THEN new ELSE mirrorMap
  /\ UNCHANGED <<banks, irqRegs, crashed, history>>

-----------------------------------------------------------------------------
(* Writes to $C000-$FFFF *)

(* Mutant: the latch is written through to the counter.                    *)
SetLatchAtOnce(val) ==
  /\ ~crashed
  /\ latch' = val /\ counter' = val
  /\ UNCHANGED <<banks, irqEnabled, reload, vram, crashed, history>>

SetLatch(val) ==
  /\ ~crashed
  /\ latch' = val
  /\ UNCHANGED <<banks, irqEnabled, counter, reload, vram, crashed, history>>

SetReload ==
  /\ ~crashed
  /\ reload' = TRUE
  /\ UNCHANGED <<banks, irqEnabled, latch, counter, vram, crashed, history>>

(* $E000 disables and acknowledges, unless that is taken for a mistake of  *)
(* the emulator.                                                           *)
Acknowledge ==
  /\ ~crashed
  /\ \/ /\ irqEnabled /\ counter <= 1
        /\ crashed' = TRUE
        /\ UNCHANGED <<irqEnabled, pending>>
     \/ /\ ~(irqEnabled /\ counter <= 1)
        /\ irqEnabled' = FALSE /\ pending' = FALSE
        /\ UNCHANGED crashed
  /\ UNCHANGED <<banks, latch, counter, reload, vram, loaded, since>>

Enable ==
  /\ ~crashed
  /\ irqEnabled' = TRUE
  /\ UNCHANGED <<banks, latch, counter, reload, vram, crashed, history>>

-----------------------------------------------------------------------------
(* irq(): called by the PPU at dot 260 of a line *)

Load ==
  /\ counter' = latch
  /\ loaded' = latch /\ since' = 0

Raises == ~reload /\ counter = 0 /\ irqEnabled

CountLine ==
  /\ ~crashed
  /\ \/ (reload \/ counter = 0) /\ Load
     \/ /\ ~(reload \/ counter = 0)
        /\ counter' = counter - 1 /\ since' = since + 1
        /\ UNCHANGED loaded
  /\ reload' = FALSE
  /\ pending' = (pending \/ Raises)
  /\ UNCHANGED <<banks, irqEnabled, latch, vram, crashed>>

-----------------------------------------------------------------------------
Next ==
  \/ \E val \in Values : BankSelect(val) \/ BankData(val)
  \/ \E new \in Mirrorings : SetMirroring(new)
  \/ \E val \in Latches : SetLatch(val)
  \/ SetReload \/ Acknowledge \/ Enable
  \/ CountLine

Spec == Init /\ [][Next]_vars

-----------------------------------------------------------------------------
(* Reads: the bank that a window of the address space shows *)

(* The four 8 KB windows from $8000.                                       *)
PrgBank ==
  IF prgMode = 0
  THEN <<registers[6], registers[7], PrgBanks - 2, PrgBanks - 1>>
  ELSE <<PrgBanks - 2, registers[7], registers[6], PrgBanks - 1>>

OrOne(bank) == (bank + 1) - (bank % 2)

(* The eight 1 KB windows from $0000.                                      *)
Pairs   == <<registers[0], OrOne(registers[0]), registers[1], OrOne(registers[1])>>
Singles == <<registers[2], registers[3], registers[4], registers[5]>>

ChrBank == IF chrMode = 0 THEN Pairs \o Singles ELSE Singles \o Pairs

-----------------------------------------------------------------------------
(* Properties *)

(* The variables hold values of the code's types.                          *)
TypeOK ==
  /\ prgMode \in {0, 1} /\ chrMode \in {0, 1}
  /\ registers \in [0..7 -> 0..255] /\ selected \in 0..7
  /\ irqEnabled \in BOOLEAN /\ reload \in BOOLEAN
  /\ latch \in 0..255 /\ counter \in 0..255
  /\ mirrorMap \in Mirrorings /\ asked \in Mirrorings
  /\ crashed \in BOOLEAN
  /\ loaded \in 0..255 /\ since \in Nat /\ pending \in BOOLEAN

(* R0 and R1 select two kilobytes: wherever the mode puts a pair, it shows *)
(* an even bank and the one after it (the masking of write8 and the "| 1"  *)
(* of read_chr belong together).                                           *)
PairsAreTwoKb ==
  \A window \in IF chrMode = 0 THEN {1, 3} ELSE {5, 7} :
    /\ ChrBank[window] % 2 = 0
    /\ ChrBank[window + 1] = ChrBank[window] + 1

(* The counter has counted exactly the lines since it was loaded, whatever *)
(* the game wrote to the latch, the enable and the bank registers since.   *)
CounterCountsLines == counter + since = loaded

(* An IRQ is raised only after as many lines as the counter was loaded     *)
(* with: no write to the latch while it counts moves the IRQ.              *)
IrqAfterWholeCount == [][pending' /\ ~pending => since = loaded]_vars

(* "mirroring changed, no one to tell" (mmc3.rs:178): a changed mirroring  *)
(* is told to the PPU.  The code compares with the header's mirroring, not *)
(* with the current one, and never tells the PPU of the way back.          *)
MirroringAsAsked == mirrorMap = asked
=============================================================================
