------------------------------- MODULE Cartridge -------------------------------
(***************************************************************************)
(* A cartridge file, what Cartridge::load makes of it (nes/src/            *)
(* cartridge.rs), and where the boards that only switch banks, NROM, UxROM *)
(* and CNROM (nes/src/mappers), look up an address.  A file is its header  *)
(* and its length: a byte of ROM is known by its place.                    *)
(***************************************************************************)
EXTENDS Integers

KB8 == 8192
KB16 == 16384
HeaderSize == 16

Bit(byte, n) == (byte \div 2^n) % 2

(* A file: [length, magic, prgBlocks, chrBlocks, flags6, flags7].          *)
MapperId(file) == ((file.flags7 \div 16) * 16) + (file.flags6 \div 16)

(* The errors of load.  The length is not compared with the blocks that    *)
(* the header declares.                                                    *)
Rejected(file) ==
  \/ file.length < HeaderSize + KB16 \/ ~file.magic
  \/ MapperId(file) > 4
  \/ Bit(file.flags6, 2) = 1 \/ Bit(file.flags6, 3) = 1

load(file) ==
  [mapper |-> CASE MapperId(file) = 0 -> "Nrom" [] MapperId(file) = 1 -> "Mmc1"
                [] MapperId(file) = 2 -> "Uxrom" [] MapperId(file) = 3 -> "Cnrom"
                [] MapperId(file) = 4 -> "Mmc3",
   mirroring |-> IF file.flags6 % 2 = 1 THEN "Vertical" ELSE "Horizontal",
   prg |-> file.prgBlocks * KB16,
   chr |-> IF file.chrBlocks = 0 THEN KB8 ELSE file.chrBlocks * KB8,
   chrRam |-> file.chrBlocks = 0,
   rom |-> file.length - HeaderSize]

-----------------------------------------------------------------------------
(* Definitions marked "Mutant" are variants a bug in the code would make:   *)
(* Spec does not use them, each of them breaks a property of the runs.     *)

(* The boards.  A place is an area and an index, which the access checks.  *)

Nowhere == <<"nowhere", 0>>

(* Mutant: a ROM of 16 KB is not found in the upper half.                  *)
NromPlaceUnmirrored(cart, address) ==
  IF address < \h2000 THEN <<"chr", address>>
  ELSE IF address < \h8000 THEN Nowhere
  ELSE <<"prg", address - \h8000>>

NromPlace(cart, address) ==
  IF address < \h2000 THEN <<"chr", address>>
  ELSE IF address < \h8000 THEN Nowhere
  ELSE IF address < \hc000 THEN <<"prg", address - \h8000>>
  ELSE <<"prg", address - \hc000 + (IF cart.prg = KB16 THEN 0 ELSE KB16)>>

UxromPlace(cart, bank, address) ==
  IF address < \h2000 THEN <<"chr", address>>
  ELSE IF address < \h8000 THEN Nowhere
  ELSE IF address < \hc000 THEN <<"prg", (bank * KB16) + address - \h8000>>
  ELSE <<"prg", cart.prg - KB16 + address - \hc000>>

(* A ROM of 16 KB is found in the upper half only.                         *)
CnromPlace(cart, bank, address) ==
  IF address < \h2000 THEN <<"chr", (bank * KB8) + address>>
  ELSE IF address < \h8000 THEN <<"prgRam", address>>
  ELSE <<"prg", address - \h8000 - (IF cart.prg = KB16 THEN KB16 ELSE 0)>>

Place(cart, bank, address) ==
  CASE cart.mapper = "Nrom" -> NromPlace(cart, address)
    [] cart.mapper = "Uxrom" -> UxromPlace(cart, bank, address)
    [] cart.mapper = "Cnrom" -> CnromPlace(cart, bank, address)

(* Cartridge's slices of the file, and the index into them; all that is    *)
(* not the cartridge's is as large as the addresses that lead there.       *)
InArea(cart, place) ==
  CASE place[1] = "prgRam" -> place[2] < KB8
    [] place[1] = "prg" -> cart.prg <= cart.rom /\ place[2] \in 0 .. cart.prg - 1
    [] place[1] = "chr" -> /\ cart.chrRam \/ cart.prg + cart.chr <= cart.rom
                           /\ place[2] < cart.chr
    [] OTHER -> TRUE

(* for_cart and the boards' new, which look at the whole of PRG ROM.       *)
CanBuild(cart) ==
  /\ cart.prg <= cart.rom
  /\ cart.mapper \in {"Nrom", "Cnrom"} => cart.prg \in {KB16, 2 * KB16}

(* Where a write is kept, Nowhere when it is not.                          *)
WritePlace(cart, address) ==
  CASE cart.mapper = "Nrom" ->
         IF address < \h2000 /\ cart.chrRam THEN <<"chr", address>> ELSE Nowhere
    [] cart.mapper = "Uxrom" -> IF address < \h2000 THEN <<"chr", address>> ELSE Nowhere
    [] cart.mapper = "Cnrom" -> IF address < \h8000 THEN <<"prgRam", address>> ELSE Nowhere

(* chr_ram() of a cartridge with CHR ROM is a panic.                       *)
CanWrite(cart, place) ==
  /\ place[1] = "chr" => cart.chrRam
  /\ InArea(cart, place)

(* The bank that a write selects.                                          *)
BankAfter(cart, bank, val, address) ==
  CASE cart.mapper = "Uxrom" /\ address >= \h8000 -> val
    [] cart.mapper = "Cnrom" /\ address >= \h8000 -> val % 4
    [] OTHER -> bank
=============================================================================
