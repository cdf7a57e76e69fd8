------------------------------- MODULE Mappers -------------------------------
(***************************************************************************)
(* The board that a cartridge gets (nes/src/mappers/mod.rs), for as long   *)
(* as it is in: MMC1 or MMC3, whose registers take more than one write, or *)
(* one of the simple boards, with the bus that leads to it.  The variables *)
(* of the others stay as they were at the start.                           *)
(***************************************************************************)
EXTENDS Mmc3

CONSTANTS
  SerialValues, \* what a game writes to the MMC1, five bits
  Games, PpuAddresses, OamCells, MaxWalk, MaxCells \* those of NesBus

(* Files whose header is made of bytes, and what a CPU can address.        *)
ASSUME GamesAssumption ==
  /\ Games # {}
  /\ \A some \in Games :
       /\ some.file \in [length : Nat, magic : BOOLEAN, prgBlocks : 0..255,
                         chrBlocks : 0..255, flags6 : 0..255, flags7 : 0..255]
       /\ some.reads \subseteq 0 .. (2^16 - 1)
       /\ \A write \in some.writes :
            write[1] \in 0 .. (2^16 - 1) /\ write[2] \in 0..255
  /\ PpuAddresses \subseteq 0 .. (2^14 - 1)
  /\ OamCells \subseteq 0..255 /\ MaxWalk \in Nat

VARIABLES
  board, \* MapperType of the cartridge, Simple for the boards of NesBus
  serialPrgMode, serialChrMode, serialPrg, serialChr0, serialChr1,
  serialMirroring, serialShift, serialWrites, serialBits, \* those of Mmc1
  game, cart, bank, memory, oam, oamAddress, buffer, result, panicked,
  v, t, fineX, wLatch, addrInc, rendering, walk, access, flat, trail

mmc1Vars == <<serialPrgMode, serialChrMode, serialPrg, serialChr0, serialChr1,
              serialMirroring, serialShift, serialWrites, serialBits>>
busVars == <<game, cart, bank, memory, oam, oamAddress, buffer, result, panicked,
             v, t, fineX, wLatch, addrInc, rendering, walk, access, flat, trail>>
boardVars == <<vars, mmc1Vars, busVars, board>>

Serial == INSTANCE Mmc1 WITH
  Values <- SerialValues,
  prgMode <- serialPrgMode, chrMode <- serialChrMode,
  selectedPrg <- serialPrg,
  selectedChr0 <- serialChr0, selectedChr1 <- serialChr1,
  mirroring <- serialMirroring,
  shift <- serialShift, writes <- serialWrites, bits <- serialBits

Bus == INSTANCE NesBus

for_cart ==
  /\ board \in {"Mmc1", "Mmc3", "Simple"}
  /\ Init /\ Serial!Init
  /\ Bus!BusInit
  /\ board # "Simple" => game = CHOOSE some \in Games : TRUE

Game ==
  /\ UNCHANGED board
  /\ \/ board = "Mmc1" /\ Serial!Next /\ UNCHANGED <<vars, busVars>>
     \/ board = "Mmc3" /\ Next /\ UNCHANGED <<mmc1Vars, busVars>>
     \/ board = "Simple" /\ Bus!BusNext /\ UNCHANGED <<vars, mmc1Vars>>

BoardSpec == for_cart /\ [][Game]_boardVars

-----------------------------------------------------------------------------
(* Properties: those of the boards *)

(* The variables of all boards hold values of the code's types.            *)
BoardTypeOK == TypeOK /\ Serial!TypeOK /\ Bus!BusTypeOK

(* An MMC1 register gets the five bits since the last reset whole.         *)
SerialWritesWhole == Serial!RegistersGetWholeValues

(* Every byte is found at all of its mirrors.                              *)
MemoryIsFlat == Bus!MemoryIsFlat

(* $2007 is one byte late, but for the palette.                            *)
SecondReadIsFirstCell == Bus!SecondReadIsFirstCell

(* A sound NROM game can end the emulator by a transfer only; what else    *)
(* ends it is a file, a board or a bank that is not what it should be.     *)
PanicsAreKnown == Bus!PanicsAreKnown
=============================================================================
