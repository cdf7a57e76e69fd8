-------------------------------- MODULE NesBus --------------------------------
(***************************************************************************)
(* What a game reaches through the CPU's bus (nes/src/nesbus.rs): RAM, the *)
(* cartridge, and through $2000-$2007 the PPU's own memory (ppu.rs,        *)
(* vram.rs, palette.rs), which $2007 reads one byte late.  Mirrors map     *)
(* many addresses to one place.  The registers that take part in scrolling *)
(* are those of PpuScroll.  A panic ends the emulator.                     *)
(***************************************************************************)
EXTENDS Cartridge, FiniteSets, Sequences

CONSTANTS
  Games, \* cartridge files, with the addresses that the program reads
         \* and the pairs of an address and a byte that it writes
  PpuAddresses, \* addresses of the PPU's memory that are compared
  OamCells, \* bound: the bytes of OAM that are watched, and written one by one
  MaxWalk, \* bound: accesses of $2007 between two addresses
  MaxCells \* bound: bytes of memory that are written in a run

VARIABLES
  game, cart, \* the file and its program, the cartridge when it is in
  bank, \* bank, selected_bank of the board
  memory, \* every byte of RAM, VRAM and palette that was written, by place
  oam, oamAddress, \* oam (the watched bytes), oam_address
  buffer, \* data_buffer
  result, \* what the last read of $2007 returned
  panicked,
  v, t, fineX, wLatch, addrInc, rendering, walk, \* those of PpuScroll
  access, \* history: the address and the byte of the access that panicked
  flat, \* history: what the game wrote last, by the console's memory map
  trail \* history: the PPU addresses read since the last was set

scroll == <<v, t, fineX, wLatch, addrInc, rendering, walk>>
history == <<access, flat, trail>>
busVars == <<game, cart, bank, memory, oam, oamAddress, buffer, result, panicked,
             scroll, history>>

Registers == INSTANCE PpuScroll WITH
  ControlValues <- {}, MaskValues <- {}, ScrollValues <- {}, AddrValues <- {}

-----------------------------------------------------------------------------
(* Definitions marked "Mutant" are variants a bug in the code would make:   *)
(* Spec does not use them, each of them breaks a property of the runs.     *)

(* Palette::new, every fourth byte.                                        *)
BootPalette ==
  [cell \in {0, 4, 8, 12} |-> CASE cell = 0 -> 9 [] cell = 8 -> 8 [] OTHER -> 0]

(* A store in which a cell has been written.                               *)
With(store, cell, val) ==
  [c \in DOMAIN store \union {cell} |-> IF c = cell THEN val ELSE store[c]]

(* What a place holds: as written, or as it was at the start; a byte of    *)
(* ROM is its place in the file.                                           *)
Content(place) ==
  IF place \in DOMAIN memory THEN memory[place]
  ELSE CASE place[1] = "prg" -> place[2]
         [] place[1] = "chr" /\ ~cart.chrRam -> cart.prg + place[2]
         [] place[1] = "palette" /\ place[2] \in DOMAIN BootPalette ->
              BootPalette[place[2]]
         [] OTHER -> 0

(* NesBus::map.                                                            *)
map(address) ==
  IF address < \h2000 THEN <<"ram", address % \h800>>
  ELSE IF address < \h4000 THEN <<"ppu", address % 8>>
  ELSE IF address = \h4014 THEN <<"dma", 0>>
  ELSE IF address < \h4020 THEN <<"device", address>>
  ELSE <<"cartridge", address>>

(* What a read of the CPU finds; the other devices answer with nothing.    *)
CpuPlace(address) ==
  CASE map(address)[1] = "ram" -> map(address)
    [] map(address)[1] = "cartridge" -> Place(cart, bank, address)
    [] OTHER -> Nowhere

(* Vram: mirror_map and get_virtual_nametable_index.                       *)
MirrorMap ==
  IF cart.mirroring = "Horizontal" THEN <<0, 0, 1, 1>> ELSE <<0, 1, 0, 1>>
VramPlace(address) ==
  <<"vram", MirrorMap[((address \div 1024) % 4) + 1], address % 1024>>

(* Mutant: the first bytes of the sprite palettes are their own.           *)
PaletteCellUnmirrored(address) == address % 32

(* Palette::mirror, less $3F00.                                            *)
PaletteCell(address) ==
  LET cell == address % 32
  IN IF cell \in {16, 20, 24, 28} THEN cell - 16 ELSE cell

(* Where $2007 reads and writes; bits 14 and 15 of v are ignored.          *)
PpuPlace(address) ==
  IF address < \h2000 THEN Place(cart, bank, address)
  ELSE IF address < \h3f00 THEN VramPlace(address)
  ELSE <<"palette", PaletteCell(address)>>

DataPlace == PpuPlace(v % \h4000)

Panic(address, val) ==
  /\ panicked' = TRUE /\ access' = <<address, val>>
  /\ UNCHANGED <<game, cart, bank, memory, oam, oamAddress, buffer, result, scroll,
                 flat, trail>>

-----------------------------------------------------------------------------
(* The console's memory map, as the game sees it: for the properties.      *)

Cell(space, address) ==
  CASE space = "cpu" -> <<space, address % \h800>>
    [] space = "ppu" /\ address < \h2000 -> <<space, address>>
    [] space = "ppu" /\ address >= \h2000 /\ address < \h3f00 ->
         <<space, IF cart.mirroring = "Vertical" THEN \h2000 + (address % \h800)
                  ELSE \h2000 + (((address % \h1000) \div \h800) * \h400)
                       + (address % \h400)>>
    [] space = "ppu" /\ address >= \h3f00 ->
         <<space, IF address % 4 = 0 THEN \h3f00 + (address % 16)
                  ELSE \h3f00 + (address % 32)>>

(* The boards that the console has with RAM for tiles.  A CNROM file that  *)
(* declares no CHR ROM gets such a RAM from load, but none that its writes *)
(* would reach.                                                            *)
HasChrRam == cart.chrRam /\ cart.mapper # "Cnrom"

-----------------------------------------------------------------------------
(* Cartridge::load and Nes::insert, which reads the reset vector.          *)

NoCart == [mapper |-> "none"]

Insert ==
  /\ cart = NoCart /\ ~panicked /\ ~Rejected(game.file)
  /\ load(game.file).mapper \in {"Nrom", "Uxrom", "Cnrom"}
  /\ LET new == load(game.file)
     IN \/ /\ CanBuild(new) /\ InArea(new, Place(new, 0, \hfffc))
           /\ cart' = new /\ UNCHANGED panicked
        \/ /\ ~(CanBuild(new) /\ InArea(new, Place(new, 0, \hfffc)))
           /\ panicked' = TRUE /\ UNCHANGED cart
  /\ UNCHANGED <<game, bank, memory, oam, oamAddress, buffer, result, scroll, history>>

Running == cart # NoCart /\ ~panicked

ReadMemory(address) ==
  /\ Running /\ map(address)[1] \in {"ram", "cartridge"}
  /\ LET place == CpuPlace(address)
     IN IF InArea(cart, place)
        THEN UNCHANGED <<game, cart, bank, memory, oam, oamAddress, buffer, result,
                         panicked, scroll, history>>
        ELSE Panic(address, 0)

WriteMemory(address, val) ==
  /\ Running /\ map(address)[1] \in {"ram", "cartridge"}
  /\ LET place == IF map(address)[1] = "ram" THEN map(address)
                  ELSE WritePlace(cart, address)
     IN \/ /\ CanWrite(cart, place) /\ Cardinality(DOMAIN memory) < MaxCells
           /\ memory' = IF place = Nowhere THEN memory ELSE With(memory, place, val)
           /\ bank' = IF map(address)[1] = "ram" THEN bank
                      ELSE BankAfter(cart, bank, val, address)
           /\ flat' = IF address < \h2000 THEN With(flat, Cell("cpu", address), val)
                      ELSE flat
           /\ UNCHANGED <<game, cart, oam, oamAddress, buffer, result, panicked,
                          scroll, access, trail>>
        \/ ~CanWrite(cart, place) /\ Panic(address, val)

-----------------------------------------------------------------------------
(* The PPU's registers *)

(* Mutant: the palette is as late as the rest.                             *)
ReadDataAllBuffered(address) ==
  /\ Running /\ map(address) = <<"ppu", 7>>
  /\ InArea(cart, DataPlace)
  /\ result' = buffer
  /\ buffer' = Content(DataPlace)
  /\ Registers!Data2007
  /\ trail' = Append(trail, v % \h4000)
  /\ UNCHANGED <<game, cart, bank, memory, oam, oamAddress, panicked, access, flat>>

(* $2007: the byte that was read before, except from the palette.          *)
ReadData(address) ==
  /\ Running /\ map(address) = <<"ppu", 7>>
  /\ \/ /\ InArea(cart, DataPlace)
        /\ result' = IF v % \h4000 < \h3f00 THEN buffer ELSE Content(DataPlace)
        /\ buffer' = Content(DataPlace)
        /\ Registers!Data2007
        /\ trail' = Append(trail, v % \h4000)
        /\ UNCHANGED <<game, cart, bank, memory, oam, oamAddress, panicked, access, flat>>
     \/ ~InArea(cart, DataPlace) /\ Panic(address, 0)

WriteData(address, val) ==
  /\ Running /\ map(address) = <<"ppu", 7>>
  /\ LET target == v % \h4000
         place == IF target < \h2000 THEN WritePlace(cart, target) ELSE DataPlace
     IN \/ /\ CanWrite(cart, place) /\ Cardinality(DOMAIN memory) < MaxCells
           /\ memory' = IF place = Nowhere THEN memory ELSE With(memory, place, val)
           /\ flat' = IF target >= \h2000 \/ HasChrRam
                      THEN With(flat, Cell("ppu", target), val) ELSE flat
           /\ Registers!Data2007
           /\ trail' = <<>>
           /\ UNCHANGED <<game, cart, bank, oam, oamAddress, buffer, result, panicked,
                          access>>
        \/ ~CanWrite(cart, place) /\ Panic(address, val)

WriteAddress(address, val) ==
  /\ Running /\ map(address) = <<"ppu", 6>>
  /\ Registers!Addr2006(val)
  /\ trail' = <<>>
  /\ UNCHANGED <<game, cart, bank, memory, oam, oamAddress, buffer, result, panicked,
                 access, flat>>

WriteControl(address, val) ==
  /\ Running /\ map(address) = <<"ppu", 0>>
  /\ Registers!Ctrl2000(val)
  /\ UNCHANGED <<game, cart, bank, memory, oam, oamAddress, buffer, result, panicked,
                 history>>

ReadStatus(address) ==
  /\ Running /\ map(address) = <<"ppu", 2>>
  /\ Registers!Status2002
  /\ UNCHANGED <<game, cart, bank, memory, oam, oamAddress, buffer, result, panicked,
                 history>>

WriteOam(address, val) ==
  /\ Running /\ map(address) \in {<<"ppu", 3>>, <<"ppu", 4>>}
  /\ \/ /\ map(address)[2] = 3
        /\ oamAddress' = val /\ UNCHANGED oam
     \/ /\ map(address)[2] = 4 /\ oamAddress \in OamCells
        /\ oam' = [i \in OamCells |-> IF i = oamAddress THEN val ELSE oam[i]]
        /\ oamAddress' = (oamAddress + 1) % 256
  /\ UNCHANGED <<game, cart, bank, memory, buffer, result, panicked, scroll, history>>

(* $4014: a page of the CPU's memory, read while the PPU is borrowed.      *)
WriteDma(address, val) ==
  /\ Running /\ map(address)[1] = "dma"
  /\ LET Source(k) == CpuPlace((val * 256) + k)
     IN \/ /\ val \notin 32 .. 63
           /\ \A k \in {0, 255} : InArea(cart, Source(k))
           /\ oam' = [i \in OamCells |-> Content(Source((i - oamAddress) % 256))]
           /\ oamAddress' = 0
           /\ UNCHANGED <<game, cart, bank, memory, buffer, result, panicked, scroll,
                          history>>
        \/ /\ val \in 32 .. 63 \/ \E k \in {0, 255} : ~InArea(cart, Source(k))
           /\ Panic(address, val)

-----------------------------------------------------------------------------
BusInit ==
  /\ game \in Games /\ cart = NoCart
  /\ bank = 0 /\ memory = <<>>
  /\ oam = [i \in OamCells |-> 0] /\ oamAddress = 0
  /\ buffer = 0 /\ result = 0 /\ panicked = FALSE
  /\ Registers!Init
  /\ access = <<0, 0>> /\ flat = <<>> /\ trail = <<>>

BusNext ==
  \/ Insert
  \/ \E address \in game.reads :
       ReadMemory(address) \/ ReadData(address) \/ ReadStatus(address)
  \/ \E write \in game.writes :
       \/ WriteMemory(write[1], write[2]) \/ WriteData(write[1], write[2])
       \/ WriteAddress(write[1], write[2]) \/ WriteControl(write[1], write[2])
       \/ WriteOam(write[1], write[2]) \/ WriteDma(write[1], write[2])

BusSpec == BusInit /\ [][BusNext]_busVars

-----------------------------------------------------------------------------
(* Properties *)

BusTypeOK ==
  /\ bank \in 0 .. 255 /\ oamAddress \in 0 .. 255
  /\ panicked \in BOOLEAN
  /\ Registers!TypeOK

(* Mirrors of one cell agree: by whatever address the game wrote a byte of *)
(* RAM, of a nametable, of CHR RAM or of the palette, it is found at every *)
(* address at which the console has that byte, and nowhere else.           *)
MemoryIsFlat ==
  Running =>
    /\ \A address \in game.reads :
         (address < \h2000 /\ Cell("cpu", address) \in DOMAIN flat)
           => Content(CpuPlace(address)) = flat[Cell("cpu", address)]
    /\ \A address \in PpuAddresses : Cell("ppu", address) \in DOMAIN flat
         => Content(PpuPlace(address)) = flat[Cell("ppu", address)]

(* After the address is set, the second read of $2007 has the byte at that *)
(* address, the first one from the palette at once; both halves of the     *)
(* address, the read buffer and the increment play together in this.       *)
SecondReadIsFirstCell ==
  Len(trail) = 2 =>
    LET wanted == IF trail[2] < \h3f00 THEN trail[1] ELSE trail[2]
    IN ((wanted < \h3f00 <=> trail[2] < \h3f00) /\ Cell("ppu", wanted) \in DOMAIN flat)
         => result = flat[Cell("ppu", wanted)]

(* The header describes the file, and a board of its kind.                 *)
Sound ==
  /\ game.file.length >= HeaderSize + (game.file.prgBlocks * KB16) + (game.file.chrBlocks * KB8)
  /\ game.file.prgBlocks \in (IF MapperId(game.file) = 2 THEN 1 .. 255 ELSE {1, 2})

(* All that ends the emulator: a file that is shorter than its header      *)
(* says, a transfer from the PPU's registers, a bank that is not there, a  *)
(* write to the CHR ROM of a UxROM, and a CNROM of 16 KB or with accesses  *)
(* below its ROM.  An NROM game is safe but for the transfer.              *)
PanicsAreKnown ==
  panicked =>
    \/ ~Sound
    \/ access[1] = \h4014 /\ access[2] \in 32 .. 63
    \/ MapperId(game.file) = 2 /\ (bank >= game.file.prgBlocks \/ game.file.chrBlocks > 0)
    \/ MapperId(game.file) = 3 /\ (bank >= game.file.chrBlocks \/ game.file.prgBlocks = 1)
    \/ MapperId(game.file) = 3 /\ access[1] >= \h4020 /\ access[1] < \h8000
    \/ MapperId(game.file) = 3 /\ access[1] = \h4014 /\ access[2] \in \h40 .. \h7f
=============================================================================
