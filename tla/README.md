# A TLA+ model of the DamCTF 2023 services

This directory holds TLA+ specifications of programs in this repository, the
TLC configurations that check them on small instances, and TLAPS proofs of
theorems that hold for every instance. Paths below are relative to the
repository; `potatis/` stands for `binary/muffin-kicker/potatis/`.

## The system and its parts

The repository holds the challenges of a capture-the-flag contest. Most of its
code, and most of its state and concurrency, is *potatis*: a NES emulator in
Rust with several front ends, one of which is a cloud server that plays games in
terminals. Beside it stand small network services, of which three keep enough
state to be worth a model.

| Part | State | Operations | Interacts with | What is hard |
|---|---|---|---|---|
| nes-cloud server (`nes-cloud/src/server`) | list of players, event queue, children, sockets | accept, admit, refuse, spawn, reap, forget | instances (fork/exec, exit), players (sockets) | two accept threads, a waiter per child, a list that lags behind the processes |
| nes-cloud instance (`nes-cloud/src/instance/main.rs`, `io.rs`) | two threads, a channel of bytes, counters | greet, receive, render, poll, end | server (inherited socket), emulator | read timeout, blocked writes, one thread ending before the other |
| host platform and joypad (`host.rs`, `nes/src/joypad.rs`) | pressed, pending and latched buttons | poll, press, release, strobe, read | channel, game | a terminal has no key releases; frames and serial reads interleave |
| PPU clock (`ppu/state.rs`, `ppu/ppu.rs`, `nes.rs`) | dot clock, vblank flag, events | tick, status read, register writes, DMA | CPU, mapper, host | events between instructions, DMA, odd frames |
| PPU scroll registers (`ppu/ppu.rs`) | v, t, fine_x, w_latch | $2000, $2002, $2005-$2007, line steps | game, renderer | half-written pairs, masks, widths |
| sprites and fetches (`ppu/ppu.rs`) | OAM, the line's sprites, two flags | choose, draw, masks, DMA | PPU clock, game | what was chosen a line earlier, limits, edges |
| bus, PPU memory (`nesbus.rs`, `ppu/vram.rs`, `ppu/palette.rs`) | RAM, VRAM, palette, read buffer | reads, writes, DMA | CPU, board | mirrors, the late $2007, a read inside of a write |
| cartridge, NROM, UxROM, CNROM (`cartridge.rs`, `mappers/`) | a bank number | load, read, write | bus | sizes and indices nobody compares |
| MMC3 (`mappers/mmc3.rs`) | bank registers, scanline counter, mirror map | register writes, `irq()` | game, PPU, CPU | counter written while it counts, callback |
| MMC1 (`mappers/mmc1.rs`) | shift register, bank registers | serial writes | game | five writes for one, resets in between |
| mos6502 (`mos6502/src`) | registers, flags, stack, memory | 256 opcode bytes, reset, NMI, IRQ | bus, `Nes::tick` | interrupts between instructions, flags, wrap-around |
| mos6502 debugger (`debugger.rs`) | breakpoints, backtrace, suspended | on_tick, keys | CPU, a terminal | sequences over a backtrace that is cut |
| front ends: SDL, WASM, Android, embedded | key state, threads or cores, frame buffers | poll, render, kill | the emulator's HostPlatform | none is reached, see *Not modelled* |
| hacky-halls | a maze, a session, an alarm | generate, receive, answer, time out | players | recursion, messages in pieces, one alarm |
| tcl-tac-toe | a page's board and signature; no server state | click, move, answer, dialog | browser, server | requests that overlap |
| thunderstruck | accounts in an external database | register, log in, log out | the Cortex | awaits between check and change |
| scm, baby-review, golden-banana, incharcerated, crypto, url-stored-notes, forget-me-not | a menu, a page or a puzzle each | - | one player | small and sequential |

`PROJECT.json` lists every part with its status, and under `hazards` what in
this code is hard to test, with the properties that watch over it.

potatis is in the repository twice, under `binary/muffin-kicker` and
`binary/interrupting-muffin-kicker`. The Rust sources of the two are identical
byte for byte, and every model of potatis is a model of both. An entry of
`map` names one file; where several definitions stand for the same lines, one
of them at least names the first copy and some name the second. Every
modelled line is named in the first copy. About 44% of the Rust lines of a
copy are modelled, of each to the same extent.

## Modules

Every module follows one source file or the part of it named in its head; the
`map` in `PROJECT.json` names the lines of each definition. Operators keep the
source's names. Definitions marked `Mutant` are what a plausible bug would make
of the definition that follows; no specification uses them.

**The cloud**

* **`CloudServer`** - `server.rs` and `runners/process.rs`. Variables are the
  state of each connection, the event queue (`events`, one action per producer),
  the list of clients and the children. `Accept`, `Full`, `Duplicate`,
  `Refuse`, `Spawn`, `Register`, `ClientDisconnected`, `Drop` follow the
  handlers of `Server::serve`; the main thread is one thread, so that `Spawn`
  and `Register` are two steps between which waiters may send. A child holds
  its own socket and whatever was inheritable when it was spawned.
  `MCCloudServer` gives clients addresses.
* **`SessionLimiter`** - what the server promises: sessions are admitted while
  there is room and the address is free, and end. `CloudServer` implements it
  when duplicates are blocked (`ImplementsLimiter`).
* **`CloudInstance`** - the process of one session: receiving thread,
  emulation thread, channel, socket with a bounded send buffer, greeting,
  transmission limit, read timeout.
* **`CloudHost`** (`MCCloudHost`) - `poll_events` with the pressed and the
  pending button, the joypad's latch and shift register, the game's reads.

**The PPU**

* **`PpuTiming`** - `State::next`, `Ppu::tick` with what happens at which dot,
  `Nes::tick` and its events, the instructions and sprite DMAs that tick the PPU.
  The frame's geometry is a set of constants, so that a small frame is checked
  and every frame is proved about.
* **`Words`** - Rust's `&`, `|` and `^` on words of 16 bits, from the digits of
  their hexadecimal notation. The community modules' bitwise operators are
  recursive, and nothing could be proved about what uses them.
* **`PpuScroll`**, **`ScrollFields`** - v and t as such words under the masks
  and shifts of `ppu.rs`, and what they stand for: records of coarse x and y,
  nametable and fine y. The first implements the second.
* **`PpuFetch`** - the addresses that a background dot and a sprite row are
  fetched from, as functions of the registers; no state.
* **`Sprites`** - `load_sprites_for_next_scanline` and `render_sprite_pixel`:
  which sprites a line has, which of their dots are opaque, and the flags
  sprite 0 hit and overflow. OAM and masks change between any two dots. The loop
  over OAM is `picked`, a function of how many entries it has seen.
* **`Ppu`** (`MCPpu`) - one specification of the three sides. They share
  `rendering` and the masks only, which each side lets change at any step; so
  one side at a time is watched, instead of the product of the three.

**Bus and boards**

* **`Cartridge`** - `Cartridge::load` on a header and a length, and for NROM,
  UxROM and CNROM the place in the cartridge that an address means.
* **`NesBus`** - `NesBus::map`, reads, writes and the DMA of `nesbus.rs`; behind
  the PPU's ports `vram.rs`, `palette.rs` and the read buffer. The
  address registers are an INSTANCE of `PpuScroll`, so that $2007 steps
  the same v. Beside `memory`, what is stored where, the history `flat` has what
  the game wrote to each address, mirrors taken together. A CNROM file without
  CHR ROM gets CHR RAM from `load` that no write reaches; it has no
  such history (`HasChrRam`). A panic is the state `panicked`.
* **`Mmc3`** - registers, scanline counter, windows; the PPU's mirror map,
  which the mapper changes through a callback. A panic is the state `crashed`.
* **`Mmc1`** - shift register, registers, windows.
* **`Mappers`** (`MCMappers`) - the board that `for_cart` makes, and a game on it.

**The CPU**

* **`Alu`** - the arithmetic with its flags, for any width.
* **`Instructions`** - the 256 opcode bytes with their address modes and cycles,
  written as families of bytes instead of one by one.
* **`Mos6502`** (`MCMos6502`) - address modes, every instruction, the stack,
  reset, NMI and IRQ. Beside the CPU that `Nes::tick` interrupts runs `main`,
  the same program uninterrupted, which steps when no handler runs. `frames`
  holds, for each running handler, the pc, registers and flags that it found.
  `Reads` and `Writes` are the cells that an instruction touches; `InOrder` says
  with them what a program and its handlers must keep to.
* **`Debugger`** - the CPU of a build with the feature `debugger`.

**The other services**

* **`HackyHalls`** - `create_maze` with its recursion as a path, the session
  with messages that arrive in pieces, the answers, and the alarm counted in
  seconds. Descriptions are asked for at any coordinates; where they reach no
  room the answer is memory or the process crashes, and where memory is
  overwritten the process is `lost` and followed no further.
* **`TclTacToe`** - the page with its requests, answers in any order or none, and
  delayed dialogs; beside it a script that posts any mark in any cell, as
  `tests/e.py` does; `update_board` as a function of what a request brings.
* **`Thunderstruck`** - `register_user` in four calls with other handlers in
  between and a failure of any of them; login and logout.
* **`Services`** (`MCServices`) - one of the three programs, chosen at the start.

**Proofs**: `CloudServer_proofs`, `CloudHost_proofs`, `CloudInstance_proofs`,
`Words_proofs`, `Ppu_proofs` (of `PpuTiming`, `PpuFetch`, `Sprites`, `PpuScroll`
and `Ppu`), `Mappers_proofs` (of `Mmc1`, `Mmc3`, `NesBus` and `Mappers`),
`Debugger_proofs` (of `Alu`, `Mos6502` and `Debugger`), `Services_proofs`.

The models meet at assumptions that one makes and another discharges:
`CloudServer` assumes that an instance ends when its player is gone, which
`CloudInstance` shows (`EndsWhenPeerLeaves`); `CloudInstance` plays bytes one a
frame and `CloudHost` says what a byte does; `PpuTiming` calls the mapper at dot
260, which is `CountLine` of `Mmc3`, and steps v at dots 256, 257 and 280-304,
which are the rendering actions of `PpuScroll`; its events are the NMIs and
IRQs that come between two instructions of `Mos6502`.

## Runs

| Run | Question | Result |
|---|---|---|
| `server_dup` | Are list, children, events and sockets consistent in every interleaving, with duplicates blocked? | holds; implements `SessionLimiter` |
| `server_live` | As the challenge deploys it: is every client answered, every slot freed? | holds |
| `server_nodup` | Does the limit on sessions hold without blocking duplicates? | **violated**: entries are removed by address |
| `host` | Does each key become one press, in order, read whole? | holds |
| `instance` | Are the transmission limit, the played input and the timeout right, and does a session end when a player who may have stopped reading leaves? Where may a session of a silent player stay? | holds; it stays in a blocked write only |
| `ppu` | Is each vblank outside a DMA rendered once, each IRQ delivered once, each vblank seen by polling? Do v and t hold the fields the game means? Does the overflow flag say exactly that a line has too many sprites, the sprite 0 hit flag exactly that a line's leading sprite met the background? | holds |
| `mappers` | NROM, UxROM and CNROM behind the bus, MMC1 and MMC3 beside it: do mirrors agree, is $2007 one byte late, what can end the emulator? Does an IRQ come after a whole count, do pairs stay pairs, does an MMC1 register get the five bits since the last reset? | holds |
| `mmc3_mirroring` | Does the PPU have the mirroring asked for? | **violated**: the way back to the header's is not told |
| `mmc1_32kb` | Does the 32 KB mode switch 32 KB banks? | **violated**: halves of two banks |
| `cpu` | Does a program notice interrupts? Are IRQs masked in handlers, sums exact, breakpoints kept? | holds |
| `cpu_overrun` | The same with an NMI before the RTI of the NMI handler | **violated**: the outer return is skipped |
| `services` | Are mazes perfect and idle players dropped, does the human win no game on the page before it is over, are moves refused only after overlapping clicks or failed requests, is a name promised once? | holds |

`RenderedOncePerVblank` and `IrqDeliveredOnce` are about events outside of a
sprite DMA, because the code drops those inside (`ppu.rs:471`).

`InterruptsAreTransparent` compares the CPU with `main` whenever no handler
runs: pc, registers, flags, and memory but for the handlers' own cells and the
dead part of the stack. In `cpu` one NMI, one IRQ or a reset falls between any
two instructions. In `cpu_overrun` a second NMI falls into the handler
of the first. Its two handlers end in the same RTI; if the second comes just
before it, the inner RTI leaves pc where it was, `execute` takes this for an
instruction that did not jump (`cpu.rs:440`) and goes on behind the RTI.

`InOrder` is the hypothesis under which this is a theorem, and no property of a
run. TLC confirms that the program and the handlers of `cpu` keep to it in all
38400 states, when `InOrder` is added to the PROPERTIES of `MCMos6502.cfg` (the
run takes about a minute); with `MCMos6502_overrun.cfg` TLC finds it broken, by
that return to the handler's own RTI.

`PanicsAreKnown` lists all that ends the emulator on the simple boards: a file
shorter than its header says, a DMA from the PPU's registers, a bank or an
area that is not there.

### Bounds

* Server: four connections from three addresses (two of one address) for two
  slots: enough for a duplicate, a refusal and an admission at the limit while
  another session ends. The liveness run has three connections and one accept
  error. Every connection happens once; a player who comes back is another.
* Host: two buttons, a key without one, four keys: enough for a repeated key
  with another behind it. Instance: four bytes, three frames of transmission,
  a send buffer of two.
* PPU clock: lines of 18 dots, two visible and two blank, with the IRQ dot
  inside; instructions of one or three cycles, a DMA of four. A DMA then spans
  most of a line but never a vblank, as with the real sizes.
* Scroll: bytes 0 and 255 to $2005, 175 to $2006 (rows 0, 29 and 31, fine y 0
  and 7), both increments, one step of v between two loads (`MaxWalk`), which can
  leave the 15 bits of the fields. Longer walks are the proof's; the wrap of the
  16th bit, where a debug build panics, is written in the model but not reached.
* Sprites: four lines of 5 dots, sprites of 2 by 2, 3 sprites and 2 on a line, so
  that one overflows, hangs over the right edge or the bottom, or is hidden;
  one of the backgrounds fills the first line, where the list of the frame before
  is drawn.
* Boards: eleven files, one or more per simple board and one per reason to
  refuse a file; a game reads and writes the addresses at the ends of windows
  and mirrors. Two bytes of memory are written in a run
  (`MaxCells`), since a mirror that is wrong shows with two. On the MMC3 four bytes select and set
  R0, R1, R3 and R6 in three of the four combinations of modes; latches 0 and
  2, so that a count is none or more than one. On the MMC1 four values reach
  every register, both units of the CHR banks and all modes of the PRG banks; a
  reset may come after any bit.
* CPU: one machine for each of the 256 opcode bytes, the additions and
  subtractions with 0, 1, 127, 128 and 255 on both sides and both carries, page
  crossings included; and a program with a loop, a subroutine and the stack
  under interrupts. The debugger: every subset of four breakpoints, a backtrace
  limit of 4 (11 in the code), a history one longer (`MaxTrace`).
* Services: a maze of 2 by 2 by 2 rooms (10 each in the code), in every order
  of the recursion, asked for again and again; a timeout of 2 seconds; four
  pieces of messages. Since a page was loaded two clicks that
  overlap another request, or requests that fail (`MaxAstray`), and two dialogs
  (`MaxDialogs`); one mark beside X, O and -. Three
  registrations of two names, one failing call.

### Deadlock and fairness

Deadlock is not checked where a system may stop: a server whose clients are all
served, a session that ended, an emulator that panicked, a CPU that jammed.
`mmc3_mirroring`, `mmc1_32kb` and `cpu_overrun` look for one violation each.

`server_live` assumes weak fairness of each thread of the server, because the
threads loop without conditions; that an instance ends once its player leaves
is assumed here and shown by `instance`. Players are not fair: they need
not leave. `host` assumes that frames
go on until Shutdown::Yes. In `CloudInstance` both threads are weakly fair and a
read ends by its timeout at the latest. A player who stays and never reads can
hold a session for ever, since the socket has no write timeout: therefore
`SilentPlayerDropped` says that a session of a silent player is over in the end
unless its emulation thread is in such a write (`WriteBlocked`), while
`EndsWhenPeerLeaves` has no exception. That render returns is
taken for granted in `host`. `HackyHalls` assumes
only that seconds pass (`WF(Second)`), that is, the kernel's timer:
neither the process nor the player need do anything for the alarm to end them.

## Proofs

All theorems are about the specifications above with their constants left
open, under the assumptions named there. What a reader of the proofs needs
first is the inductive invariant and why the property alone is not one.

The assumptions say what the code's types say, and TLC evaluates them in every
run: counts are naturals, bytes are below 256 (`ScrollAssumption`,
`GamesAssumption`, `CartridgeAssumption`, `MachinesAssumption`), OAM has an entry
and a sprite's opaque dots lie in its width (`SpritesAssumption`). Two are of
another kind: `GeometryAssumption` and `PaceAssumption` state the
proportions of the screen and of instructions that the code's numbers have; see
the PPU's events below.

* `CloudServer_proofs`: for any clients, addresses and limit, types; no leaked
  slot; and with duplicates blocked the session limit, one session per address
  and the refinement of `SessionLimiter`. The limit alone is not inductive:
  the list of clients is compared with, not the sessions that run. The invariant
  adds that every running session is in the list, about to be put there by the
  main thread, or already reported as ended, that the events of a session come
  in order, and that addresses in the list are distinct.
* `CloudHost_proofs`: for any keys and buttons, four results.
  `JoypadMirrors` and `PressesAreEdges`: `HostInv` adds that nothing is down
  while a press waits, which is what makes the delayed press an edge.
  `ReadsAreOfTheStrobe`: `ShiftInv` says what the shift register holds after each
  number of reads. `KeysArePlayedInOrder`: `OrderInv` says which typed key each
  press was: a key that was taken has its place in the presses by its rank among
  those that have a button, and the channel holds the rest of what was typed.
* `CloudInstance_proofs`: types; frames sent never exceed the limit
  (`LimitIsKept`); a session that was neither cut by its limit nor by a failed
  write ends only when all it received was played (`InputIsPlayed`). `SessionInv`
  adds what the emulation thread knows at each of its places: it renders only while it is
  alive and below the limit, and only the frame that reaches the limit kills it.
* `Ppu_proofs`, clock: types; and a defect, for every geometry: `State::next`
  means to skip a dot of odd frames (`state.rs:37`), but toggles `odd_frame` on
  every dot (line 45), so that it is the parity of the dot
  (`OddFrameIsDotParity`) and the dot is never skipped (`ShortFrameNeverComes`).
  The proof needs that a frame has an even number of dots and that the dot to
  skip is an even one (`Geometry`). The test of the short frame, `oven_odd_frames`
  (`nes/tests/blargg.rs:67`), is ignored as a "bad test".
* `Ppu_proofs`, events: each vblank outside a DMA is rendered once, each IRQ
  delivered once, and polling $2002 sees each vblank. `EventInv` relates
  the events that are pending to the dot: an event is raised on one dot only, it
  is pending until the instruction that raised it ends, and that instruction ends
  before the next such dot. The last needs `PaceAssumption`: an instruction with
  an interrupt ticks no more dots than a line has from its IRQ's dot on, and one
  that starts a DMA no more than the vertical blank has. In the code these are
  45 dots (15 cycles) of 82, and 1587 of 6820.
* `Ppu_proofs`, fetches: for every v, fine x and dot the background's addresses
  lie in the nametable and the pattern table; for every sprite that covers a line
  its row lies in the tile, flipped or not, and its address in the pattern table.
  These are the sums that a u8 or a u16 could overflow.
* `Words_proofs`, lemmas: each mask of `ppu.rs` keeps, sets or clears fields of a word
  and nothing else, as quotients and remainders. Digit by digit this is a statement
  about 16 values; carried to the word it is linear arithmetic, row by row of
  the layout of v (`WithRow`, `FieldsFrom`).
* `Ppu_proofs`, scroll registers: `WordsAreFields`, that `PpuScroll` implements
  `ScrollFields`, for all bytes written, every order of half-written pairs and
  whatever v has run to. `ScrollInv` is that v is a word and t one of 15
  bits: the masks that write t keep the sixteenth clear, while v may leave the 15
  bits and the fields do not see it. Each action is a lemma of its own.
* `Ppu_proofs`, sprites: for any screen, any number and size of sprites, in a
  frame in which the game changes nothing, `SpriteZeroHits` and `OverflowIsExact`.
  `FlagsSoFar` says what both flags are after the dots drawn so far, where the
  properties speak of the end of the frame, and that the sprites of a line start with
  the first that covers it (`Front`), those of line 0 with what the frame before
  left; only the first of a list counts as sprite 0 (`OnlyFirst`). What `picked` has after n entries (`PickedWell`) needs
  induction on n. The library's induction takes an operator, which is beyond the provers;
  the lemma `SetInduction` takes a set of numbers instead and follows from the
  well-foundedness of the naturals.
* `Ppu_proofs`, together: `PpuTypeCorrect`, of the three sides.
* `Mappers_proofs`, simple boards: for any files whose header is made of bytes and any
  game. `PanicsAreUnderstood`: `BusInv` holds what `load` guarantees of a
  cartridge that it accepts (`LoadedWell`), and that the access which ended the emulator is of a
  known kind (`Known`); from the sizes in `LoadedWell` every other access is inside of its
  array. `MirrorsAgree`: comparing two mirrors is not inductive, as one
  of them is written and the other read; the invariant `FlatInv` is that what the
  game wrote last to any mirror is at the one place of the address
  (`Home`), which no bank register moves. `BufferIsOneByteLate`: the
  buffer has the byte at the address read last (`ReadInv`), across increments,
  wraps of v and the palette, which does not pass through the buffer.
  `BoardTypeCorrect` is of whichever board is in.
* `Mappers_proofs`, MMC3: the counter plus the lines since it was loaded is what it was
  loaded with, inductive with the types of both; hence an IRQ comes after a whole
  count. `PairsAreWhole`: a pair of 1 KB windows shows one 2 KB bank in either mode,
  because R0 and R1 are even whenever they are stored and the register selected
  is one of eight (`BankInv`).
* `Mappers_proofs`, MMC1: the value of the shift register after each number of writes;
  read back bit by bit it is `ShiftHoldsBits`, and its fifth step is what the
  registers get (`WritesAreWhole`).
* `Debugger_proofs`, arithmetic: for every width, two operands and a carry, sums
  and differences are exact, the overflow flag is signed overflow, and the rotations
  undo each other. `SumsAreExact` takes this to the machine: whatever the
  program, ADC, SBC, USBC, RRA and ISC leave in A, carry and
  overflow what the sum of the byte they read, A and the carry was.
* `Debugger_proofs`, types: for any memory and any program, `TypeCorrect`. `IsCpu` is kept by
  every opcode: `LegalRow` says which address modes an instruction meets in the table of
  opcodes, shown family of rows by family of rows, so that no
  instruction asks for the address of an operand that is not in memory; then
  every handler keeps registers bytes, pc and addresses 16 bits wide, memory a function
  from addresses to bytes, whatever wraps at 8 or 16 bits.
  `DebuggerInv` adds that the history is one of opcodes.
* `Debugger_proofs`, `DebuggerStops`: the debugger stops before the next instruction whenever a
  breakpoint is reached. The backtrace that the code compares with is not the history:
  it is cut when it is full. `RecallInv` says that the two end
  alike for one opcode less than the limit; so the theorem has the hypothesis that
  sequences to break on are shorter than the limit (10 opcodes at most in the
  code). A longer one is never met; see below.
* `Debugger_proofs`, interrupts: for any program, any handlers, and NMIs, IRQs and resets
  between any two instructions, `TransparentIfInOrder` and `MaskedIfInOrder`. Both have
  the hypothesis `InOrder`, a condition on each step: the program reads no
  cell that a handler has changed and raises the stack over none; a
  handler writes to its own memory or below the three bytes that the interrupt pushed, neither
  CLI nor a PLP unmasks IRQs, and its RTI finds the registers and the stack as they were and
  does not return to itself; there are three bytes of stack for an interrupt, a nested
  one leaves what the first pushed; Reset finds undisturbed its vector and the stack that
  it comes to use. All but one of these are rules that programmers follow; that an
  RTI must not return to itself is not, and is the defect that `cpu_overrun` shows.
  The argument compares two CPUs. `EffectInStep`: if they
  differ only in cells that an instruction does not read (`Alike`), then after it they differ only in
  those of them that it did not write, and it changes no cell but
  those (`Kept`); shown for each family of opcodes and every address mode. `FlagsSurvive`: what
  RTI reads from the byte that was pushed are the flags that were pushed. The
  invariant `Nested`: each running handler's three bytes are on the stack,
  below those of the handler that it interrupted; all but the outermost are NMIs and
  found IRQs masked, and they are masked now; `main` is where the outermost interrupt fell; and memory differs
  only in the handlers' cells and below `main`'s stack. TLC confirmed `Nested` on the
  states of `cpu` before it was proved. The constants' one assumption here
  is that the stack is not the handlers' own memory (`HandlerMemoryAssumption`).
* `Services_proofs`, thunderstruck: a name is promised once, for any registrants. The
  invariant: who has come to the count has a view among the account's, and no
  view is ever taken away; so a count of 1 is for one of them only.
* `Services_proofs`, tcl-tac-toe: a waiting player's move is not refused
  (`WaitingPlayerIsNotRefused`). `PageInv` says of every request on its way and of every page
  that its previous board is the one that is signed, or that since the page was
  loaded clicks have overlapped or a request has failed.
* `Services_proofs`, tcl-tac-toe's computer: on the page the first game to end is not
  won by the human, shown without a search of the game's
  tree (`ComputerIsUnbeaten`). `GameInv`: as long as no game has ended, every
  board that is signed, the page's and those on their way, is `Guarded`: no line is
  complete and none lacks only one mark of the human. A click can then complete
  none, and the answer fills every cell that the click threatens, all at once,
  since the code's loop has no break. Requests that are answered in another order do not matter: the
  signature that each brings is guarded by itself.
* `Services_proofs`, hacky-halls: mazes of any width, depth and height are perfect:
  when the recursion is back at its start, all rooms are visited, and the open walls
  make a tree. `MazeInv`: all along, the
  gaps make a tree of the marked rooms around the first (one gap fewer than rooms, and
  all rooms reached), and a marked room that the recursion has left has no unmarked
  neighbour. So an empty path means that the marked rooms are closed
  under neighbours; an unmarked room nearest to the first would contradict that.
* `Services_proofs`, together: `TypeCorrect`, of whichever of the three programs runs.

Only model-checked are the liveness properties, because the prover has
neither fairness nor ENABLED. Of the passing runs these are
`EveryClientAnswered`, `SlotFreed`, `HangUpEnds`, `SilentPlayerDropped`,
`EndsWhenPeerLeaves` and `IdlePlayerDropped`; every
invariant and action property of theirs is a theorem, those of the debugger's stops
and of interrupts under the hypotheses named above. The bounds of the runs (`MaxCells`, `MaxWalk`, `MaxTrace`)
hide nothing of what is proved: the theorems hold for each value of them.

## What the models show beside the properties

* v can leave the 15 bits its declaration gives it (`inc_v` adds without a
  mask); the bit is never looked at.
* The mirroring an MMC1 game selects is stored and read by nobody
  (`mmc1.rs:126`): the PPU keeps the header's.
* "Sprite 0" is the first sprite found on a line (`ppu.rs:449`), not number 0:
  another sprite raises the flag on a line that sprite 0 is not on. The list made
  on the last visible line stays for line 0 of the next frame (`ppu.rs:258`) and
  can raise it there. `SpriteZeroHits` is exact about this sprite (`HitsOn`); that
  it should be number 0 fails.
* No frame is ever shorter than the others, although `state.rs:36-39` provides
  for it (`ShortFrameNeverComes`).
* A branch to itself falls through, as `cpu.rs:440` does to every
  instruction but JMP that leaves pc as it was. ANC and ALR never store into A.
* A breakpoint on a sequence as long as the backtrace's limit never matches.
* hacky-halls: the outer walls are to be solid "except for the entrance and
  exit" (`maze_generate.c:68`), but no opening is made. `-t 0` disables the
  alarm and with it `IdlePlayerDropped`.
* tcl-tac-toe: the computer may place several marks at once
  (`computer_make_move`, without a break), and a fork is answered this way; with
  one mark only `ComputerNeverLoses` fails. Clicks in the 250 ms before the
  page reloads go on with a finished game: three X beside the computer's three O
  are then answered with "Impossible! You won" (`check_win` takes the first line in
  its order, `app.tcl:145`). The page alone is held to `ComputerNeverLoses`: a
  script may put a mark other than X and O and then X over it, since `valid_move`
  takes such a cell for empty (`app.tcl:96`), and wins against "the unbeatable AI" as
  `tests/e.py:24` does; TLC finds this when `Unbeaten` is checked of `TttSpec`.
* hacky-halls: coordinates are not checked (`server.c:78`). Those outside of the maze
  name another room or memory behind the rooms, as `tests/e.py:47` asks for, and
  more than three numbers are written past the coordinates
  (`server_utils.c:53`); a process of the latter kind is `lost` to the model.
* thunderstruck: of two registrants of one name at once the second overwrites the
  first one's password (`thunderstruck.py:96`), whoever is then promised the name.
* thunderstruck: a registration that fails after its second call leaves an
  account without a view, whose name cannot be registered again.

## Not modelled

* Contents of ROM, colours, frames and messages; rendering of frames to text;
  logging; sleeping for the frame rate; the APU, which the bus answers with nothing.
* The front ends for SDL, WASM, Android and the embedded board. Each of them
  turns a frame into pixels with `RenderFrame::pixels_ntsc`, which is
  `unimplemented!()` in this commit (`nes/src/frame.rs:100`): they end
  with their first frame, before they poll an event. A model of what follows
  would be of a program that cannot run.
* The debugger's watches; PRG and CHR RAM of MMC1 and MMC3.
* hacky-halls' texts and encryption; thunderstruck's look-ups and administrator's page.
* The remaining challenges: sequential menus, stateless pages, one-line
  puzzles, and cryptography over numbers that TLC cannot enumerate.

What could follow: that a given handler is in order for whatever it
finds in the registers, so that `TransparentIfInOrder` needs no assumption about it;
the watches of the debugger; the RAM of MMC1 and MMC3.
