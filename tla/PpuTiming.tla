------------------------------ MODULE PpuTiming ------------------------------
(***************************************************************************)
(* The clock of the emulated NES: Nes::tick (nes/src/nes.rs) executes one  *)
(* instruction and then lets the PPU (nes/src/ppu) catch up, three dots    *)
(* per CPU cycle.  An instruction that starts a sprite DMA lets the PPU    *)
(* catch up by itself, in the middle of the instruction, and drops the     *)
(* event this may produce.  The event of the second catching up drives     *)
(* everything outside: the host renders and polls its input, and the game  *)
(* gets its interrupt.                                                     *)
(*                                                                         *)
(* One step is one dot.  Pixels, sprites and scrolling are not modelled,   *)
(* and an instruction is what it does to the timing.                       *)
(***************************************************************************)
EXTENDS Naturals

CONSTANTS Dots,            \* dots in a line: 341
          Visible,         \* visible lines: 240
          Blank,           \* lines of vertical blank after its first: 19
          IrqDot,          \* dot at which the mapper counts a line: 260
          Cycles,          \* lengths of instructions, in CPU cycles
          DmaCycles,       \* 513, and one more on an odd dot
          InterruptCycles  \* 7, added to the instruction that follows

PostRender == Visible
Entering   == Visible + 1
PreRender  == Visible + Blank + 2
Lines      == PreRender + 1

ASSUME GeometryAssumption ==
  /\ Dots \in Nat /\ Visible \in Nat /\ Blank \in Nat
  /\ Dots > 2
  /\ (Dots * Lines) % 2 = 0

ASSUME InstructionAssumption ==
  /\ Cycles \subseteq Nat \ {0} /\ DmaCycles \in Nat /\ InterruptCycles \in Nat

(* A tick is short: after the dot that counts a line it ends before the    *)
(* next line's second dot (82 dots; the longest instruction with an        *)
(* interrupt takes 45), and a transfer with it before the vblank does.     *)
ASSUME PaceAssumption ==
  /\ IrqDot \in 1..(Dots - 1)
  /\ \A c \in Cycles :
       /\ 3 * (c + InterruptCycles) <= Dots - IrqDot + 1
       /\ 3 * (DmaCycles + 1 + c + InterruptCycles) <= Dots * (Blank + 1)

VARIABLES
  clock,     \* State.clock
  odd,       \* State.odd_frame
  vblank,    \* Ppu.in_vblank
  rendering, \* Ppu.rendering_enabled
  nmiOn,     \* Ppu.nmi_at_start_of_vblank
  phase,     \* cpu between two ticks, dma or ppu while the PPU catches up
  left,      \* dots this Ppu::tick has yet to do
  cycles,    \* what the instruction will return
  extra,     \* Cpu.extra_cycles
  before,    \* vblank_pre_ticks, local to Ppu::tick
  irq,       \* irq, local to Ppu::tick
  on,        \* Nes.powered_on()
  owed,      \* history: where the last vblank began that was not rendered
  irqOwed,   \* history: where the mapper raised an IRQ that had no effect yet
  offered    \* history: an instruction started while vblank was set

ppu     == <<clock, odd, vblank>>
regs    == <<rendering, nmiOn>>
machine == <<cycles, extra, on>>
history == <<owed, irqOwed, offered>>
vars    == <<ppu, regs, phase, left, machine, before, irq, history>>

Init ==
  /\ clock = 0 /\ odd = FALSE /\ vblank = FALSE
  /\ rendering = FALSE /\ nmiOn = FALSE
  /\ phase = "cpu" /\ left = 0
  /\ cycles = 0 /\ extra = 0 /\ on = TRUE
  /\ before = FALSE /\ irq = FALSE
  /\ owed = "no" /\ irqOwed = "no" /\ offered = FALSE

-----------------------------------------------------------------------------
(* The instruction.  It changes the PPU before the PPU catches up. *)

(* Definitions marked "Mutant" are variants a bug in the code would make:   *)
(* Spec does not use them, each of them breaks a property of the runs.     *)

(* Mutant: irq survives the tick that set it.                              *)
CatchUpKeepingIrq(n, flag) ==
  /\ phase' = "ppu" /\ left' = 3 * n
  /\ before' = flag /\ UNCHANGED irq

(* The beginning of Ppu::tick for the cycles of the instruction.           *)
CatchUp(n, flag) ==
  /\ phase' = "ppu" /\ left' = 3 * n
  /\ before' = flag /\ irq' = FALSE

Begin(c) ==
  /\ phase = "cpu" /\ on
  /\ c \in Cycles
  /\ cycles' = c + extra /\ extra' = 0
  /\ offered' = (offered \/ vblank)
  /\ UNCHANGED <<clock, odd, on, owed, irqOwed>>

(* No access to a register that the timing depends on, or a write to       *)
(* $2000 or $2001.                                                         *)
Plain(c) ==
  /\ Begin(c)
  /\ CatchUp(cycles', vblank)
  /\ \/ rendering' \in BOOLEAN /\ UNCHANGED nmiOn
     \/ nmiOn' \in BOOLEAN /\ UNCHANGED rendering
  /\ UNCHANGED vblank

(* A read of $2002.                                                        *)
ReadStatus(c) ==
  /\ Begin(c)
  /\ vblank' = FALSE
  /\ CatchUp(cycles', FALSE)
  /\ UNCHANGED regs

(* A write to $4014: the instruction returns after the PPU has done the    *)
(* dots of the transfer.  even_frame() is the parity of the dot.           *)
StartDma(c) ==
  /\ Begin(c)
  /\ phase' = "dma"
  /\ left' = 3 * IF odd THEN DmaCycles + 1 ELSE DmaCycles
  /\ before' = vblank /\ irq' = FALSE
  /\ UNCHANGED <<vblank, regs>>

(* The event is dropped; then the instruction's own cycles are due.        *)
EndDma ==
  /\ phase = "dma" /\ left = 0
  /\ CatchUp(cycles, vblank)
  /\ UNCHANGED <<ppu, regs, machine, history>>

-----------------------------------------------------------------------------
(* One turn of the loop of Ppu::tick *)

Scanline == clock \div Dots
Cycle    == clock % Dots

(* The short frame that next() provides for.                               *)
SkipDot == Scanline = PreRender /\ Cycle = Dots - 2 /\ odd /\ rendering

(* Mutant: the clock is wrapped after one line too many.                   *)
LastDotOfNextLine == Scanline = Lines /\ Cycle = Dots - 1

LastDot == Scanline = PreRender /\ Cycle = Dots - 1

Advance ==
  /\ clock' = IF SkipDot \/ LastDot THEN 0 ELSE clock + 1
  /\ odd' = ~odd

(* Mutant: the flag is cleared a line after it was set.                    *)
ClearsEarly == Scanline = Entering + 1 /\ Cycle = 1

(* Mutant: the flag is left to the game to clear.                          *)
ClearsNever == FALSE

Clears == Scanline = PreRender /\ Cycle = 1

Enters == Scanline = Entering /\ Cycle = 1

CountsLine == Scanline <= PostRender /\ Cycle = IrqDot /\ rendering

(* The mapper decides whether a counted line raises an IRQ.                *)
Dot ==
  /\ phase \in {"dma", "ppu"} /\ left > 0
  /\ left' = left - 1
  /\ Advance
  /\ vblank' = (Enters \/ (vblank /\ ~Clears))
  /\ IF CountsLine THEN irq' \in BOOLEAN ELSE UNCHANGED irq
  /\ owed' = IF Enters THEN phase ELSE owed
  /\ irqOwed' = IF CountsLine /\ irq' THEN phase ELSE irqOwed
  /\ offered' = (offered /\ ~Enters)
  /\ UNCHANGED <<regs, phase, machine, before>>

-----------------------------------------------------------------------------
(* Nes::tick with the event of Ppu::tick *)

EndOfTick == phase = "ppu" /\ left = 0 /\ phase' = "cpu"

EnteredVblank == ~before /\ vblank

TriggerIrq == ~EnteredVblank /\ irq

(* render, poll_events, and nmi() when the game wants it.  poll_events may *)
(* switch the machine off; after a Reset the CPU starts anew, but the PPU  *)
(* and the cycles it is owed stay.                                         *)
RenderFrame ==
  /\ EndOfTick
  /\ EnteredVblank
  /\ owed' = "no"
  /\ on' \in BOOLEAN
  /\ extra' = IF nmiOn THEN extra + InterruptCycles ELSE extra
  /\ UNCHANGED <<ppu, regs, left, cycles, before, irq, irqOwed, offered>>

(* irq() has no effect while the I flag is set.                            *)
Interrupt ==
  /\ EndOfTick
  /\ TriggerIrq
  /\ irqOwed' = "no"
  /\ extra' \in {extra, extra + InterruptCycles}
  /\ UNCHANGED <<ppu, regs, left, cycles, on, before, irq, owed, offered>>

NoEvent ==
  /\ EndOfTick
  /\ ~EnteredVblank /\ ~irq
  /\ UNCHANGED <<ppu, regs, left, machine, before, irq, history>>

-----------------------------------------------------------------------------
Next ==
  \/ \E c \in Cycles : Plain(c) \/ ReadStatus(c) \/ StartDma(c)
  \/ EndDma
  \/ Dot
  \/ RenderFrame \/ Interrupt \/ NoEvent

Spec == Init /\ [][Next]_vars

-----------------------------------------------------------------------------
(* Properties *)

(* The variables hold values of the code's types; the scanline is always   *)
(* one that State::next knows (its match ends in unreachable!()).          *)
TypeOK ==
  /\ clock \in 0..(Dots * Lines - 1)
  /\ odd \in BOOLEAN /\ vblank \in BOOLEAN
  /\ rendering \in BOOLEAN /\ nmiOn \in BOOLEAN
  /\ phase \in {"cpu", "dma", "ppu"} /\ left \in Nat
  /\ cycles \in Nat /\ extra \in Nat
  /\ before \in BOOLEAN /\ irq \in BOOLEAN /\ on \in BOOLEAN
  /\ owed \in {"no", "dma", "ppu"} /\ irqOwed \in {"no", "dma", "ppu"}
  /\ offered \in BOOLEAN

(* odd_frame is the parity of the dot, not of the frame as its name says:  *)
(* it is toggled by every dot, and a frame has an even number of them.     *)
OddIsDotParity == odd <=> clock % 2 = 1

(* A frame is rendered when a vblank began in this very tick, and only     *)
(* then: the flag of one frame never hides, nor stands for, the next.  The *)
(* exception is a vblank that begins during a DMA: it is lost.             *)
RenderedOncePerVblank ==
  phase = "ppu" /\ left = 0 => (EnteredVblank <=> owed = "ppu")

(* An IRQ reaches the CPU in the tick in which the mapper raises it, and   *)
(* once: it is neither hidden by a vblank nor repeated by a later tick.    *)
IrqDeliveredOnce ==
  phase = "ppu" /\ left = 0 => (TriggerIrq <=> irqOwed = "ppu")

(* A game that polls $2002 without interrupts sees every vblank: between   *)
(* the dot that sets the flag and the one that clears it an instruction    *)
(* starts, whatever is being transferred.                                  *)
VblankVisible == [][vblank /\ ~vblank' => offered']_vars
=============================================================================
