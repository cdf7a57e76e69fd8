------------------------------ MODULE Ppu_proofs ------------------------------
(***************************************************************************)
(* Proofs about the PPU.  Its clock (PpuTiming): the types, the length of  *)
(* a frame, and the events that reach the host and the CPU.  Its reads     *)
(* (PpuFetch): they stay inside the nametables and the pattern tables,     *)
(* whatever the game has written to the registers and to OAM.  Its sprites *)
(* (Sprites): the two flags that a game polls.  Its scroll registers:      *)
(* PpuScroll, words and masks, implements ScrollFields, where a write      *)
(* names the fields that it sets.                                          *)
(***************************************************************************)
EXTENDS Ppu, PpuFetch, Words_proofs, FiniteSetTheorems, NaturalsInduction, TLAPS

-----------------------------------------------------------------------------
(* The dot clock.                                                          *)

(* Every dot of a frame is in one of its lines, and the last dot of the    *)
(* frame is the last dot of the pre-render line.                           *)
LEMMA Geometry ==
  /\ Lines \in Nat \ {0} /\ PreRender = Lines - 1
  /\ Dots * Lines \in Nat
  /\ Dots * Lines > 2
<1>1. Lines \in Nat /\ Lines >= 3 /\ PreRender = Lines - 1
  BY GeometryAssumption DEF Lines, PreRender
<1>2. Dots * Lines \in Nat /\ Dots * Lines >= Dots
  BY <1>1, GeometryAssumption
<1>3. QED
  BY <1>1, <1>2, GeometryAssumption

LEMMA DivMod ==
  ASSUME NEW n \in Nat
  PROVE  /\ n \div Dots \in Nat /\ n % Dots \in 0..(Dots - 1)
         /\ n = Dots * (n \div Dots) + (n % Dots)
BY GeometryAssumption

LEMMA LastDotIsLast ==
  ASSUME NEW n \in 0..(Dots * Lines - 1)
  PROVE  n \div Dots = PreRender /\ n % Dots = Dots - 1 <=> n = Dots * Lines - 1
BY DivMod, Geometry, GeometryAssumption, SMTT(60)

(* The dot of an odd frame that next() would skip is an even one.          *)
LEMMA SkipDotIsEven ==
  ASSUME NEW n \in Nat, n \div Dots = PreRender, n % Dots = Dots - 2
  PROVE  n = Dots * Lines - 2 /\ n % 2 = 0
<1>1. n = Dots * Lines - 2
  BY DivMod, Geometry, GeometryAssumption
<1>2. QED
  BY <1>1, Geometry, GeometryAssumption

-----------------------------------------------------------------------------
(* The type invariant and the parity of the dot are inductive together:    *)
(* without the parity the clock could wrap early, without the range of the *)
(* clock it could wrap late.                                               *)
ClockInv == TypeOK /\ OddIsDotParity

LEMMA ClockInit == Init => ClockInv
<1> SUFFICES ASSUME Init
             PROVE  TypeOK /\ OddIsDotParity
  BY DEF ClockInv
<1>1. TypeOK
  <2>1. 0 \in 0..(Dots * Lines - 1)
    BY Geometry
  <2>2. QED
    BY <2>1 DEF Init, TypeOK
<1>2. 0 % 2 # 1
  OBVIOUS
<1>3. OddIsDotParity
  BY <1>2, Zenon DEF Init, OddIsDotParity
<1>4. QED
  BY <1>1, <1>3

(* Between two dots the parity is kept because its variables are.          *)
LEMMA ParityKept ==
  ASSUME OddIsDotParity, UNCHANGED <<clock, odd>>
  PROVE  OddIsDotParity'
BY Zenon DEF OddIsDotParity

(* What one dot does to the clock.                                         *)
LEMMA DotAdvances ==
  ASSUME ClockInv, Advance
  PROVE  /\ clock' = IF clock = Dots * Lines - 1 THEN 0 ELSE clock + 1
         /\ clock' \in 0..(Dots * Lines - 1)
         /\ odd' \in BOOLEAN
         /\ OddIsDotParity'
<1> USE DEF ClockInv, TypeOK
<1>1. LastDot <=> clock = Dots * Lines - 1
  BY LastDotIsLast DEF LastDot, Scanline, Cycle
<1>2. ~SkipDot
  BY SkipDotIsEven, Geometry DEF SkipDot, Scanline, Cycle, OddIsDotParity
<1>3. clock' = IF clock = Dots * Lines - 1 THEN 0 ELSE clock + 1
  BY <1>1, <1>2 DEF Advance
<1>4. clock' \in 0..(Dots * Lines - 1)
  BY <1>3, Geometry
<1>5. odd' = ~odd
  BY DEF Advance
<1>6. clock' % 2 = 1 <=> clock % 2 # 1
  <2>1. CASE clock = Dots * Lines - 1
    BY <2>1, <1>3, Geometry, GeometryAssumption
  <2>2. CASE clock # Dots * Lines - 1
    BY <2>2, <1>3, Geometry
  <2>3. QED
    BY <2>1, <2>2
<1>7. odd' \in BOOLEAN /\ OddIsDotParity'
  BY <1>5, <1>6, Zenon DEF OddIsDotParity
<1>8. QED
  BY <1>3, <1>4, <1>7

(* What the start of an instruction, and of a tick of the PPU, leave.      *)
LEMMA InstructionBegins ==
  ASSUME TypeOK, NEW c \in Cycles, Begin(c)
  PROVE  /\ UNCHANGED <<clock, odd, on, owed, irqOwed>>
         /\ cycles' \in Nat /\ extra' \in Nat
         /\ offered' \in BOOLEAN
<1>1. cycles' \in Nat /\ extra' \in Nat
  BY InstructionAssumption DEF Begin, TypeOK
<1>2. offered' \in BOOLEAN
  BY Zenon DEF Begin
<1>3. QED
  BY <1>1, <1>2 DEF Begin

LEMMA TickBegins ==
  ASSUME NEW n \in Nat, NEW flag \in BOOLEAN, CatchUp(n, flag)
  PROVE  /\ phase' = "ppu" /\ left' \in Nat
         /\ before' \in BOOLEAN /\ irq' \in BOOLEAN
<1>1. left' \in Nat
  BY DEF CatchUp
<1>2. before' \in BOOLEAN /\ irq' \in BOOLEAN
  BY Zenon DEF CatchUp
<1>3. QED
  BY <1>1, <1>2 DEF CatchUp

LEMMA ClockStep == ClockInv /\ [Next]_vars => ClockInv'
<1> SUFFICES ASSUME ClockInv, [Next]_vars
             PROVE  TypeOK' /\ OddIsDotParity'
  BY DEF ClockInv
<1> USE InstructionAssumption DEF ClockInv, TypeOK
<1>1. ASSUME NEW c \in Cycles, Plain(c)
      PROVE  TypeOK' /\ UNCHANGED <<clock, odd>>
  <2>1. Begin(c) /\ CatchUp(cycles', vblank)
    BY <1>1 DEF Plain
  <2>2. rendering' \in BOOLEAN /\ nmiOn' \in BOOLEAN /\ vblank' \in BOOLEAN
    BY <1>1, Zenon DEF Plain
  <2>3. QED
    BY <2>1, <2>2, InstructionBegins, TickBegins
<1>2. ASSUME NEW c \in Cycles, ReadStatus(c)
      PROVE  TypeOK' /\ UNCHANGED <<clock, odd>>
  <2>1. Begin(c) /\ CatchUp(cycles', FALSE)
    BY <1>2 DEF ReadStatus
  <2>2. rendering' \in BOOLEAN /\ nmiOn' \in BOOLEAN /\ vblank' \in BOOLEAN
    BY <1>2 DEF ReadStatus, regs
  <2>3. QED
    BY <2>1, <2>2, InstructionBegins, TickBegins
<1>3. ASSUME NEW c \in Cycles, StartDma(c)
      PROVE  TypeOK' /\ UNCHANGED <<clock, odd>>
  <2>1. Begin(c) /\ phase' = "dma" /\ left' \in Nat
    BY <1>3 DEF StartDma
  <2>2. rendering' \in BOOLEAN /\ nmiOn' \in BOOLEAN /\ vblank' \in BOOLEAN
    BY <1>3 DEF StartDma, regs
  <2>3. before' \in BOOLEAN /\ irq' \in BOOLEAN
    BY <1>3, Zenon DEF StartDma
  <2>4. QED
    BY <2>1, <2>2, <2>3, InstructionBegins
<1>4. ASSUME EndDma
      PROVE  TypeOK' /\ UNCHANGED <<clock, odd>>
  <2>1. CatchUp(cycles, vblank) /\ UNCHANGED <<ppu, regs, machine, history>>
    BY <1>4 DEF EndDma
  <2>2. QED
    BY <2>1, TickBegins DEF ppu, regs, machine, history
<1>5. ASSUME Dot
      PROVE  TypeOK' /\ OddIsDotParity'
  <2>1. clock' \in 0..(Dots * Lines - 1) /\ odd' \in BOOLEAN /\ OddIsDotParity'
    BY <1>5, DotAdvances DEF Dot
  <2>2. vblank' \in BOOLEAN /\ offered' \in BOOLEAN
    BY <1>5, Zenon DEF Dot
  <2>3. left' \in Nat
    BY <1>5 DEF Dot
  <2>4. irq' \in BOOLEAN
    BY <1>5, Zenon DEF Dot
  <2>5. owed' \in {"no", "dma", "ppu"} /\ irqOwed' \in {"no", "dma", "ppu"}
    BY <1>5 DEF Dot
  <2>6. QED
    BY <1>5, <2>1, <2>2, <2>3, <2>4, <2>5 DEF Dot, regs, machine
<1>6. ASSUME RenderFrame
      PROVE  TypeOK' /\ UNCHANGED <<clock, odd>>
  BY <1>6 DEF RenderFrame, EndOfTick, ppu, regs
<1>7. ASSUME Interrupt
      PROVE  TypeOK' /\ UNCHANGED <<clock, odd>>
  BY <1>7 DEF Interrupt, EndOfTick, ppu, regs
<1>8. ASSUME NoEvent
      PROVE  TypeOK' /\ UNCHANGED <<clock, odd>>
  BY <1>8 DEF NoEvent, EndOfTick, ppu, regs, machine, history
<1>9. ASSUME UNCHANGED vars
      PROVE  TypeOK' /\ UNCHANGED <<clock, odd>>
  BY <1>9 DEF vars, ppu, regs, machine, history
<1>10. QED
  BY <1>1, <1>2, <1>3, <1>4, <1>5, <1>6, <1>7, <1>8, <1>9, ParityKept DEF Next

(* The variables keep their types, in particular the dot clock never       *)
(* leaves the lines that State::next can name.                             *)
THEOREM TypeCorrect == Spec => []TypeOK
<1>1. Spec => []ClockInv
  BY ClockInit, ClockStep, PTL DEF Spec
<1>2. QED
  BY <1>1, PTL DEF ClockInv

(* odd_frame is the parity of the dot, whatever the geometry of the screen *)
(* as long as a frame has an even number of dots.                          *)
THEOREM OddFrameIsDotParity == Spec => []OddIsDotParity
<1>1. Spec => []ClockInv
  BY ClockInit, ClockStep, PTL DEF Spec
<1>2. QED
  BY <1>1, PTL DEF ClockInv

(* A defect, for every geometry: the dot that next() means to skip in odd  *)
(* frames while it renders is never skipped, in no frame, because the flag *)
(* it asks for is down at that dot of every frame.                         *)
THEOREM ShortFrameNeverComes == Spec => [](~SkipDot)
<1>1. ClockInv => ~SkipDot
  BY SkipDotIsEven, Geometry DEF ClockInv, TypeOK, SkipDot, Scanline, Cycle, OddIsDotParity
<1>2. Spec => []ClockInv
  BY ClockInit, ClockStep, PTL DEF Spec
<1>3. QED
  BY <1>1, <1>2, PTL

-----------------------------------------------------------------------------
(* The dots at which the flag is set and cleared, the most dots of a tick  *)
(* and of a transfer with the rest of its instruction.                     *)
EnterDot == Dots * Entering + 1
ClearDot == Dots * PreRender + 1
Frame    == Dots * Lines
Pace     == Dots - IrqDot + 1
Transfer == Dots * (Blank + 1)

(* How far a tick may still go.                                            *)
PaceInv ==
  /\ extra <= InterruptCycles
  /\ phase # "cpu" => extra = 0
  /\ phase = "dma" => left + 3 * cycles <= Transfer /\ 3 * cycles <= Pace
  /\ phase = "ppu" => left <= Pace

(* The flag is up between its two dots only.  A vblank that began in this  *)
(* tick is too recent to have been cleared, and one that the tick found is *)
(* too old to begin again.                                                 *)
VblankInv ==
  /\ vblank => EnterDot < clock /\ clock <= ClearDot
  /\ phase = "ppu" => (owed = "ppu" <=> (~before /\ vblank))
  /\ phase # "ppu" => owed # "ppu"
  /\ phase = "ppu" /\ owed = "ppu" => clock + left <= EnterDot + Pace
  /\ phase = "ppu" /\ before =>
       \/ clock > EnterDot /\ clock + left <= ClearDot + Pace
       \/ clock <= EnterDot /\ clock + left + Frame <= ClearDot + Pace

(* A vblank in which no instruction has started yet is not over when the   *)
(* tick and the transfer are.                                              *)
OfferInv ==
  vblank /\ ~offered =>
    /\ phase = "dma" => clock + left + 3 * cycles <= ClearDot
    /\ phase = "ppu" => clock + left <= ClearDot

(* An IRQ of this tick was raised a short while ago, in a line above the   *)
(* vertical blank.                                                         *)
IrqInv ==
  /\ phase = "ppu" => (irq <=> irqOwed = "ppu")
  /\ phase # "ppu" => irqOwed # "ppu"
  /\ phase = "ppu" /\ irq =>
       \E counted \in 0..PostRender :
         LET raised == Dots * counted + IrqDot
         IN raised < clock /\ clock + left <= raised + Pace

EventInv == ClockInv /\ PaceInv /\ VblankInv /\ OfferInv /\ IrqInv

LEMMA Places ==
  /\ EnterDot \in Nat /\ ClearDot \in Nat /\ Frame \in Nat
  /\ Pace \in Nat /\ Transfer \in Nat
  /\ 2 <= Pace /\ Pace <= Dots /\ Pace <= Transfer
  /\ ClearDot = EnterDot + Transfer
  /\ ClearDot + 1 < Frame
  /\ ClearDot + Pace <= EnterDot + Frame
<1>1. /\ Dots \in Nat /\ Dots > 2 /\ Visible \in Nat /\ Blank \in Nat
      /\ IrqDot \in 1..(Dots - 1)
  BY GeometryAssumption, PaceAssumption
<1> DEFINE above == Dots * Entering
           blank == Dots * (Blank + 1)
<1>2. above \in Nat /\ above >= Dots
  BY <1>1 DEF Entering
<1>3. blank \in Nat /\ blank >= Dots
  BY <1>1
<1>4. Dots * PreRender = above + blank
  BY <1>1 DEF PreRender, Entering
<1>5. Dots * Lines = above + blank + Dots
  BY <1>1, <1>4 DEF PreRender, Lines
<1> HIDE DEF above, blank
<1>6. /\ EnterDot = above + 1 /\ ClearDot = above + blank + 1
      /\ Frame = above + blank + Dots /\ Transfer = blank
  BY <1>4, <1>5 DEF EnterDot, ClearDot, Frame, Transfer, above, blank
<1>7. QED
  BY <1>1, <1>2, <1>3, <1>6 DEF Pace

LEMMA DotOfLine ==
  ASSUME NEW n \in Nat, NEW counted \in Nat, NEW k \in 0..(Dots - 1)
  PROVE  n \div Dots = counted /\ n % Dots = k <=> n = Dots * counted + k
BY DivMod, GeometryAssumption

(* The dots of the events, by their numbers.                               *)
LEMMA EventDots ==
  ASSUME clock \in Nat
  PROVE  /\ Enters <=> clock = EnterDot
         /\ Clears <=> clock = ClearDot
<1>1. Entering \in Nat /\ PreRender \in Nat /\ 1 \in 0..(Dots - 1)
  BY GeometryAssumption DEF Entering, PreRender
<1>2. QED
  BY <1>1, DotOfLine DEF Enters, Clears, Scanline, Cycle, EnterDot, ClearDot

LEMMA CountedLine ==
  ASSUME clock \in Nat, CountsLine
  PROVE  /\ Scanline \in 0..PostRender /\ clock = Dots * Scanline + IrqDot
<1>1. Scanline \in Nat
  BY DivMod DEF Scanline
<1>2. PostRender \in Nat
  BY GeometryAssumption DEF PostRender
<1>3. QED
  BY <1>1, <1>2, DivMod DEF CountsLine, Scanline, Cycle

(* After a counted line the tick ends before the line that follows it gets *)
(* to its own, and before the vertical blank.                              *)
LEMMA AfterCountedLine ==
  ASSUME NEW counted \in 0..PostRender
  PROVE  /\ Dots * counted + IrqDot \in Nat
         /\ Dots * counted + IrqDot + Pace <= EnterDot
         /\ \A other \in 0..PostRender :
              ~ (/\ Dots * counted + IrqDot < Dots * other + IrqDot
                 /\ Dots * other + IrqDot + 1 <= Dots * counted + IrqDot + Pace)
<1>1. /\ Dots \in Nat /\ Dots > 2 /\ IrqDot \in 1..(Dots - 1)
      /\ PostRender \in Nat /\ Entering = PostRender + 1
  BY GeometryAssumption, PaceAssumption DEF PostRender, Entering
<1>2. Dots * counted \in Nat
  BY <1>1
<1>3. ASSUME NEW more \in Nat, counted < more
      PROVE  Dots * counted + Dots <= Dots * more
  <2>1. PICK k \in Nat : more = counted + 1 + k
    <3>1. more - counted - 1 \in Nat /\ more = counted + 1 + (more - counted - 1)
      BY <1>3
    <3>2. QED
      BY <3>1
  <2>2. Dots * more = Dots * counted + Dots + Dots * k /\ Dots * k \in Nat
    BY <1>1, <2>1
  <2>3. QED
    BY <1>1, <1>2, <2>2
<1>4. Dots * counted + Dots <= Dots * Entering
  BY <1>1, <1>3
<1>5. ASSUME NEW other \in 0..PostRender, Dots * counted < Dots * other
      PROVE  Dots * counted + Dots <= Dots * other
  <2>1. CASE counted < other
    BY <1>3, <2>1
  <2>2. CASE counted >= other
    <3>1. PICK k \in Nat : counted = other + k
      <4>1. counted - other \in Nat /\ counted = other + (counted - other)
        BY <2>2
      <4>2. QED
        BY <4>1
    <3>2. Dots * counted = Dots * other + Dots * k /\ Dots * k \in Nat
          /\ Dots * other \in Nat
      BY <1>1, <3>1
    <3>3. QED
      BY <1>5, <3>2
  <2>3. QED
    BY <2>1, <2>2
<1>6. ASSUME NEW other \in 0..PostRender
      PROVE  ~ (/\ Dots * counted + IrqDot < Dots * other + IrqDot
                /\ Dots * other + IrqDot + 1 <= Dots * counted + IrqDot + Pace)
  <2>1. Dots * other \in Nat
    BY <1>1
  <2>2. QED
    BY <1>1, <1>2, <1>5, <2>1 DEF Pace
<1>7. QED
  BY <1>1, <1>2, <1>4, <1>6 DEF Pace, EnterDot

-----------------------------------------------------------------------------
LEMMA EventInit == Init => EventInv
<1> SUFFICES ASSUME Init PROVE EventInv
  OBVIOUS
<1>1. ClockInv
  BY ClockInit
<1>2. PaceInv
  BY InstructionAssumption DEF Init, PaceInv
<1>3. VblankInv
  BY DEF Init, VblankInv
<1>4. OfferInv /\ IrqInv
  BY DEF Init, OfferInv, IrqInv
<1>5. QED
  BY <1>1, <1>2, <1>3, <1>4 DEF EventInv

(* What the instruction leaves of the last tick.                           *)
LEMMA InstructionIsShort ==
  ASSUME EventInv, NEW c \in Cycles, Begin(c)
  PROVE  /\ cycles' \in Nat /\ extra' = 0 /\ 3 * cycles' <= Pace
         /\ 3 * (DmaCycles + 1) + 3 * cycles' <= Transfer
         /\ owed' # "ppu" /\ irqOwed' # "ppu"
         /\ clock' = clock /\ clock \in Nat
         /\ vblank => offered'
<1>1. /\ phase = "cpu" /\ cycles' = c + extra /\ extra' = 0
      /\ UNCHANGED <<clock, owed, irqOwed>>
  BY DEF Begin
<1>2. /\ c \in Nat /\ extra \in Nat /\ extra <= InterruptCycles
      /\ DmaCycles \in Nat /\ InterruptCycles \in Nat /\ clock \in Nat
  BY InstructionAssumption DEF EventInv, ClockInv, TypeOK, PaceInv
<1>3. /\ 3 * (c + InterruptCycles) <= Pace
      /\ 3 * (DmaCycles + 1 + c + InterruptCycles) <= Transfer
  BY PaceAssumption DEF Pace, Transfer
<1>4. owed # "ppu" /\ irqOwed # "ppu"
  BY <1>1 DEF EventInv, VblankInv, IrqInv
<1>5. vblank => offered'
  BY Zenon DEF Begin
<1>6. QED
  BY <1>1, <1>2, <1>3, <1>4, <1>5, Places

(* A tick starts with nothing owed, and with the flag as it has been.      *)
LEMMA TickStarts ==
  ASSUME EventInv, NEW n \in Nat, 3 * n <= Pace, NEW flag \in BOOLEAN,
         CatchUp(n, flag), vblank' = flag, vblank' => vblank,
         UNCHANGED clock, extra' = 0, owed' # "ppu", irqOwed' # "ppu",
         vblank' /\ ~offered' => clock + 3 * n <= ClearDot
  PROVE  PaceInv' /\ VblankInv' /\ OfferInv' /\ IrqInv'
<1>1. phase' = "ppu" /\ left' = 3 * n
  BY DEF CatchUp
<1>2. (before' <=> vblank') /\ ~irq'
  BY Zenon DEF CatchUp
<1>3. /\ clock \in Nat
      /\ vblank => EnterDot < clock /\ clock <= ClearDot
  BY DEF EventInv, ClockInv, TypeOK, VblankInv
<1>4. PaceInv'
  BY <1>1, InstructionAssumption DEF PaceInv
<1>5. VblankInv'
  BY <1>1, <1>2, <1>3, Places DEF VblankInv
<1>6. OfferInv' /\ IrqInv'
  BY <1>1, <1>2, <1>3 DEF OfferInv, IrqInv
<1>7. QED
  BY <1>4, <1>5, <1>6

LEMMA PlainKeeps ==
  ASSUME EventInv, NEW c \in Cycles, Plain(c)
  PROVE  PaceInv' /\ VblankInv' /\ OfferInv' /\ IrqInv'
<1>1. Begin(c) /\ CatchUp(cycles', vblank) /\ UNCHANGED vblank
  BY DEF Plain
<1>2. vblank \in BOOLEAN
  BY DEF EventInv, ClockInv, TypeOK
<1>3. (vblank' => vblank) /\ (vblank' => offered')
  BY <1>1, InstructionIsShort
<1>4. QED
  BY <1>1, <1>2, <1>3, InstructionIsShort, TickStarts

LEMMA ReadStatusKeeps ==
  ASSUME EventInv, NEW c \in Cycles, ReadStatus(c)
  PROVE  PaceInv' /\ VblankInv' /\ OfferInv' /\ IrqInv'
<1>1. Begin(c) /\ CatchUp(cycles', FALSE) /\ vblank' = FALSE
  BY DEF ReadStatus
<1>2. QED
  BY <1>1, InstructionIsShort, TickStarts

LEMMA StartDmaKeeps ==
  ASSUME EventInv, NEW c \in Cycles, StartDma(c)
  PROVE  PaceInv' /\ VblankInv' /\ OfferInv' /\ IrqInv'
<1>1. /\ Begin(c) /\ phase' = "dma" /\ UNCHANGED vblank
      /\ left' = 3 * IF odd THEN DmaCycles + 1 ELSE DmaCycles
  BY DEF StartDma
<1>2. left' \in Nat /\ left' <= 3 * (DmaCycles + 1)
  BY <1>1, InstructionAssumption
<1>3. /\ cycles' \in Nat /\ extra' = 0 /\ 3 * cycles' <= Pace
      /\ 3 * (DmaCycles + 1) + 3 * cycles' <= Transfer
      /\ owed' # "ppu" /\ irqOwed' # "ppu"
      /\ clock' = clock /\ clock \in Nat
      /\ vblank => offered'
  BY <1>1, InstructionIsShort
<1>4. PaceInv'
  <2> DEFINE most == 3 * (DmaCycles + 1)
  <2>1. most \in Nat
    BY InstructionAssumption
  <2>2. cycles' \in Nat /\ most + 3 * cycles' <= Transfer
    BY <1>3
  <2>3. left' \in Nat /\ left' <= most
    BY <1>2
  <2> HIDE DEF most
  <2>4. left' + 3 * cycles' <= Transfer
    <3>1. \A a, m, k, due \in Nat : a <= m /\ m + 3 * k <= due => a + 3 * k <= due
      OBVIOUS
    <3>2. Transfer \in Nat
      BY Places
    <3>3. QED
      BY <2>1, <2>2, <2>3, <3>1, <3>2
  <2>5. InterruptCycles \in Nat
    BY InstructionAssumption
  <2>6. QED
    BY <1>1, <1>3, <2>4, <2>5 DEF PaceInv
<1>5. VblankInv'
  BY <1>1, <1>3 DEF EventInv, VblankInv
<1>6. OfferInv' /\ IrqInv'
  BY <1>1, <1>3 DEF OfferInv, IrqInv
<1>7. QED
  BY <1>4, <1>5, <1>6

LEMMA EndDmaKeeps ==
  ASSUME EventInv, EndDma
  PROVE  PaceInv' /\ VblankInv' /\ OfferInv' /\ IrqInv'
<1>1. /\ phase = "dma" /\ left = 0 /\ CatchUp(cycles, vblank)
      /\ UNCHANGED <<clock, vblank, extra, owed, irqOwed, offered>>
  BY DEF EndDma, ppu, machine, history
<1>2. /\ vblank \in BOOLEAN /\ cycles \in Nat /\ clock \in Nat
      /\ 3 * cycles <= Pace /\ extra = 0
      /\ owed # "ppu" /\ irqOwed # "ppu"
  BY <1>1 DEF EventInv, ClockInv, TypeOK, PaceInv, VblankInv, IrqInv
<1>3. vblank /\ ~offered => clock + 3 * cycles <= ClearDot
  BY <1>1, <1>2 DEF EventInv, OfferInv
<1>4. QED
  BY <1>1, <1>2, <1>3, TickStarts

(* The end of a tick: whatever was owed by it is paid by the action that   *)
(* its event leads to.                                                     *)
LEMMA TickEnds ==
  ASSUME EventInv, EndOfTick,
         UNCHANGED <<clock, vblank>>, extra' \in Nat, extra' <= InterruptCycles,
         owed' # "ppu", irqOwed' # "ppu"
  PROVE  PaceInv' /\ VblankInv' /\ OfferInv' /\ IrqInv'
<1>1. phase' = "cpu"
  BY DEF EndOfTick
<1>2. PaceInv' /\ OfferInv' /\ IrqInv'
  BY <1>1 DEF PaceInv, OfferInv, IrqInv
<1>3. VblankInv'
  BY <1>1 DEF EventInv, VblankInv
<1>4. QED
  BY <1>2, <1>3

(* An IRQ that is raised in a tick is raised in a line before the flag is. *)
LEMMA NotBoth ==
  ASSUME EventInv, phase = "ppu"
  PROVE  /\ EnteredVblank <=> owed = "ppu"
         /\ TriggerIrq <=> irqOwed = "ppu"
<1>1. EnteredVblank <=> owed = "ppu"
  BY DEF EventInv, VblankInv, EnteredVblank
<1>2. ~ (EnteredVblank /\ irq)
  <2> SUFFICES ASSUME EnteredVblank, irq PROVE FALSE
    OBVIOUS
  <2>1. clock \in Nat /\ left \in Nat
    BY DEF EventInv, ClockInv, TypeOK
  <2>2. EnterDot < clock
    BY DEF EnteredVblank, EventInv, VblankInv
  <2>3. PICK counted \in 0..PostRender :
          clock + left <= Dots * counted + IrqDot + Pace
    BY DEF EventInv, IrqInv
  <2>4. Dots * counted + IrqDot \in Nat /\ Dots * counted + IrqDot + Pace <= EnterDot
    BY AfterCountedLine
  <2> DEFINE raised == Dots * counted + IrqDot
  <2>5. raised \in Nat /\ raised + Pace <= EnterDot /\ clock + left <= raised + Pace
    BY <2>3, <2>4
  <2> HIDE DEF raised
  <2>6. QED
    BY <2>1, <2>2, <2>5, Places
<1>3. irq <=> irqOwed = "ppu"
  BY DEF EventInv, IrqInv
<1>4. QED
  BY <1>1, <1>2, <1>3 DEF TriggerIrq

LEMMA EventKeeps ==
  ASSUME EventInv, RenderFrame \/ Interrupt \/ NoEvent
  PROVE  PaceInv' /\ VblankInv' /\ OfferInv' /\ IrqInv'
<1>1. EndOfTick /\ UNCHANGED <<clock, vblank>>
  BY DEF RenderFrame, Interrupt, NoEvent, ppu
<1>2. phase = "ppu"
  BY <1>1 DEF EndOfTick
<1>3. extra = 0 /\ InterruptCycles \in Nat
  BY <1>2, InstructionAssumption DEF EventInv, PaceInv
<1>4. extra' \in Nat /\ extra' <= InterruptCycles
  BY <1>3 DEF RenderFrame, Interrupt, NoEvent, machine
<1>5. owed' # "ppu" /\ irqOwed' # "ppu"
  <2>1. CASE RenderFrame
    BY <2>1, <1>2, NotBoth DEF RenderFrame, TriggerIrq
  <2>2. CASE Interrupt
    BY <2>2, <1>2, NotBoth DEF Interrupt, TriggerIrq
  <2>3. CASE NoEvent
    BY <2>3, <1>2, NotBoth DEF NoEvent, TriggerIrq, history
  <2>4. QED
    BY <2>1, <2>2, <2>3
<1>6. QED
  BY <1>1, <1>4, <1>5, TickEnds

-----------------------------------------------------------------------------
(* One dot.                                                                *)

(* What a dot does, with the events at their dots.                         *)
LEMMA DotByNumber ==
  ASSUME EventInv, Dot
  PROVE  /\ clock \in 0..(Frame - 1) /\ left \in Nat \ {0} /\ left' = left - 1
         /\ clock' = IF clock = Frame - 1 THEN 0 ELSE clock + 1
         /\ vblank' <=> (clock = EnterDot \/ (vblank /\ clock # ClearDot))
         /\ owed' = IF clock = EnterDot THEN phase ELSE owed
         /\ offered' <=> offered /\ clock # EnterDot
         /\ phase \in {"dma", "ppu"}
         /\ UNCHANGED <<phase, cycles, extra, before>>
<1>1. clock \in 0..(Frame - 1) /\ clock \in Nat /\ left \in Nat
  BY Geometry DEF EventInv, ClockInv, TypeOK, Frame
<1>2. (Enters <=> clock = EnterDot) /\ (Clears <=> clock = ClearDot)
  BY <1>1, EventDots
<1>3. clock' = IF clock = Frame - 1 THEN 0 ELSE clock + 1
  BY DotAdvances DEF EventInv, Dot, Frame
<1>4. vblank' = (Enters \/ (vblank /\ ~Clears)) /\ offered' = (offered /\ ~Enters)
  BY DEF Dot
<1>5. vblank' <=> (clock = EnterDot \/ (vblank /\ clock # ClearDot))
  BY <1>2, <1>4, Zenon
<1>6. offered' <=> offered /\ clock # EnterDot
  BY <1>2, <1>4, Zenon
<1>7. owed' = IF clock = EnterDot THEN phase ELSE owed
  BY <1>2 DEF Dot
<1>8. QED
  BY <1>1, <1>3, <1>5, <1>6, <1>7 DEF Dot, machine

LEMMA DotKeepsPace ==
  ASSUME EventInv, Dot
  PROVE  PaceInv'
<1>1. /\ left \in Nat \ {0} /\ left' = left - 1 /\ cycles \in Nat
      /\ UNCHANGED <<phase, cycles, extra>>
  BY DotByNumber DEF EventInv, ClockInv, TypeOK
<1>2. QED
  BY <1>1, Places DEF EventInv, PaceInv

LEMMA DotKeepsVblank ==
  ASSUME EventInv, Dot
  PROVE  VblankInv'
<1>1. /\ clock \in 0..(Frame - 1) /\ left \in Nat \ {0} /\ left' = left - 1
      /\ clock' = IF clock = Frame - 1 THEN 0 ELSE clock + 1
      /\ vblank' <=> (clock = EnterDot \/ (vblank /\ clock # ClearDot))
      /\ owed' = IF clock = EnterDot THEN phase ELSE owed
      /\ UNCHANGED <<phase, before>>
  BY DotByNumber
<1>2. vblank => EnterDot < clock /\ clock <= ClearDot
  BY DEF EventInv, VblankInv
<1>3. phase = "ppu" => left <= Pace
  BY DEF EventInv, PaceInv
<1>4. vblank' => EnterDot < clock' /\ clock' <= ClearDot
  BY <1>1, <1>2, Places
<1>5. ASSUME phase = "ppu", before
      PROVE  /\ clock # EnterDot
             /\ \/ clock' > EnterDot /\ clock' + left' <= ClearDot + Pace
                \/ clock' <= EnterDot /\ clock' + left' + Frame <= ClearDot + Pace
  <2>1. \/ clock > EnterDot /\ clock + left <= ClearDot + Pace
        \/ clock <= EnterDot /\ clock + left + Frame <= ClearDot + Pace
    BY <1>5 DEF EventInv, VblankInv
  <2>2. QED
    BY <1>1, <2>1, Places
<1>6. ASSUME phase = "ppu", owed' = "ppu"
      PROVE  /\ ~before /\ vblank'
             /\ clock' + left' <= EnterDot + Pace
  <2>1. CASE clock = EnterDot
    BY <1>1, <1>3, <1>5, <1>6, <2>1, Places
  <2>2. CASE clock # EnterDot
    <3>1. owed = "ppu" /\ ~before /\ vblank /\ clock + left <= EnterDot + Pace
      BY <1>1, <1>6, <2>2 DEF EventInv, VblankInv
    <3>2. clock # ClearDot
      BY <1>1, <3>1, Places
    <3>3. QED
      BY <1>1, <1>2, <3>1, <3>2, Places
  <2>3. QED
    BY <2>1, <2>2
<1>7. phase = "ppu" /\ ~before /\ vblank' => owed' = "ppu"
  BY <1>1 DEF EventInv, VblankInv
<1>8. phase # "ppu" => owed' # "ppu"
  BY <1>1 DEF EventInv, VblankInv
<1>9. QED
  BY <1>1, <1>4, <1>5, <1>6, <1>7, <1>8 DEF VblankInv

LEMMA DotKeepsOffer ==
  ASSUME EventInv, Dot
  PROVE  OfferInv' /\ (vblank /\ ~vblank' => offered')
<1>1. /\ clock \in 0..(Frame - 1) /\ left \in Nat \ {0} /\ left' = left - 1
      /\ clock' = IF clock = Frame - 1 THEN 0 ELSE clock + 1
      /\ vblank' <=> (clock = EnterDot \/ (vblank /\ clock # ClearDot))
      /\ offered' <=> offered /\ clock # EnterDot
      /\ phase \in {"dma", "ppu"} /\ cycles \in Nat
      /\ UNCHANGED <<phase, cycles>>
  BY DotByNumber DEF EventInv, ClockInv, TypeOK
<1>2. vblank => EnterDot < clock /\ clock <= ClearDot
  BY DEF EventInv, VblankInv
<1>3. /\ phase = "dma" => left + 3 * cycles <= Transfer
      /\ phase = "ppu" => left <= Pace
  BY DEF EventInv, PaceInv
<1>4. vblank /\ ~offered =>
        /\ phase = "dma" => clock + left + 3 * cycles <= ClearDot
        /\ phase = "ppu" => clock + left <= ClearDot
  BY DEF EventInv, OfferInv
<1>5. vblank /\ ~offered => clock + left <= ClearDot
  BY <1>1, <1>4, Places
<1>6. vblank /\ ~vblank' => offered'
  BY <1>1, <1>2, <1>5, Places
<1>7. ASSUME vblank', ~offered'
      PROVE  /\ phase' = "dma" => clock' + left' + 3 * cycles' <= ClearDot
             /\ phase' = "ppu" => clock' + left' <= ClearDot
  <2>1. CASE clock = EnterDot
    BY <1>1, <1>3, <2>1, Places
  <2>2. CASE clock # EnterDot
    BY <1>1, <1>2, <1>4, <1>7, <2>2, Places
  <2>3. QED
    BY <2>1, <2>2
<1>8. QED
  BY <1>6, <1>7 DEF OfferInv

LEMMA DotKeepsIrq ==
  ASSUME EventInv, Dot
  PROVE  IrqInv'
<1>1. /\ clock \in 0..(Frame - 1) /\ left \in Nat \ {0} /\ left' = left - 1
      /\ clock' = IF clock = Frame - 1 THEN 0 ELSE clock + 1
      /\ UNCHANGED phase
  BY DotByNumber
<1>2. /\ IF CountsLine THEN irq' \in BOOLEAN ELSE UNCHANGED irq
      /\ irqOwed' = IF CountsLine /\ irq' THEN phase ELSE irqOwed
  BY DEF Dot
<1>3. CASE phase # "ppu"
  BY <1>1, <1>2, <1>3 DEF EventInv, IrqInv
<1>4. CASE phase = "ppu" /\ irq
  <2>1. PICK counted \in 0..PostRender :
          /\ Dots * counted + IrqDot < clock
          /\ clock + left <= Dots * counted + IrqDot + Pace
    BY <1>4 DEF EventInv, IrqInv
  <2> DEFINE raised == Dots * counted + IrqDot
  <2>2. raised \in Nat /\ raised + Pace <= EnterDot
    BY AfterCountedLine
  <2>3. raised < clock /\ clock + left <= raised + Pace
    BY <2>1
  <2>4. ~CountsLine
    <3> SUFFICES ASSUME CountsLine PROVE FALSE
      OBVIOUS
    <3>1. Scanline \in 0..PostRender /\ clock = Dots * Scanline + IrqDot
      BY <1>1, Places, CountedLine
    <3>2. clock + 1 <= raised + Pace
      <4> HIDE DEF raised
      <4>1. QED
        BY <1>1, <2>2, <2>3, Places
    <3>3. QED
      BY <2>3, <3>1, <3>2, AfterCountedLine
  <2>5. clock' = clock + 1 /\ raised < clock' /\ clock' + left' <= raised + Pace
    <3> HIDE DEF raised
    <3>1. QED
      BY <1>1, <2>2, <2>3, Places
  <2>6. irqOwed = "ppu"
    BY <1>4 DEF EventInv, IrqInv
  <2>7. irq' /\ irqOwed' = "ppu"
    BY <1>2, <1>4, <2>4, <2>6, Zenon
  <2>8. QED
    BY <1>1, <1>4, <2>5, <2>7 DEF IrqInv
<1>5. CASE phase = "ppu" /\ ~irq
  <2>1. irqOwed # "ppu"
    BY <1>5 DEF EventInv, IrqInv
  <2>2. CASE CountsLine /\ irq'
    <3>1. Scanline \in 0..PostRender /\ clock = Dots * Scanline + IrqDot
      BY <1>1, <2>2, Places, CountedLine
    <3>2. left <= Pace
      BY <1>5 DEF EventInv, PaceInv
    <3> DEFINE raised == Dots * Scanline + IrqDot
    <3>3. raised \in Nat /\ raised + Pace <= EnterDot /\ clock = raised
      BY <3>1, AfterCountedLine
    <3>4. raised < clock' /\ clock' + left' <= raised + Pace
      <4> HIDE DEF raised
      <4>1. QED
        BY <1>1, <3>2, <3>3, Places
    <3>5. irqOwed' = "ppu"
      BY <1>2, <1>5, <2>2
    <3>6. \E counted \in 0..PostRender :
            Dots * counted + IrqDot < clock' /\ clock' + left' <= Dots * counted + IrqDot + Pace
      BY <3>1, <3>4
    <3>7. QED
      BY <1>1, <1>5, <2>2, <3>5, <3>6 DEF IrqInv
  <2>3. CASE ~ (CountsLine /\ irq')
    <3>1. ~irq' /\ irqOwed' = irqOwed
      BY <1>2, <1>5, <2>3, Zenon
    <3>2. QED
      BY <1>1, <1>5, <2>1, <3>1 DEF IrqInv
  <2>4. QED
    BY <2>2, <2>3
<1>6. QED
  BY <1>3, <1>4, <1>5

-----------------------------------------------------------------------------
LEMMA EventStep == EventInv /\ [Next]_vars => EventInv'
<1> SUFFICES ASSUME EventInv, [Next]_vars
             PROVE  PaceInv' /\ VblankInv' /\ OfferInv' /\ IrqInv'
  BY ClockStep DEF EventInv
<1>1. CASE UNCHANGED vars
  BY <1>1 DEF EventInv, PaceInv, VblankInv, OfferInv, IrqInv, vars, ppu, machine,
             history
<1>2. CASE Dot
  BY <1>2, DotKeepsPace, DotKeepsVblank, DotKeepsOffer, DotKeepsIrq
<1>3. QED
  BY <1>1, <1>2, PlainKeeps, ReadStatusKeeps, StartDmaKeeps, EndDmaKeeps,
     EventKeeps DEF Next

LEMMA EventInvariant == Spec => []EventInv
<1>1. QED
  BY EventInit, EventStep, PTL DEF Spec

(* However long instructions and transfers take, within the pace of the    *)
(* machine: a tick renders a frame if and only if a vblank began in it.    *)
THEOREM OneFramePerVblank == Spec => []RenderedOncePerVblank
<1>1. EventInv => RenderedOncePerVblank
  BY NotBoth DEF RenderedOncePerVblank
<1>2. QED
  BY <1>1, EventInvariant, PTL

(* An IRQ is handed to the CPU at the end of the tick in which the mapper  *)
(* raised it, and at no other: no vblank hides it.                         *)
THEOREM IrqReachesCpuOnce == Spec => []IrqDeliveredOnce
<1>1. EventInv => IrqDeliveredOnce
  BY NotBoth DEF IrqDeliveredOnce
<1>2. QED
  BY <1>1, EventInvariant, PTL

(* The flag is not cleared before an instruction could have read it, even  *)
(* when it was set during a transfer.                                      *)
THEOREM PollingSeesVblank == Spec => VblankVisible
<1>1. EventInv /\ [Next]_vars => [vblank /\ ~vblank' => offered']_vars
  <2> SUFFICES ASSUME EventInv, Next, vblank, ~vblank'
               PROVE  offered'
    OBVIOUS
  <2>1. CASE Dot
    BY <2>1, DotKeepsOffer
  <2>2. ASSUME NEW c \in Cycles, ReadStatus(c) PROVE offered'
    BY <2>2, InstructionIsShort DEF ReadStatus
  <2>3. (\E c \in Cycles : Plain(c) \/ StartDma(c)) \/ EndDma \/ RenderFrame
          \/ Interrupt \/ NoEvent => UNCHANGED vblank
    BY DEF Plain, StartDma, EndDma, RenderFrame, Interrupt, NoEvent, ppu
  <2>4. QED
    BY <2>1, <2>2, <2>3 DEF Next
<1>2. QED
  BY <1>1, EventInvariant, PTL DEF Spec, VblankVisible

-----------------------------------------------------------------------------
(* The fetches.                                                            *)

(* The parts of v, also when its top bit, which no field uses, is set.     *)
LEMMA PartsOfWord ==
  ASSUME NEW word \in Int, 0 <= word, word <= 65535
  PROVE  /\ 0 <= (word % 32) * 8 /\ (word % 32) * 8 <= 248
         /\ 0 <= ScrollY(word) /\ ScrollY(word) <= 263 /\ ScrollY(word) \in Int
         /\ (word \div 1024) % 2 \in 0 .. 1 /\ (word \div 2048) % 2 \in 0 .. 1
<1>1. word \div 4096 \in Nat /\ word \div 4096 <= 15
  BY SMT
<1>2. word \div 32 \in Nat
  BY SMT
<1>3. (word \div 32) % 32 \in 0 .. 31 /\ word % 32 \in 0 .. 31
  BY <1>2, SMT
<1>4. word \div 1024 \in Nat /\ word \div 2048 \in Nat
  BY SMT
<1>5. (word \div 1024) % 2 \in 0 .. 1 /\ (word \div 2048) % 2 \in 0 .. 1
  BY <1>4, SMT
<1> QED
  BY <1>1, <1>3, <1>5, SMT DEF ScrollY

LEMMA WordIsInt ==
  ASSUME NEW word \in Word
  PROVE  word \in Int /\ 0 <= word /\ word <= 65535
BY DEF Word

(* What is below 8192 is a byte of the pattern tables.                     *)
LEMMA InTable ==
  ASSUME NEW n \in Int, 0 <= n, n <= 8191
  PROVE  n \in TableBytes
<1> DEFINE top == 8191
<1>1. top \in Nat /\ n <= top
  OBVIOUS
<1>2. TableBytes = 0 .. top
  BY DEF TableBytes
<1> HIDE DEF top
<1> QED BY <1>1, <1>2

(* Where a dot of the background lies: inside a screen of 256 by 240.      *)
LEMMA DotOnScreen ==
  ASSUME NEW word \in Word, NEW fine \in FineScrolls, NEW x \in Bytes
  PROVE  VirtualX(word, fine, x) \in Bytes /\ VirtualY(word) \in ScreenRows
<1>1. 0 <= (word % 32) * 8 /\ (word % 32) * 8 <= 248 /\ (word % 32) * 8 \in Int
  BY PartsOfWord, WordIsInt, SMT
<1>2. VirtualX(word, fine, x) \in Bytes
  BY <1>1, SMTT(60) DEF VirtualX, ScrollX, Bytes, FineScrolls
<1>3. 0 <= ScrollY(word) /\ ScrollY(word) <= 263 /\ ScrollY(word) \in Int
  BY PartsOfWord, WordIsInt, SMT
<1>4. VirtualY(word) \in ScreenRows
  BY <1>3, SMT DEF VirtualY, ScreenRows
<1> QED
  BY <1>2, <1>4

(* For every v, every fine scroll and every dot of a line, what            *)
(* render_background_pixel reads is an entry of one of the four            *)
(* nametables, an attribute of the same one and a row of a pattern table:  *)
(* the subtractions stay above zero and no address leaves its area.        *)
THEOREM BackgroundFetchesInBounds ==
  \A word \in Word, fine \in FineScrolls, x \in Bytes :
    BackgroundInBounds(word, fine, x)
<1> SUFFICES ASSUME NEW word \in Word, NEW fine \in FineScrolls, NEW x \in Bytes
             PROVE  BackgroundInBounds(word, fine, x)
  OBVIOUS
<1>1. VirtualX(word, fine, x) \in Bytes /\ VirtualY(word) \in ScreenRows
  BY DotOnScreen
<1>2. VirtualNametable(word, fine, x) \in 0 .. 3
  <2>1. (word \div 1024) % 2 \in 0 .. 1 /\ (word \div 2048) % 2 \in 0 .. 1
    BY PartsOfWord, WordIsInt, SMT
  <2> QED
    BY <2>1, SMT DEF VirtualNametable
<1>3. VerticalTile(word) \in 0 .. 29 /\ HorizontalTile(word, fine, x) \in 0 .. 31
  BY <1>1, SMT DEF VerticalTile, HorizontalTile, Bytes, ScreenRows
<1>4. NametableOffset(word, fine, x) \in 0 .. 959
  BY <1>3, SMT DEF NametableOffset
<1>5. AttributeOffset(word, fine, x) \in 960 .. 1023
  BY <1>3, SMT DEF AttributeOffset
<1>6. ASSUME NEW table \in {0, 4096}, NEW entry \in Bytes
      PROVE  BackgroundRow(table, entry, word) + 8 \in TableBytes
  <2>1. VirtualY(word) % 8 \in Int /\ 0 <= VirtualY(word) % 8 /\ VirtualY(word) % 8 <= 7
    BY <1>1, SMT DEF ScreenRows
  <2>2. entry \in Int /\ 0 <= entry /\ entry <= 255
    BY SMT DEF Bytes
  <2> DEFINE row == BackgroundRow(table, entry, word) + 8
  <2>3. row \in Int /\ 0 <= row /\ row <= 8191
    BY <2>1, <2>2, SMT DEF BackgroundRow
  <2> QED BY <2>3, InTable
<1> QED
  BY <1>1, <1>2, <1>4, <1>5, <1>6 DEF BackgroundInBounds

(* For every OAM entry and every line, load_sprites_for_next_scanline      *)
(* skips the sprite or adds within u8, picks a row of its tile, also       *)
(* flipped and in the lower half of a large sprite, and reads both planes  *)
(* inside the pattern tables.                                              *)
THEOREM SpriteFetchesInBounds ==
  \A y \in Bytes, beam \in Bytes, height \in Heights, attr \in Bytes,
     table8 \in {0, 4096}, number \in Bytes :
       SpriteInBounds(y, beam, height, attr, table8, number)
<1> SUFFICES ASSUME NEW y \in Bytes, NEW beam \in Bytes,
                    NEW height \in Heights, NEW attr \in Bytes,
                    NEW table8 \in {0, 4096}, NEW number \in Bytes,
                    Covers(y, beam, height, 240)
             PROVE  /\ y + 1 + height \in Bytes
                    /\ TileRow(y, beam, height, attr) \in 0 .. height - 1
                    /\ SpriteRow(height, table8, number, TileRow(y, beam, height, attr)) + 8
                         \in TableBytes
  BY DEF SpriteInBounds
<1> DEFINE row == TileRow(y, beam, height, attr)
<1>1. y <= 238 /\ beam >= y + 1 /\ beam < y + 1 + height
  BY SMT DEF Covers, Heights, Bytes
<1>2. row \in 0 .. height - 1
  BY <1>1, SMT DEF TileRow, Heights, Bytes
<1> HIDE DEF row
<1>3. SpriteRow(height, table8, number, row) + 8 \in TableBytes
  <2>1. number \in Int /\ 0 <= number /\ number <= 255
    BY SMT DEF Bytes
  <2>2. number % 2 \in 0 .. 1 /\ number \div 2 \in 0 .. 127
    BY <2>1, SMT
  <2>3. CASE height = 16
    <3> DEFINE half == number \div 2
               low  == number % 2
    <3>1. /\ half \in Nat /\ half <= 127 /\ low \in {0, 1}
          /\ row \in Nat /\ row <= 15
      BY <1>2, <2>2, <2>3, SMT
    <3>2. SpriteRow(height, table8, number, row)
            = 4096 * low + half * 32 + row + (IF row > 7 THEN 8 ELSE 0)
      BY <2>3 DEF SpriteRow
    <3> HIDE DEF half, low
    <3>3. QED
      BY <3>1, <3>2, InTable, SMT
  <2>4. CASE height = 8
    <3>1. SpriteRow(height, table8, number, row) = table8 + (number * 16) + row
      BY <2>4 DEF SpriteRow
    <3>2. row \in Int /\ 0 <= row /\ row <= 7
      BY <1>2, <2>4, SMT
    <3> QED
      BY <2>1, <3>1, <3>2, InTable, SMT
  <2> QED
    BY <2>3, <2>4 DEF Heights
<1>4. y + 1 + height \in Bytes
  BY <1>1, SMT DEF Heights, Bytes
<1> QED
  BY <1>2, <1>3, <1>4 DEF row

-----------------------------------------------------------------------------
(* The sprites of a frame.                                                 *)

LEMMA LessThanIsWellFounded == IsWellFoundedOn({ss \in Nat \X Nat : ss[1] < ss[2]}, Nat)
BY NatLessThanWellFounded, Zenon DEF OpToRel

(* The least of some natural numbers.                                      *)
LEMMA LeastNumber ==
  ASSUME NEW T, T \subseteq Nat, T # {}
  PROVE  \E n \in T : \A m \in T : n <= m
<1> DEFINE R == {ss \in Nat \X Nat : ss[1] < ss[2]}
<1>1. IsWellFoundedOn(R, Nat)
  BY LessThanIsWellFounded
<1>2. PICK n \in T : \A m \in T : ~(<<m, n>> \in R)
  <2> HIDE DEF R
  <2>1. QED
    BY <1>1, WFMin
<1>3. \A m \in T : m < n => <<m, n>> \in R
  <2>1. \A m \in T : <<m, n>> \in Nat \X Nat /\ <<m, n>>[1] = m /\ <<m, n>>[2] = n
    OBVIOUS
  <2>2. QED
    BY <2>1
<1>4. \A m \in T : ~(m < n)
  <2> HIDE DEF R
  <2>1. QED
    BY <1>2, <1>3
<1>5. QED
  BY <1>4

(* A set that has 0, and the successor of what it has, has every number.   *)
LEMMA SetInduction ==
  ASSUME NEW T, 0 \in T, \A n \in Nat : n \in T => n + 1 \in T
  PROVE  \A n \in Nat : n \in T
<1> DEFINE bad == Nat \ T
<1> SUFFICES ASSUME bad # {} PROVE FALSE
  OBVIOUS
<1>1. PICK m \in bad : \A k \in bad : m <= k
  <2>1. bad \subseteq Nat
    OBVIOUS
  <2> HIDE DEF bad
  <2> QED BY <2>1, LeastNumber
<1>2. m # 0 /\ m - 1 \in Nat /\ ~(m <= m - 1) /\ (m - 1) + 1 = m
  OBVIOUS
<1>3. m - 1 \in T
  <2>1. m - 1 \notin bad
    <3> HIDE DEF bad
    <3> QED BY <1>1, <1>2
  <2> QED BY <1>2, <2>1
<1> QED BY <1>2, <1>3

(* What the loop over OAM has picked after each sprite.                    *)
Nothing == [sprites |-> <<>>, full |-> FALSE]

PickedTo(f, n) == IF n = 0 THEN Nothing ELSE Picture!Pick(f[n - 1], oam[n])

LEMMA PickedIsDefined ==
  ASSUME NEW last \in Nat
  PROVE  \E f : f = [n \in 0 .. last |-> PickedTo(f, n)]
<1> DEFINE Defined(m) == \E f : f = [n \in 0 .. m |-> PickedTo(f, n)]
           T == {m \in Nat : Defined(m)}
<1>1. 0 \in T
  <2> DEFINE f == [n \in 0 .. 0 |-> Nothing]
  <2>1. f = [n \in 0 .. 0 |-> PickedTo(f, n)]
    BY DEF PickedTo
  <2> QED BY <2>1
<1>2. ASSUME NEW m \in Nat, m \in T
      PROVE  m + 1 \in T
  <2>1. PICK f : f = [n \in 0 .. m |-> PickedTo(f, n)]
    BY <1>2
  <2> DEFINE g == [n \in 0 .. m + 1 |-> IF n = m + 1 THEN PickedTo(f, m + 1) ELSE f[n]]
  <2>2. ASSUME NEW n \in 0 .. m + 1
        PROVE  g[n] = PickedTo(g, n)
    <3>1. CASE n = m + 1
      <4>1. g[n - 1] = f[n - 1]
        BY <3>1
      <4> QED BY <3>1, <4>1 DEF PickedTo
    <3>2. CASE n # m + 1
      <4>1. n \in 0 .. m
        BY <3>2
      <4>2. g[n] = f[n] /\ f[n] = PickedTo(f, n)
        BY <2>1, <4>1
      <4>3. n # 0 => g[n - 1] = f[n - 1]
        BY <4>1
      <4> QED BY <4>2, <4>3 DEF PickedTo
    <3> QED BY <3>1, <3>2
  <2>3. g = [n \in 0 .. m + 1 |-> PickedTo(g, n)]
    BY <2>2
  <2>4. Defined(m + 1)
    <3> HIDE DEF g
    <3> QED BY <2>3
  <2> QED BY <2>4
<1>3. last \in T
  <2> HIDE DEF T
  <2> QED BY <1>1, <1>2, SetInduction
<1> QED BY <1>3

LEMMA PickedByStep ==
  ASSUME Len(oam) \in Nat
  PROVE  \A n \in 0 .. Len(oam) : Picture!picked[n] = PickedTo(Picture!picked, n)
<1>1. \E f : f = [n \in 0 .. Len(oam) |-> PickedTo(f, n)]
  BY PickedIsDefined
<1>2. Picture!picked = [n \in 0 .. Len(oam) |-> PickedTo(Picture!picked, n)]
  BY <1>1 DEF Picture!picked, PickedTo, Nothing
<1> QED BY <1>2

(* The sprites that a game shows, and those of a line.                     *)
OamEntries == [x : Nat, y : Nat, opaque : SUBSET (0 .. SpriteWidth - 1)]
LineEntries == [x : Nat, opaque : SUBSET (0 .. SpriteWidth - 1), zero : BOOLEAN]
OamOk == oam \in Seq(OamEntries) /\ oam # <<>>

Covered(y, n) == {i \in 1 .. n : Picture!Covers(oam[i].y, y, Height, ScreenLines)}

(* The list begins with the sprite that covers the line first, if any.     *)
Front(list, y, n) ==
  /\ list = <<>> => Covered(y, n) = {}
  /\ list # <<>> => \E i \in Covered(y, n) :
       /\ \A k \in Covered(y, n) : i <= k
       /\ list[1].x = oam[i].x /\ list[1].opaque = oam[i].opaque

(* Only the first of a list is taken for sprite 0.                         *)
OnlyFirst(list) == \A k \in DOMAIN list : list[k].zero <=> k = 1

(* What the loop has picked: all that cover the line, or as many as fit    *)
(* and the mark that there were more.                                      *)
PickedWell(so, n) ==
  /\ so \in [sprites : Seq(LineEntries), full : BOOLEAN]
  /\ so.full <=> Cardinality(Covered(line + 1, n)) > PerLine
  /\ Len(so.sprites) = IF so.full THEN PerLine ELSE Cardinality(Covered(line + 1, n))
  /\ Front(so.sprites, line + 1, n) /\ OnlyFirst(so.sprites)

LEMMA CoveredGrows ==
  ASSUME NEW y, NEW n \in Nat
  PROVE  /\ IsFiniteSet(Covered(y, n)) /\ Cardinality(Covered(y, n)) \in Nat
         /\ Covered(y, n) \subseteq 1 .. n
         /\ Covered(y, 0) = {} /\ Cardinality(Covered(y, 0)) = 0
         /\ Picture!Covers(oam[n + 1].y, y, Height, ScreenLines)
              => /\ Covered(y, n + 1) = Covered(y, n) \cup {n + 1}
                 /\ Cardinality(Covered(y, n + 1)) = Cardinality(Covered(y, n)) + 1
         /\ ~Picture!Covers(oam[n + 1].y, y, Height, ScreenLines)
              => Covered(y, n + 1) = Covered(y, n)
<1>1. IsFiniteSet(Covered(y, n)) /\ Covered(y, n) \subseteq 1 .. n
  <2>1. IsFiniteSet(1 .. n) /\ Covered(y, n) \subseteq 1 .. n
    BY FS_Interval DEF Covered
  <2> QED BY <2>1, FS_Subset
<1>2. Covered(y, 0) = {}
  BY DEF Covered
<1>3. ASSUME Picture!Covers(oam[n + 1].y, y, Height, ScreenLines)
      PROVE  /\ Covered(y, n + 1) = Covered(y, n) \cup {n + 1}
             /\ Cardinality(Covered(y, n + 1)) = Cardinality(Covered(y, n)) + 1
  <2>1. Covered(y, n + 1) = Covered(y, n) \cup {n + 1} /\ n + 1 \notin Covered(y, n)
    BY <1>3 DEF Covered
  <2> QED BY <1>1, <2>1, FS_AddElement
<1>4. ASSUME ~Picture!Covers(oam[n + 1].y, y, Height, ScreenLines)
      PROVE  Covered(y, n + 1) = Covered(y, n)
  BY <1>4 DEF Covered
<1> QED BY <1>1, <1>2, <1>3, <1>4, FS_CardinalityType, FS_EmptySet

(* A sprite further down the list does not displace the first.             *)
LEMMA FrontKept ==
  ASSUME NEW y, NEW n \in Nat, NEW list, NEW longer, Front(list, y, n),
         list # <<>>, longer # <<>>, longer[1] = list[1],
         Covered(y, n + 1) = Covered(y, n) \cup {n + 1}
  PROVE  Front(longer, y, n + 1)
<1>1. PICK i \in Covered(y, n) :
        /\ \A k \in Covered(y, n) : i <= k
        /\ list[1].x = oam[i].x /\ list[1].opaque = oam[i].opaque
  BY DEF Front
<1>2. i \in 1 .. n
  BY <1>1, CoveredGrows
<1>3. i \in Covered(y, n + 1) /\ \A k \in Covered(y, n + 1) : i <= k
  BY <1>1, <1>2
<1> QED BY <1>1, <1>3 DEF Front

LEMMA OnePicked ==
  ASSUME OamOk, NEW n \in Nat, n < Len(oam), NEW so, PickedWell(so, n)
  PROVE  PickedWell(Picture!Pick(so, oam[n + 1]), n + 1)
<1> DEFINE sprite == oam[n + 1]
           covers == Picture!Covers(sprite.y, line + 1, Height, ScreenLines)
           count == Cardinality(Covered(line + 1, n))
           next == Picture!Pick(so, sprite)
<1>1. sprite \in OamEntries
  BY DEF OamOk
<1>2. /\ count \in Nat
      /\ covers => /\ Cardinality(Covered(line + 1, n + 1)) = count + 1
                   /\ Covered(line + 1, n + 1) = Covered(line + 1, n) \cup {n + 1}
      /\ ~covers => Covered(line + 1, n + 1) = Covered(line + 1, n)
  BY CoveredGrows
<1>3. PerLine \in Nat \ {0}
  BY SpritesAssumption
<1>4. CASE ~covers
  <2>1. next = so
    BY <1>4 DEF Picture!Pick
  <2> QED BY <1>2, <1>4, <2>1 DEF PickedWell, Front
<1>5. CASE covers /\ so.full
  <2>1. next = so
    BY <1>5 DEF Picture!Pick
  <2>2. so.sprites \in Seq(LineEntries) /\ Len(so.sprites) = PerLine
    BY <1>5 DEF PickedWell
  <2>3. so.sprites # <<>>
    BY <1>3, <2>2
  <2>4. Front(so.sprites, line + 1, n + 1)
    BY <1>2, <1>5, <2>3, FrontKept DEF PickedWell
  <2> QED BY <1>2, <1>3, <1>5, <2>1, <2>4 DEF PickedWell
<1>6. CASE covers /\ ~so.full /\ Len(so.sprites) >= PerLine
  <2>1. next = [so EXCEPT !.full = TRUE]
    BY <1>6 DEF Picture!Pick
  <2>2. so.sprites # <<>>
    BY <1>3, <1>6 DEF PickedWell
  <2>3. /\ next \in [sprites : Seq(LineEntries), full : BOOLEAN]
        /\ next.full /\ next.sprites = so.sprites
    BY <2>1 DEF PickedWell
  <2>4. Front(so.sprites, line + 1, n + 1)
    BY <1>2, <1>6, <2>2, FrontKept DEF PickedWell
  <2> QED BY <1>2, <1>3, <1>6, <2>3, <2>4 DEF PickedWell
<1>7. CASE covers /\ ~so.full /\ ~(Len(so.sprites) >= PerLine)
  <2> DEFINE entry == [x |-> sprite.x, opaque |-> sprite.opaque, zero |-> so.sprites = <<>>]
  <2>1. next = [so EXCEPT !.sprites = Append(@, entry)]
    BY <1>7 DEF Picture!Pick
  <2>2. entry \in LineEntries
    BY <1>1 DEF OamEntries, LineEntries
  <2>3. /\ next \in [sprites : Seq(LineEntries), full : BOOLEAN]
        /\ next.full = so.full /\ next.sprites = Append(so.sprites, entry)
    <3> HIDE DEF entry
    <3> QED BY <2>1, <2>2, SMTT(60) DEF PickedWell
  <2>4. Len(next.sprites) = count + 1
    BY <1>7, <2>3 DEF PickedWell
  <2>5. next.full <=> count + 1 > PerLine
    BY <1>2, <1>3, <1>7, <2>3 DEF PickedWell
  <2>6. so.sprites \in Seq(LineEntries) /\ OnlyFirst(so.sprites) /\ Front(so.sprites, line + 1, n)
    BY DEF PickedWell
  <2>7. entry.x = sprite.x /\ entry.opaque = sprite.opaque /\ (entry.zero <=> so.sprites = <<>>)
    BY Zenon
  <2>8. Front(next.sprites, line + 1, n + 1)
    <3> HIDE DEF entry, sprite
    <3>1. CASE so.sprites = <<>>
      <4>1. Covered(line + 1, n + 1) = {n + 1}
        BY <1>2, <1>7, <2>6, <3>1 DEF Front, sprite
      <4>2. next.sprites = <<entry>>
        BY <2>3, <3>1
      <4> QED BY <2>7, <4>1, <4>2 DEF Front, sprite
    <3>2. CASE so.sprites # <<>>
      <4>1. next.sprites # <<>> /\ next.sprites[1] = so.sprites[1]
        BY <2>2, <2>3, <2>6, <3>2
      <4> QED BY <1>2, <1>7, <2>6, <3>2, <4>1, FrontKept DEF sprite
    <3> QED BY <3>1, <3>2
  <2>9. OnlyFirst(next.sprites)
    <3> HIDE DEF entry, sprite
    <3> SUFFICES ASSUME NEW k \in DOMAIN next.sprites
                 PROVE  next.sprites[k].zero <=> k = 1
      BY DEF OnlyFirst
    <3>1. CASE k = Len(so.sprites) + 1
      <4>1. next.sprites[k] = entry
        BY <2>2, <2>3, <2>6, <3>1
      <4>2. so.sprites = <<>> <=> k = 1
        BY <2>6, <3>1
      <4> QED BY <2>7, <4>1, <4>2
    <3>2. CASE k # Len(so.sprites) + 1
      <4>1. k \in DOMAIN so.sprites /\ next.sprites[k] = so.sprites[k]
        BY <2>2, <2>3, <2>6, <3>2
      <4> QED BY <2>6, <4>1 DEF OnlyFirst
    <3> QED BY <3>1, <3>2
  <2> QED BY <1>2, <1>7, <2>3, <2>4, <2>5, <2>8, <2>9 DEF PickedWell
<1> QED BY <1>4, <1>5, <1>6, <1>7

LEMMA LinePicked ==
  ASSUME OamOk
  PROVE  PickedWell(Picture!picked[Len(oam)], Len(oam))
<1> DEFINE T == {n \in Nat : n <= Len(oam) => PickedWell(Picture!picked[n], n)}
<1>0. Len(oam) \in Nat
  BY DEF OamOk
<1>1. 0 \in T
  <2>1. Picture!picked[0] = Nothing
    BY <1>0, PickedByStep DEF PickedTo
  <2>2. PickedWell(Nothing, 0)
    BY CoveredGrows, SpritesAssumption DEF PickedWell, Nothing, Front, OnlyFirst
  <2> QED BY <2>1, <2>2
<1>2. ASSUME NEW n \in Nat, n \in T
      PROVE  n + 1 \in T
  <2> SUFFICES ASSUME n + 1 <= Len(oam) PROVE PickedWell(Picture!picked[n + 1], n + 1)
    OBVIOUS
  <2>1. Picture!picked[n + 1] = Picture!Pick(Picture!picked[n], oam[n + 1])
    BY <1>0, PickedByStep DEF PickedTo
  <2>2. PickedWell(Picture!picked[n], n)
    BY <1>0, <1>2
  <2> QED BY <1>0, <2>1, <2>2, OnePicked
<1>3. Len(oam) \in T
  <2> HIDE DEF T
  <2> QED BY <1>0, <1>1, <1>2, SetInduction
<1> QED BY <1>0, <1>3

-----------------------------------------------------------------------------
(* While nothing changes, the flags are about the dots drawn so far, and   *)
(* the list is the line's: on the first line the one of the frame before.  *)
MaskBits == {"background", "backgroundLeft", "sprites", "spritesLeft"}

Drawn(x, y) == y < line \/ (y = line /\ x < dot)

MetSoFar == \E y \in 0 .. ScreenLines - 1, x \in 0 .. Width - 1 :
  Picture!Meets(x, y) /\ Drawn(x, y)

FlagsSoFar ==
  /\ overflow <=> \E y \in 1 .. line : Cardinality(Picture!SpritesOn(y)) > PerLine
  /\ line = 0 => sprites = carried
  /\ line >= 1 => Front(sprites, line, Len(oam))
  /\ hit <=> MetSoFar

BeamOk ==
  /\ line \in 0 .. ScreenLines /\ dot \in 0 .. Width
  /\ line = ScreenLines => dot = 0
  /\ sprites \in Seq(LineEntries) /\ Len(sprites) <= PerLine /\ OnlyFirst(sprites)
  /\ hit \in BOOLEAN /\ overflow \in BOOLEAN /\ steady \in BOOLEAN

SpriteInv ==
  /\ OamOk /\ mask \in [MaskBits -> BOOLEAN]
  /\ BeamOk
  /\ steady => FlagsSoFar

LEMMA SpriteNumbers ==
  /\ ScreenLines \in Nat \ {0} /\ Width \in Nat \ {0} /\ PerLine \in Nat \ {0}
  /\ SpriteWidth \in Nat /\ Height \in Nat /\ Left \in Nat
BY SpritesAssumption

LEMMA Shows ==
  /\ \A o \in Oams : o # <<>> /\ o \in Seq(OamEntries)
  /\ Masks \subseteq [MaskBits -> BOOLEAN]
  /\ Oams # {} /\ Masks # {}
BY SpritesAssumption DEF OamEntries, MaskBits

LEMMA SpriteStart == PowerOn => SpriteInv
<1> SUFFICES ASSUME PowerOn PROVE SpriteInv
  OBVIOUS
<1>1. Picture!SpritesInit
  BY DEF PowerOn
<1>2. oam \in Oams /\ mask \in Masks
  BY <1>1 DEF Picture!SpritesInit
<1>3. OamOk /\ mask \in [MaskBits -> BOOLEAN]
  BY <1>2, Shows DEF OamOk
<1>4. /\ line = 0 /\ dot = 0 /\ sprites = <<>> /\ hit = FALSE /\ overflow = FALSE
      /\ carried = <<>> /\ steady = TRUE
  BY <1>1 DEF Picture!SpritesInit
<1>5. BeamOk
  <2>1. line \in 0 .. ScreenLines /\ dot \in 0 .. Width /\ (line = ScreenLines => dot = 0)
    BY <1>4, SpriteNumbers
  <2>2. sprites \in Seq(LineEntries) /\ Len(sprites) <= PerLine /\ OnlyFirst(sprites)
    BY <1>4, SpriteNumbers DEF OnlyFirst
  <2>3. hit \in BOOLEAN /\ overflow \in BOOLEAN /\ steady \in BOOLEAN
    BY <1>4, Zenon
  <2> QED BY <2>1, <2>2, <2>3 DEF BeamOk
<1>6. FlagsSoFar
  <2>1. ~MetSoFar
    BY <1>4, SpriteNumbers DEF MetSoFar, Drawn
  <2>2. ~(\E y \in 1 .. line : Cardinality(Picture!SpritesOn(y)) > PerLine)
    BY <1>4
  <2>3. (line = 0 => sprites = carried) /\ ~(line >= 1)
    BY <1>4
  <2> QED BY <1>4, <2>1, <2>2, <2>3, Zenon DEF FlagsSoFar
<1> QED BY <1>3, <1>5, <1>6 DEF SpriteInv

LEMMA GameChanges ==
  ASSUME SpriteInv,
         \/ Picture!WriteMask \/ Picture!cpu_oam_dma
         \/ \E i \in DOMAIN oam : Picture!OamData2004(i, 0)
  PROVE  SpriteInv'
<1>1. OamOk /\ mask \in [MaskBits -> BOOLEAN] /\ BeamOk
  BY DEF SpriteInv
<1>2. steady' = FALSE /\ UNCHANGED <<line, dot, sprites, hit, overflow>>
  BY DEF Picture!WriteMask, Picture!cpu_oam_dma, Picture!OamData2004
<1>3. BeamOk'
  BY <1>1, <1>2 DEF BeamOk, OnlyFirst
<1>4. CASE Picture!WriteMask
  <2>1. OamOk' /\ mask' \in [MaskBits -> BOOLEAN]
    BY <1>1, <1>4, Shows DEF Picture!WriteMask, OamOk
  <2> QED BY <1>2, <1>3, <2>1 DEF SpriteInv
<1>5. CASE Picture!cpu_oam_dma
  <2>1. OamOk' /\ mask' \in [MaskBits -> BOOLEAN]
    BY <1>1, <1>5, Shows DEF Picture!cpu_oam_dma, OamOk
  <2> QED BY <1>2, <1>3, <2>1 DEF SpriteInv
<1>6. ASSUME NEW i \in DOMAIN oam, Picture!OamData2004(i, 0)
      PROVE  SpriteInv'
  <2>1. oam' = [oam EXCEPT ![i].y = 0] /\ mask' = mask
    BY <1>6 DEF Picture!OamData2004
  <2>2. oam \in Seq(OamEntries) /\ oam # <<>> /\ i \in 1 .. Len(oam)
    BY <1>1 DEF OamOk
  <2>3. oam[i] \in OamEntries
    BY <2>2
  <2>4. [oam[i] EXCEPT !.y = 0] \in OamEntries
    BY <2>3 DEF OamEntries
  <2>5. oam' = [oam EXCEPT ![i] = [oam[i] EXCEPT !.y = 0]]
    BY <2>1, Zenon
  <2>6. OamOk'
    <3> DEFINE entry == [oam[i] EXCEPT !.y = 0]
    <3>1. oam' = [oam EXCEPT ![i] = entry] /\ entry \in OamEntries
      BY <2>4, <2>5
    <3> HIDE DEF entry
    <3> QED BY <2>2, <3>1 DEF OamOk
  <2> QED BY <1>1, <1>2, <1>3, <2>1, <2>6 DEF SpriteInv
<1> QED BY <1>4, <1>5, <1>6

LEMMA NewFrame == SpriteInv /\ Picture!PreRenderLine => SpriteInv'
<1> SUFFICES ASSUME SpriteInv, Picture!PreRenderLine PROVE SpriteInv'
  OBVIOUS
<1>1. /\ line = ScreenLines /\ line' = 0 /\ hit' = FALSE /\ overflow' = FALSE /\ steady' = TRUE
      /\ carried' = sprites /\ UNCHANGED <<oam, background, mask, dot, sprites>>
  BY DEF Picture!PreRenderLine
<1>2. OamOk' /\ (mask \in [MaskBits -> BOOLEAN])'
  BY <1>1 DEF SpriteInv, OamOk
<1>3. BeamOk' /\ dot' = 0
  <2>1. BeamOk
    BY DEF SpriteInv
  <2>2. line' \in 0 .. ScreenLines /\ dot' \in 0 .. Width /\ dot' = 0
    BY <1>1, <2>1, SpriteNumbers DEF BeamOk
  <2>3. hit' \in BOOLEAN /\ overflow' \in BOOLEAN /\ steady' \in BOOLEAN
    BY <1>1, Zenon
  <2> QED BY <1>1, <2>1, <2>2, <2>3 DEF BeamOk, OnlyFirst
<1>4. FlagsSoFar'
  <2>1. (~MetSoFar)'
    BY <1>1, <1>3, SpriteNumbers DEF MetSoFar, Drawn
  <2>2. ~(\E y \in 1 .. line : Cardinality(Picture!SpritesOn(y)) > PerLine)'
    BY <1>1
  <2>3. (line = 0 => sprites = carried)' /\ ~(line >= 1)'
    BY <1>1
  <2> QED BY <1>1, <2>1, <2>2, <2>3, Zenon DEF FlagsSoFar
<1> QED BY <1>2, <1>3, <1>4 DEF SpriteInv

LEMMA AllCovered ==
  ASSUME OamOk, NEW y
  PROVE  Picture!SpritesOn(y) = Covered(y, Len(oam))
<1>1. DOMAIN oam = 1 .. Len(oam)
  BY DEF OamOk
<1> QED BY <1>1 DEF Picture!SpritesOn, Covered

(* Meets depends on what a frame leaves alone.                             *)
LEMMA MeetsKept ==
  ASSUME UNCHANGED <<oam, background, mask, carried>>, NEW x, NEW y
  PROVE  /\ Picture!Meets(x, y)' <=> Picture!Meets(x, y)
         /\ Picture!SpritesOn(y)' = Picture!SpritesOn(y)
BY DEF Picture!Meets, Picture!HitsOn, Picture!SpritesOn

LEMMA NextLineLoaded == SpriteInv /\ Picture!EndOfLine => SpriteInv'
<1> SUFFICES ASSUME SpriteInv, Picture!EndOfLine PROVE SpriteInv'
  OBVIOUS
<1> DEFINE so == Picture!picked[Len(oam)]
<1>1. /\ line < ScreenLines /\ dot = Width /\ line' = line + 1 /\ dot' = 0
      /\ sprites' = so.sprites /\ overflow' = (overflow \/ so.full)
      /\ UNCHANGED <<oam, background, mask, hit, carried, steady>>
  BY DEF Picture!EndOfLine, Picture!load_sprites_for_next_scanline
<1>2. OamOk /\ OamOk' /\ (mask \in [MaskBits -> BOOLEAN])'
  BY <1>1 DEF SpriteInv, OamOk
<1>3. PickedWell(so, Len(oam))
  BY <1>2, LinePicked
<1>4. Len(oam) \in Nat /\ Cardinality(Covered(line + 1, Len(oam))) \in Nat
  <2>1. Len(oam) \in Nat
    BY <1>2 DEF OamOk
  <2> QED BY <2>1, CoveredGrows
<1> HIDE DEF so
<1>5. BeamOk'
  <2>1. line' \in 0 .. ScreenLines /\ dot' \in 0 .. Width /\ (line' = ScreenLines => dot' = 0)
    BY <1>1, SpriteNumbers DEF SpriteInv, BeamOk
  <2>2. sprites' \in Seq(LineEntries) /\ Len(sprites') <= PerLine /\ OnlyFirst(sprites')
    BY <1>1, <1>3, <1>4, SpriteNumbers DEF PickedWell
  <2>3. hit' \in BOOLEAN /\ steady' \in BOOLEAN
    BY <1>1 DEF SpriteInv, BeamOk
  <2>4. overflow' \in BOOLEAN
    BY <1>1, Zenon
  <2> QED BY <2>1, <2>2, <2>3, <2>4 DEF BeamOk, OnlyFirst
<1>6. ASSUME steady PROVE FlagsSoFar'
  <2>1. FlagsSoFar /\ line \in 0 .. ScreenLines
    BY <1>6 DEF SpriteInv, BeamOk
  <2>2. so.full <=> Cardinality(Picture!SpritesOn(line + 1)) > PerLine
    BY <1>2, <1>3, AllCovered DEF PickedWell
  <2>3. (overflow <=> \E y \in 1 .. line : Cardinality(Picture!SpritesOn(y)) > PerLine)'
    <3>1. 1 .. line' = (1 .. line) \cup {line + 1}
      BY <1>1, <2>1, SpriteNumbers
    <3>2. \A y : Picture!SpritesOn(y)' = Picture!SpritesOn(y)
      BY <1>1, MeetsKept
    <3>3. overflow' <=> overflow \/ so.full
      BY <1>1, Zenon
    <3>4. overflow <=> \E y \in 1 .. line : Cardinality(Picture!SpritesOn(y)) > PerLine
      BY <2>1 DEF FlagsSoFar
    <3>5. overflow' <=> \E y \in 1 .. line' : Cardinality(Picture!SpritesOn(y)) > PerLine
      BY <2>2, <3>1, <3>3, <3>4
    <3> QED BY <3>2, <3>5, Zenon
  <2>4. (line # 0)' /\ Front(sprites, line, Len(oam))'
    BY <1>1, <1>3, <2>1 DEF PickedWell, Front, Covered
  <2>5. (hit <=> MetSoFar)'
    <3>1. \A x \in 0 .. Width - 1, y \in 0 .. ScreenLines - 1 : Drawn(x, y)' <=> Drawn(x, y)
      BY <1>1, <2>1, SpriteNumbers DEF Drawn
    <3>2. MetSoFar' <=> MetSoFar
      BY <1>1, <3>1, MeetsKept DEF MetSoFar
    <3>3. hit' = hit /\ (hit <=> MetSoFar)
      BY <1>1, <2>1 DEF FlagsSoFar
    <3> QED BY <3>2, <3>3, Zenon
  <2> QED BY <2>3, <2>4, <2>5, Zenon DEF FlagsSoFar
<1> QED BY <1>1, <1>2, <1>5, <1>6 DEF SpriteInv

LEMMA LeastOfTwo ==
  ASSUME NEW a \in Int, NEW b \in Int, NEW c \in Int, c < a, c < b
  PROVE  c < Picture!Min({a, b})
<1>1. \E m \in {a, b} : \A k \in {a, b} : m <= k
  BY DEF Picture!Min
<1> QED BY <1>1 DEF Picture!Min

(* Before the last dot a sprite is opaque where its tile is.               *)
LEMMA OpaqueWhereItsTileIs ==
  ASSUME NEW x \in 0 .. Width - 1, x < Width - 1, NEW sprite \in LineEntries
  PROVE  Picture!OpaqueAt(sprite, x) <=> x - sprite.x \in sprite.opaque
<1>1. /\ sprite.x \in Nat /\ sprite.opaque \subseteq 0 .. SpriteWidth - 1
      /\ SpriteWidth \in Nat /\ Width \in Nat \ {0}
  BY SpriteNumbers DEF LineEntries
<1>2. ASSUME x - sprite.x \in sprite.opaque
      PROVE  x >= sprite.x /\ x < Picture!Min({sprite.x + SpriteWidth, Width - 1})
  <2>1. x >= sprite.x /\ x < sprite.x + SpriteWidth
    BY <1>1, <1>2
  <2> QED BY <1>1, <2>1, LeastOfTwo
<1> QED BY <1>2 DEF Picture!OpaqueAt

(* What the first of the list shows is what the line's leading sprite does. *)
LEMMA FirstOfListHits ==
  ASSUME SpriteInv, FlagsSoFar, line < ScreenLines, dot < Width - 1
  PROVE  (\E i \in DOMAIN sprites : sprites[i].zero /\ Picture!OpaqueAt(sprites[i], dot))
           <=> \E sprite \in Picture!HitsOn(line) : dot - sprite.x \in sprite.opaque
<1> DEFINE first == sprites[1]
<1>1. /\ sprites \in Seq(LineEntries) /\ OnlyFirst(sprites) /\ OamOk
      /\ line \in 0 .. ScreenLines /\ dot \in 0 .. Width - 1
  BY SpriteNumbers DEF SpriteInv, BeamOk
<1>2. (\E i \in DOMAIN sprites : sprites[i].zero /\ Picture!OpaqueAt(sprites[i], dot))
        <=> 1 \in DOMAIN sprites /\ Picture!OpaqueAt(first, dot)
  BY <1>1 DEF OnlyFirst
<1>3. 1 \in DOMAIN sprites <=> sprites # <<>>
  BY <1>1
<1>4. 1 \in DOMAIN sprites => (Picture!OpaqueAt(first, dot) <=> dot - first.x \in first.opaque)
  <2>1. 1 \in DOMAIN sprites => first \in LineEntries
    BY <1>1
  <2> QED BY <1>1, <2>1, OpaqueWhereItsTileIs
<1>5. (1 \in DOMAIN sprites /\ dot - first.x \in first.opaque)
        <=> \E sprite \in Picture!HitsOn(line) : dot - sprite.x \in sprite.opaque
  <2>1. CASE line = 0
    <3>1. carried = sprites
      BY <2>1 DEF FlagsSoFar
    <3>2. Picture!HitsOn(line) = {sprites[i] : i \in DOMAIN sprites \cap {1}}
      BY <2>1, <3>1 DEF Picture!HitsOn
    <3> QED BY <3>2
  <2>2. CASE line # 0
    <3>1. Front(sprites, line, Len(oam))
      BY <1>1, <2>2 DEF FlagsSoFar
    <3>2. Picture!HitsOn(line) = {oam[i] : i \in {j \in Covered(line, Len(oam)) :
                                                   \A k \in Covered(line, Len(oam)) : j <= k}}
      BY <1>1, <2>2, AllCovered DEF Picture!HitsOn
    <3>3. CASE sprites = <<>>
      BY <1>3, <3>1, <3>2, <3>3 DEF Front
    <3>4. CASE sprites # <<>>
      <4>1. PICK i \in Covered(line, Len(oam)) :
              /\ \A k \in Covered(line, Len(oam)) : i <= k
              /\ first.x = oam[i].x /\ first.opaque = oam[i].opaque
        BY <3>1, <3>4 DEF Front
      <4>2. Covered(line, Len(oam)) \subseteq Nat
        BY DEF Covered
      <4>3. {j \in Covered(line, Len(oam)) : \A k \in Covered(line, Len(oam)) : j <= k} = {i}
        BY <4>1, <4>2
      <4>4. Picture!HitsOn(line) = {oam[i]}
        BY <3>2, <4>3
      <4> QED BY <1>3, <3>4, <4>1, <4>4
    <3> QED BY <3>3, <3>4
  <2> QED BY <2>1, <2>2
<1> QED BY <1>2, <1>4, <1>5

LEMMA PixelDrawn == SpriteInv /\ Picture!Pixel => SpriteInv'
<1> SUFFICES ASSUME SpriteInv, Picture!Pixel PROVE SpriteInv'
  OBVIOUS
<1> DEFINE unhidden == /\ Picture!Shown("sprites", "spritesLeft", dot)
                       /\ Picture!BackgroundDrawn(dot) /\ ~Picture!HitDisabled(dot)
           opaque == \E i \in DOMAIN sprites :
                       sprites[i].zero /\ Picture!OpaqueAt(sprites[i], dot)
<1>1. /\ line < ScreenLines /\ dot < Width /\ dot' = dot + 1
      /\ UNCHANGED <<oam, background, mask, line, sprites, overflow, carried, steady>>
      /\ Picture!render_sprite_pixel(dot)
  BY DEF Picture!Pixel
<1>2. OamOk /\ OamOk' /\ mask \in [MaskBits -> BOOLEAN] /\ (mask \in [MaskBits -> BOOLEAN])' /\ BeamOk
  BY <1>1 DEF SpriteInv, OamOk
<1>3. hit' \in BOOLEAN /\ (hit' <=> hit \/ (opaque /\ unhidden))
  BY <1>1, Zenon DEF Picture!render_sprite_pixel
<1>4. BeamOk'
  BY <1>1, <1>2, <1>3, SpriteNumbers DEF BeamOk, OnlyFirst
<1>5. ASSUME steady PROVE FlagsSoFar'
  <2>1. FlagsSoFar
    BY <1>5 DEF SpriteInv
  <2>2. opaque /\ unhidden <=> Picture!Meets(dot, line)
    <3>1. unhidden <=> /\ <<dot, line>> \in background /\ mask.background /\ mask.sprites
                       /\ (mask.backgroundLeft /\ mask.spritesLeft) \/ dot >= Left
                       /\ dot < Width - 1
      BY <1>1, <1>2, SpriteNumbers
         DEF Picture!Shown, Picture!BackgroundDrawn, Picture!HitDisabled, BeamOk, MaskBits
    <3>2. dot < Width - 1
            => (opaque <=> \E sprite \in Picture!HitsOn(line) : dot - sprite.x \in sprite.opaque)
      BY <1>1, <2>1, FirstOfListHits
    <3> HIDE DEF opaque, unhidden
    <3> QED BY <3>1, <3>2 DEF Picture!Meets
  <2>3. MetSoFar' <=> MetSoFar \/ Picture!Meets(dot, line)
    <3>1. dot \in 0 .. Width - 1 /\ line \in 0 .. ScreenLines - 1
      BY <1>1, <1>2, SpriteNumbers DEF BeamOk
    <3>2. \A x \in 0 .. Width - 1, y \in 0 .. ScreenLines - 1 :
            Drawn(x, y)' <=> Drawn(x, y) \/ (x = dot /\ y = line)
      BY <1>1, <3>1, SpriteNumbers DEF Drawn
    <3>3. \A x, y : Picture!Meets(x, y)' <=> Picture!Meets(x, y)
      BY <1>1, MeetsKept
    <3> QED BY <3>1, <3>2, <3>3 DEF MetSoFar
  <2>4. (hit <=> MetSoFar)'
    <3>1. hit <=> MetSoFar
      BY <2>1 DEF FlagsSoFar
    <3> HIDE DEF opaque, unhidden
    <3> QED BY <1>3, <2>2, <2>3, <3>1, Zenon
  <2>5. (overflow <=> \E y \in 1 .. line : Cardinality(Picture!SpritesOn(y)) > PerLine)'
    BY <1>1, <2>1, MeetsKept DEF FlagsSoFar
  <2>6. (line = 0 => sprites = carried)' /\ (line >= 1 => Front(sprites, line, Len(oam)))'
    BY <1>1, <2>1 DEF FlagsSoFar, Front, Covered
  <2> QED BY <2>4, <2>5, <2>6, Zenon DEF FlagsSoFar
<1> QED BY <1>1, <1>2, <1>4, <1>5 DEF SpriteInv

LEMMA SpriteStep == SpriteInv /\ [Work]_ppuVars => SpriteInv'
<1> SUFFICES ASSUME SpriteInv, [Work]_ppuVars PROVE SpriteInv'
  OBVIOUS
<1>1. CASE Picture!SpritesNext
  BY <1>1, GameChanges, NewFrame, NextLineLoaded, PixelDrawn DEF Picture!SpritesNext
<1>2. CASE UNCHANGED spriteVars
  <2>1. UNCHANGED <<oam, background, mask, line, dot, sprites, hit, overflow, carried, steady>>
    BY <1>2 DEF spriteVars
  <2>2. (OamOk' <=> OamOk) /\ (BeamOk' <=> BeamOk)
    BY <2>1 DEF OamOk, BeamOk, OnlyFirst
  <2>3. ASSUME FlagsSoFar PROVE FlagsSoFar'
    <3>1. MetSoFar' <=> MetSoFar
      BY <2>1, MeetsKept DEF MetSoFar, Drawn
    <3>2. (overflow <=> \E y \in 1 .. line : Cardinality(Picture!SpritesOn(y)) > PerLine)'
      BY <2>1, <2>3, MeetsKept DEF FlagsSoFar
    <3>3. (line = 0 => sprites = carried)' /\ (line >= 1 => Front(sprites, line, Len(oam)))'
      BY <2>1, <2>3 DEF FlagsSoFar, Front, Covered
    <3>4. (hit <=> MetSoFar)'
      BY <2>1, <2>3, <3>1, Zenon DEF FlagsSoFar
    <3> QED BY <3>2, <3>3, <3>4, Zenon DEF FlagsSoFar
  <2> QED BY <2>1, <2>2, <2>3 DEF SpriteInv
<1> QED BY <1>1, <1>2 DEF Work, ppuVars

LEMMA SpriteInvariant == PpuSpec => []SpriteInv
BY SpriteStart, SpriteStep, PTL DEF PpuSpec

(* At the end of a frame during which the game changes nothing, the sprite *)
(* 0 hit flag is up if and only if the leading sprite of some line met an  *)
(* opaque background where no mask hides either.                           *)
THEOREM SpriteZeroFlagIsExact == PpuSpec => []SpriteZeroHits
<1>1. SpriteInv => SpriteZeroHits
  <2> SUFFICES ASSUME SpriteInv, line = ScreenLines, steady
               PROVE  hit <=> \E y \in 0 .. ScreenLines - 1, x \in 0 .. Width - 1 :
                                Picture!Meets(x, y)
    BY Zenon DEF SpriteZeroHits, Picture!SpriteZeroHitIsExact
  <2>1. hit <=> MetSoFar
    BY DEF SpriteInv, FlagsSoFar
  <2>2. MetSoFar <=> \E y \in 0 .. ScreenLines - 1, x \in 0 .. Width - 1 : Picture!Meets(x, y)
    BY SpriteNumbers DEF MetSoFar, Drawn
  <2> QED BY <2>1, <2>2, Zenon
<1> QED BY <1>1, SpriteInvariant, PTL

LEMMA SameCardinality == \A S : Picture!Cardinality(S) = Cardinality(S)
BY DEF Picture!Cardinality, Picture!IsFiniteSet, Cardinality, IsFiniteSet

(* At the end of such a frame the overflow flag is up if and only if some  *)
(* line of it had more sprites than fit, and every line was looked at.     *)
THEOREM OverflowFlagIsExact == PpuSpec => []OverflowIsExact
<1>1. SpriteInv => OverflowIsExact
  <2> SUFFICES ASSUME SpriteInv, line = ScreenLines, steady
               PROVE  overflow <=> \E y \in 1 .. ScreenLines : Cardinality(Picture!SpritesOn(y)) > PerLine
    BY SameCardinality, Zenon DEF OverflowIsExact, Picture!OverflowIsExact
  <2>1. overflow <=> \E y \in 1 .. line : Cardinality(Picture!SpritesOn(y)) > PerLine
    BY DEF SpriteInv, FlagsSoFar
  <2> QED BY <2>1
<1> QED BY <1>1, SpriteInvariant, PTL

-----------------------------------------------------------------------------
(* The scroll and address registers.                                       *)

LEMMA ScrollBytes ==
  /\ \A val \in ControlValues : val \in Nat /\ val < 256
  /\ \A val \in ScrollValues \union AddrValues : val \in Nat /\ val < 256
  /\ MaskValues \subseteq BOOLEAN /\ MaxWalk \in Nat
BY ScrollAssumption

LEMMA SameOperators ==
  ASSUME NEW m, NEW n
  PROVE  /\ Scroll!And(m, n) = And(m, n)
         /\ Scroll!Or(m, n) = Or(m, n)
         /\ Scroll!Xor(m, n) = Xor(m, n)
<1>1. \A k, place : Scroll!Digit(k, place) = Digit(k, place)
  BY DEF Scroll!Digit, Digit
<1>2. \A a, b : /\ Scroll!AndDigit(a, b) = AndDigit(a, b)
                /\ Scroll!OrDigit(a, b) = OrDigit(a, b)
                /\ Scroll!XorDigit(a, b) = XorDigit(a, b)
  BY DEF Scroll!AndDigit, AndDigit, Scroll!OrDigit, OrDigit, Scroll!XorDigit, XorDigit,
         Scroll!Bits, Bits, Scroll!DigitOf, DigitOf
<1> QED BY <1>1, <1>2 DEF Scroll!And, And, Scroll!Or, Or, Scroll!Xor, Xor

LEMMA SameFields == \A word : Scroll!FieldsOf(word) = Fields(word)
BY DEF Scroll!FieldsOf, Fields

(* The scroll registers: what their types say. *)
ScrollInv ==
  /\ v \in Word /\ t \in Word /\ t < 32768
  /\ fineX \in 0..7 /\ wLatch \in BOOLEAN
  /\ addrInc \in {0, 1, 32} /\ scrolling \in BOOLEAN
  /\ walk \in 0..MaxWalk

LEMMA ScrollInvIsType == ScrollInv <=> Scroll!TypeOK
BY DEF ScrollInv, Scroll!TypeOK, Word

(* Addresses and fields are two views of a word. *)
LEMMA AddressOfFields ==
  ASSUME NEW n \in Word, n < 32768
  PROVE  Scroll!Screen!Address(Fields(n)) = n
BY DEF Scroll!Screen!Address, Fields, Word

LEMMA AtIsFields == \A n : Scroll!Screen!At(n) = Fields(n)
BY DEF Scroll!Screen!At, Fields

LEMMA AccessIsAddition ==
  ASSUME NEW n \in Word, NEW inc \in {0, 1, 32}
  PROVE  Scroll!Screen!At(Scroll!Screen!Address(Fields(n)) + inc) = Fields(n + inc)
<1> PICK k \in {0, 1}, m \in Nat : m < 32768 /\ n = (32768 * k) + m
  <2>1. n \div 32768 \in {0, 1} /\ n % 32768 \in Nat /\ n % 32768 < 32768
        /\ n = (32768 * (n \div 32768)) + (n % 32768)
    BY DEF Word
  <2> QED BY <2>1
<1>1. Fields(n) = Fields(m) /\ Fields(n + inc) = Fields(m + inc)
  BY DEF Fields
<1>2. Scroll!Screen!Address(Fields(m)) = m
  BY AddressOfFields DEF Word
<1> QED BY <1>1, <1>2, AtIsFields

(* A copy changes two or three fields at once.                              *)
HorizontalChanged(fields, x, n) == [fields EXCEPT !.coarseX = x, !.nametable = n]
VerticalChanged(fields, y, f, n) == [fields EXCEPT !.coarseY = y, !.fineY = f, !.nametable = n]

LEMMA HorizontalJoins ==
  ASSUME NEW n, NEW m
  PROVE  Joined(Fields(n), Fields(m))
           = HorizontalChanged(Fields(n), Fields(m).coarseX,
               (2 * (Fields(n).nametable \div 2)) + (Fields(m).nametable % 2))
<1> DEFINE k == (2 * (Fields(n).nametable \div 2)) + (Fields(m).nametable % 2)
           x == Fields(m).coarseX
           between == [Fields(n) EXCEPT !.coarseX = x]
<1>1. Joined(Fields(n), Fields(m))
        = [coarseX |-> x, coarseY |-> Fields(n).coarseY, nametable |-> k, fineY |-> Fields(n).fineY]
  BY DEF Joined
<1> HIDE DEF k, x
<1>2. between = [coarseX |-> x, coarseY |-> Fields(n).coarseY,
                 nametable |-> Fields(n).nametable, fineY |-> Fields(n).fineY]
  BY DEF Fields
<1> HIDE DEF between
<1>3. [between EXCEPT !.nametable = k]
        = [coarseX |-> x, coarseY |-> Fields(n).coarseY, nametable |-> k, fineY |-> Fields(n).fineY]
  BY <1>2
<1>4. HorizontalChanged(Fields(n), x, k) = [between EXCEPT !.nametable = k]
  BY Zenon DEF HorizontalChanged, between
<1>5. Joined(Fields(n), Fields(m)) = HorizontalChanged(Fields(n), x, k)
  BY <1>1, <1>3, <1>4
<1> QED BY <1>5, Zenon DEF x, k

LEMMA VerticalJoins ==
  ASSUME NEW n, NEW m
  PROVE  Joined(Fields(m), Fields(n))
           = VerticalChanged(Fields(n), Fields(m).coarseY, Fields(m).fineY,
               (2 * (Fields(m).nametable \div 2)) + (Fields(n).nametable % 2))
<1> DEFINE k == (2 * (Fields(m).nametable \div 2)) + (Fields(n).nametable % 2)
           y == Fields(m).coarseY
           f == Fields(m).fineY
           first  == [Fields(n) EXCEPT !.coarseY = y]
           second == [first EXCEPT !.fineY = f]
<1>1. Joined(Fields(m), Fields(n))
        = [coarseX |-> Fields(n).coarseX, coarseY |-> y, nametable |-> k, fineY |-> f]
  BY DEF Joined
<1> HIDE DEF k, y, f
<1>2. first = [coarseX |-> Fields(n).coarseX, coarseY |-> y,
               nametable |-> Fields(n).nametable, fineY |-> Fields(n).fineY]
  BY DEF Fields
<1> HIDE DEF first
<1>3. second = [coarseX |-> Fields(n).coarseX, coarseY |-> y,
                nametable |-> Fields(n).nametable, fineY |-> f]
  BY <1>2
<1> HIDE DEF second
<1>4. [second EXCEPT !.nametable = k]
        = [coarseX |-> Fields(n).coarseX, coarseY |-> y, nametable |-> k, fineY |-> f]
  BY <1>3
<1>5. VerticalChanged(Fields(n), y, f, k) = [second EXCEPT !.nametable = k]
  BY Zenon DEF VerticalChanged, first, second
<1>6. Joined(Fields(m), Fields(n)) = VerticalChanged(Fields(n), y, f, k)
  BY <1>1, <1>4, <1>5
<1> QED BY <1>6, Zenon DEF y, f, k

(* The next line within a tile, in the next row, in the nametable below.   *)
Within(fields)    == [fields EXCEPT !.fineY = @ + 1]
NextRow(fields)   == [fields EXCEPT !.fineY = 0, !.coarseY = (@ + 1) % 32]
NextTable(fields) == [fields EXCEPT !.fineY = 0, !.coarseY = 0, !.nametable = (@ + 2) % 4]

LEMMA RowsInFields ==
  ASSUME NEW n
  PROVE  /\ NextRow(Fields(n)) = [coarseX |-> Fields(n).coarseX, coarseY |-> (Fields(n).coarseY + 1) % 32,
                                  nametable |-> Fields(n).nametable, fineY |-> 0]
         /\ NextTable(Fields(n)) = [coarseX |-> Fields(n).coarseX, coarseY |-> 0,
                                    nametable |-> (Fields(n).nametable + 2) % 4, fineY |-> 0]
<1> DEFINE old == Fields(n)
           x == old.coarseX  y == old.coarseY  k == old.nametable
           row == (y + 1) % 32  below == (k + 2) % 4
           top == [old EXCEPT !.fineY = 0]
           same == [top EXCEPT !.coarseY = row]
           first == [top EXCEPT !.coarseY = 0]
           other == [first EXCEPT !.nametable = below]
<1>1. NextRow(old) = same /\ NextTable(old) = other
  BY Zenon DEF NextRow, NextTable
<1> HIDE DEF row, below
<1>2. top = [coarseX |-> x, coarseY |-> y, nametable |-> k, fineY |-> 0]
  BY DEF Fields
<1> HIDE DEF top
<1>3. same = [coarseX |-> x, coarseY |-> row, nametable |-> k, fineY |-> 0]
  BY <1>2
<1>4. first = [coarseX |-> x, coarseY |-> 0, nametable |-> k, fineY |-> 0]
  BY <1>2
<1> HIDE DEF first
<1>5. other = [coarseX |-> x, coarseY |-> 0, nametable |-> below, fineY |-> 0]
  BY <1>4
<1> HIDE DEF same, other, old
<1>6. /\ NextRow(old) = [coarseX |-> x, coarseY |-> row, nametable |-> k, fineY |-> 0]
      /\ NextTable(old) = [coarseX |-> x, coarseY |-> 0, nametable |-> below, fineY |-> 0]
  BY <1>1, <1>3, <1>5
<1> QED BY <1>6, Zenon DEF row, below, old

LEMMA LineIsDown ==
  ASSUME v \in Word, v' = Scroll!NextLine(v), UNCHANGED <<t, fineX, wLatch, addrInc>>
  PROVE  v' \in Word /\ Scroll!Screen!Down
<1> DEFINE old == Fields(v)  y == old.coarseY  top == And(v, \h8fff)
           to == IF y \in {29, 31} THEN 0 ELSE y + 1
           flipped == IF y = 29 THEN Xor(top, \h800) ELSE top
<1>1. v' = IF And(v, \h7000) # \h7000 THEN v + \h1000
           ELSE Or(And(flipped, \hfc1f), to * 32)
  BY SameOperators, LineTests DEF Scroll!NextLine
<1>2. /\ y \in Nat /\ y < 32
      /\ old.fineY \in Nat /\ old.fineY < 8
      /\ And(v, \h7000) = \h7000 <=> old.fineY = 7
  BY LineTests
<1>3. v' \in Word
      /\ Fields(v') = IF old.fineY < 7 THEN Within(old)
                      ELSE IF y = 29 THEN NextTable(old) ELSE NextRow(old)
  <2>1. CASE old.fineY < 7
    <3>1. v' = v + \h1000
      BY <1>1, <1>2, <2>1
    <3>2. v' \in Word /\ Fields(v') = Within(old)
      BY <2>1, <3>1, LineWithinTile DEF Within
    <3> QED BY <2>1, <3>2
  <2>2. CASE ~(old.fineY < 7) /\ y = 29
    <3>1. v' = Or(And(Xor(top, \h800), \hfc1f), 0 * 32)
      BY <1>1, <1>2, <2>2
    <3>2. v' \in Word /\ Fields(v') = NextTable(old)
      <4> DEFINE zero == 0
      <4>1. zero \in Nat /\ zero < 32 /\ v' = AtRowBelow(v, zero)
        BY <3>1 DEF AtRowBelow
      <4> HIDE DEF zero
      <4>2. v' \in Word /\ Fields(v') = [coarseX |-> old.coarseX, coarseY |-> zero,
                                         nametable |-> (old.nametable + 2) % 4, fineY |-> 0]
        BY <4>1, LineOfNextRow
      <4> QED BY <4>2, RowsInFields DEF zero
    <3> QED BY <2>2, <3>2
  <2>3. CASE ~(old.fineY < 7) /\ y # 29
    <3>1. v' = Or(And(top, \hfc1f), to * 32)
      BY <1>1, <1>2, <2>3
    <3>2. to \in Nat /\ to < 32 /\ to = (y + 1) % 32
      BY <1>2, <2>3
    <3> HIDE DEF to
    <3>3. v' \in Word /\ Fields(v') = NextRow(old)
      <4>1. v' = AtRow(v, to)
        BY <3>1 DEF AtRow
      <4>2. v' \in Word /\ Fields(v') = [coarseX |-> old.coarseX, coarseY |-> to,
                                         nametable |-> old.nametable, fineY |-> 0]
        BY <3>2, <4>1, LineOfNextRow
      <4> QED BY <3>2, <4>2, RowsInFields
    <3> QED BY <2>3, <3>3
  <2> QED BY <2>1, <2>2, <2>3
<1>4. Scroll!FieldsOf(v') =
        CASE old.fineY < 7 -> Within(old)
          [] old.fineY = 7 /\ old.coarseY = 29 -> NextTable(old)
          [] OTHER -> NextRow(old)
  <2>1. CASE old.fineY < 7
    BY <1>2, <1>3, <2>1, SameFields
  <2>2. CASE old.fineY = 7 /\ y = 29
    BY <1>2, <1>3, <2>2, SameFields
  <2>3. CASE old.fineY = 7 /\ y # 29
    BY <1>2, <1>3, <2>3, SameFields
  <2> QED BY <1>2, <2>1, <2>2, <2>3
<1>5. Scroll!FieldsOf(v) = old /\ UNCHANGED <<Scroll!FieldsOf(t), fineX, wLatch, addrInc>>
  BY SameFields
<1> QED BY <1>3, <1>4, <1>5
        DEF Scroll!Screen!Down, Scroll!Screen!OtherVertical, Within, NextRow, NextTable

(* Each step, in fields. *)
LEMMA GameSteps ==
  ASSUME ScrollInv
  PROVE  /\ \A val \in ControlValues : Scroll!Ctrl2000(val) => ScrollInv' /\ Scroll!Screen!Next
         /\ \A val \in ScrollValues : Scroll!Scroll2005(val) => ScrollInv' /\ Scroll!Screen!Next
         /\ \A val \in AddrValues : Scroll!Addr2006(val) => ScrollInv' /\ Scroll!Screen!Next
<1>0. /\ v \in Word /\ t \in Word /\ t < 32768
      /\ fineX \in 0..7 /\ wLatch \in BOOLEAN
      /\ addrInc \in {0, 1, 32} /\ scrolling \in BOOLEAN
      /\ walk \in 0..MaxWalk
  BY DEF ScrollInv
<1>1. ASSUME NEW val \in ControlValues, Scroll!Ctrl2000(val)
      PROVE  ScrollInv' /\ Scroll!Screen!Next
  <2>0. val \in Nat /\ val < 256
    BY <1>0, ScrollBytes
  <2>1. t' = Or(And(t, \hf3ff), And(val, 3) * 1024)
    BY <1>0, <1>1, SameOperators DEF Scroll!Ctrl2000
  <2>2. t' \in Word /\ t' < 32768 /\ Fields(t') = [Fields(t) EXCEPT !.nametable = val % 4]
    BY <1>0, <2>0, <2>1, ControlSetsNametable
  <2>3. addrInc' \in {1, 32} /\ UNCHANGED <<v, fineX, wLatch, scrolling, walk>>
    BY <1>0, <1>1 DEF Scroll!Ctrl2000
  <2>4. ScrollInv'
    BY <1>0, <2>2, <2>3 DEF ScrollInv
  <2>5. Scroll!Screen!Control(val % 4, addrInc')
    <3>1. Fields(v') = Fields(v)
      BY <1>0, <2>3
    <3> QED BY <1>0, <2>2, <2>3, <3>1, SameFields DEF Scroll!Screen!Control
  <2>6. val % 4 \in 0..3
    BY <1>0, <2>0
  <2> QED BY <1>0, <2>3, <2>4, <2>5, <2>6 DEF Scroll!Screen!Next, ScrollInv
<1>2. ASSUME NEW val \in ScrollValues, Scroll!Scroll2005(val)
      PROVE  ScrollInv' /\ Scroll!Screen!Next
  <2>0. val \in Nat /\ val < 256 /\ val \in ScrollValues \union AddrValues
    BY <1>0, ScrollBytes
  <2>1. wLatch' = ~wLatch /\ UNCHANGED <<v, addrInc, scrolling, walk>>
    BY <1>0, <1>2 DEF Scroll!Scroll2005
  <2>2. UNCHANGED Fields(v)
    BY <1>0, <2>1
  <2>3. CASE wLatch
    <3>0. wLatch' = FALSE
      BY <2>1, <2>3, Zenon
    <3>1. t' = Or(And(t, \hffe0), val \div 8) /\ fineX' = val % 8
      BY <1>0, <1>2, <2>0, <2>3, SameOperators, BytesMasked DEF Scroll!Scroll2005
    <3>2. t' \in Word /\ t' < 32768 /\ Fields(t') = [Fields(t) EXCEPT !.coarseX = val \div 8]
      BY <1>0, <2>0, <3>1, ScrollSetsColumn
    <3>3. Scroll!Screen!ScrollX(val)
      BY <1>0, <2>1, <2>2, <2>3, <3>0, <3>1, <3>2, SameFields DEF Scroll!Screen!ScrollX
    <3>4. val % 8 \in 0..7
      BY <1>0, <2>0
    <3> QED BY <1>0, <2>0, <2>1, <3>1, <3>2, <3>3, <3>4 DEF Scroll!Screen!Next, ScrollInv
  <2>4. CASE ~wLatch
    <3>0. wLatch' = TRUE
      BY <2>1, <2>4, Zenon
    <3>1. t' = WithRow(t, val) /\ UNCHANGED fineX
      BY <1>0, <1>2, <2>4, SameOperators DEF Scroll!Scroll2005, WithRow
    <3>2. t' \in Word /\ t' < 32768 /\ Fields(t') = RowChanged(Fields(t), val \div 8, val % 8)
      BY <1>0, <2>0, <3>1, ScrollSetsRow
    <3>3. Scroll!Screen!ScrollY(val)
      <4>1. Fields(t') = RowChanged(Fields(t), val \div 8, val % 8) /\ UNCHANGED fineX
        BY <3>1, <3>2
      <4> QED BY <2>1, <2>2, <2>4, <3>0, <4>1, SameFields, Zenon DEF Scroll!Screen!ScrollY, RowChanged
    <3> QED BY <1>0, <2>0, <2>1, <3>1, <3>2, <3>3 DEF Scroll!Screen!Next, ScrollInv
  <2> QED BY <1>0, <2>3, <2>4
<1>3. ASSUME NEW val \in AddrValues, Scroll!Addr2006(val)
      PROVE  ScrollInv' /\ Scroll!Screen!Next
  <2>0. val \in Nat /\ val < 256 /\ val \in ScrollValues \union AddrValues
    BY <1>0, ScrollBytes
  <2>1. wLatch' = ~wLatch /\ UNCHANGED <<fineX, addrInc, scrolling>>
    BY <1>0, <1>3 DEF Scroll!Addr2006
  <2>2. CASE wLatch
    <3>0. wLatch' = FALSE
      BY <2>1, <2>2, Zenon
    <3>1. t' = (256 * (val % 64)) + (t % 256) /\ UNCHANGED <<v, walk>>
      BY <1>0, <1>3, <2>0, <2>2, SameOperators, AddressSetsBytes DEF Scroll!Addr2006
    <3>2. t' \in Word /\ t' < 32768
      BY <1>0, <2>0, <3>1 DEF Word
    <3>3. Scroll!Screen!AddressHigh(val)
      <4>1. Scroll!Screen!Address(Fields(t)) = t
        BY <1>0, AddressOfFields
      <4>3. UNCHANGED <<Fields(v)>>
        BY <3>1
      <4>2. Fields(t') = Scroll!Screen!At((256 * (val % 64)) + (Scroll!Screen!Address(Fields(t)) % 256))
        BY <1>0, <3>1, <4>1, AtIsFields
      <4> QED BY <2>1, <2>2, <3>0, <4>2, <4>3, SameFields, Zenon DEF Scroll!Screen!AddressHigh
    <3> QED BY <1>0, <2>0, <2>1, <3>1, <3>2, <3>3 DEF Scroll!Screen!Next, ScrollInv
  <2>3. CASE ~wLatch
    <3>0. wLatch' = TRUE
      BY <2>1, <2>3, Zenon
    <3>1. t' = (256 * (t \div 256)) + val /\ v' = t' /\ walk' = 0
      BY <1>0, <1>3, <2>0, <2>3, SameOperators, AddressSetsBytes DEF Scroll!Addr2006
    <3>2. t' \in Word /\ t' < 32768
      BY <1>0, <2>0, <3>1 DEF Word
    <3>3. Scroll!Screen!AddressLow(val)
      <4>1. Scroll!Screen!Address(Fields(t)) = t
        BY <1>0, AddressOfFields
      <4>3. Fields(v') = Fields(t')
        BY <3>1
      <4>2. Fields(t') = Scroll!Screen!At((256 * (Scroll!Screen!Address(Fields(t)) \div 256)) + val)
        BY <1>0, <3>1, <4>1, AtIsFields
      <4> QED BY <2>1, <2>3, <3>0, <4>2, <4>3, SameFields, Zenon DEF Scroll!Screen!AddressLow
    <3> QED BY <1>0, <2>0, <2>1, <3>1, <3>2, <3>3, ScrollBytes DEF Scroll!Screen!Next, ScrollInv
  <2> QED BY <1>0, <2>2, <2>3
<1> QED BY <1>1, <1>2, <1>3

LEMMA OtherSteps ==
  ASSUME ScrollInv
  PROVE  /\ Scroll!Status2002 => ScrollInv' /\ Scroll!Screen!Next
         /\ \A enabled \in MaskValues : Scroll!Mask2001(enabled)
              => ScrollInv' /\ UNCHANGED Scroll!Screen!vars
         /\ Scroll!Data2007 => ScrollInv' /\ Scroll!Screen!Next
<1>0. /\ v \in Word /\ t \in Word /\ t < 32768
      /\ fineX \in 0..7 /\ wLatch \in BOOLEAN
      /\ addrInc \in {0, 1, 32} /\ scrolling \in BOOLEAN
      /\ walk \in 0..MaxWalk
  BY DEF ScrollInv
<1>1. ASSUME Scroll!Status2002 PROVE ScrollInv' /\ Scroll!Screen!Next
  BY <1>0, <1>1, SameFields DEF Scroll!Status2002, Scroll!Screen!Next, Scroll!Screen!Status, ScrollInv
<1>2. ASSUME NEW enabled \in MaskValues, Scroll!Mask2001(enabled)
      PROVE  ScrollInv' /\ UNCHANGED Scroll!Screen!vars
  BY <1>0, <1>2, ScrollBytes, SameFields DEF Scroll!Mask2001, Scroll!Screen!vars, ScrollInv
<1>3. ASSUME Scroll!Data2007 PROVE ScrollInv' /\ Scroll!Screen!Next
  <2>1. /\ v' = (v + addrInc) % 65536 /\ walk' = walk + 1 /\ walk < MaxWalk
        /\ UNCHANGED <<t, fineX, wLatch, addrInc, scrolling>>
    BY <1>0, <1>3 DEF Scroll!Data2007
  <2>2. v' \in Word
    BY <1>0, <2>1 DEF Word
  <2>3. ScrollInv'
    BY <1>0, <2>1, <2>2, ScrollBytes DEF ScrollInv
  <2>4. Scroll!Screen!Access
    <3>1. Fields(v') = Fields(v + addrInc)
      <4>1. \A n \in Nat : /\ (n % 65536) % 32 = n % 32
                           /\ ((n % 65536) \div 32) % 32 = (n \div 32) % 32
                           /\ ((n % 65536) \div 1024) % 4 = (n \div 1024) % 4
                           /\ ((n % 65536) \div 4096) % 8 = (n \div 4096) % 8
        OBVIOUS
      <4>2. v + addrInc \in Nat
        BY <1>0 DEF Word
      <4> QED BY <1>0, <2>1, <4>1, <4>2 DEF Fields
    <3>2. Scroll!Screen!At(Scroll!Screen!Address(Fields(v)) + addrInc) = Fields(v + addrInc)
      BY <1>0, AccessIsAddition DEF Word
    <3> QED BY <1>0, <2>1, <3>1, <3>2, SameFields DEF Scroll!Screen!Access
  <2> QED BY <1>0, <2>3, <2>4 DEF Scroll!Screen!Next, ScrollInv
<1> QED BY <1>1, <1>2, <1>3

LEMMA RenderingSteps ==
  ASSUME ScrollInv
  PROVE  /\ Scroll!IncY => ScrollInv' /\ Scroll!Screen!Next
         /\ Scroll!CopyHorizontalFromTToV => ScrollInv' /\ Scroll!Screen!Next
         /\ Scroll!CopyVerticalFromTToV => ScrollInv' /\ Scroll!Screen!Next
<1>0. /\ v \in Word /\ t \in Word /\ t < 32768
      /\ fineX \in 0..7 /\ wLatch \in BOOLEAN
      /\ addrInc \in {0, 1, 32} /\ scrolling \in BOOLEAN
      /\ walk \in 0..MaxWalk
  BY DEF ScrollInv
<1>1. ASSUME Scroll!IncY PROVE ScrollInv' /\ Scroll!Screen!Next
  <2>1. /\ v' = Scroll!NextLine(v) /\ walk' = walk + 1 /\ walk < MaxWalk
        /\ UNCHANGED <<t, fineX, wLatch, addrInc, scrolling>>
    BY <1>0, <1>1 DEF Scroll!IncY
  <2>2. v' \in Word /\ Scroll!Screen!Down
    BY <1>0, <2>1, LineIsDown
  <2> QED BY <1>0, <2>1, <2>2, ScrollBytes DEF Scroll!Screen!Next, ScrollInv
<1>2. ASSUME Scroll!CopyHorizontalFromTToV PROVE ScrollInv' /\ Scroll!Screen!Next
  <2>1. /\ v' = Or(And(v, \h7be0), And(t, \h41f))
        /\ UNCHANGED <<t, fineX, wLatch, addrInc, scrolling, walk>>
    BY <1>0, <1>2, SameOperators DEF Scroll!CopyHorizontalFromTToV
  <2>2. v' \in Word /\ Fields(v') = Joined(Fields(v), Fields(t))
    BY <1>0, <2>1, CopiesJoin
  <2>3. Scroll!Screen!CopyHorizontal
    <3>1. /\ Fields(v') = HorizontalChanged(Fields(v), Fields(t).coarseX,
                             (2 * (Fields(v).nametable \div 2)) + (Fields(t).nametable % 2))
          /\ UNCHANGED <<Fields(t), fineX, wLatch, addrInc>>
      BY <2>1, <2>2, HorizontalJoins
    <3> QED BY <3>1, SameFields, Zenon DEF Scroll!Screen!CopyHorizontal, HorizontalChanged
  <2> QED BY <1>0, <2>1, <2>2, <2>3 DEF Scroll!Screen!Next, ScrollInv
<1>3. ASSUME Scroll!CopyVerticalFromTToV PROVE ScrollInv' /\ Scroll!Screen!Next
  <2>1. /\ v' = Or(And(v, \h41f), And(t, \h7be0)) /\ walk' = 0
        /\ UNCHANGED <<t, fineX, wLatch, addrInc, scrolling>>
    BY <1>0, <1>3, SameOperators DEF Scroll!CopyVerticalFromTToV
  <2>2. v' \in Word /\ Fields(v') = Joined(Fields(t), Fields(v))
    BY <1>0, <2>1, CopiesJoin
  <2>3. Scroll!Screen!CopyVertical
    <3>1. /\ Fields(v') = VerticalChanged(Fields(v), Fields(t).coarseY, Fields(t).fineY,
                             (2 * (Fields(t).nametable \div 2)) + (Fields(v).nametable % 2))
          /\ UNCHANGED <<Fields(t), fineX, wLatch, addrInc>>
      BY <2>1, <2>2, VerticalJoins
    <3> QED BY <3>1, SameFields, Zenon DEF Scroll!Screen!CopyVertical, VerticalChanged
  <2> QED BY <1>0, <2>1, <2>2, <2>3, ScrollBytes DEF Scroll!Screen!Next, ScrollInv
<1> QED BY <1>1, <1>2, <1>3

-----------------------------------------------------------------------------
LEMMA ScrollInit == PowerOn => ScrollInv /\ Scroll!Screen!Init
<1> SUFFICES ASSUME PowerOn PROVE ScrollInv /\ Scroll!Screen!Init
  OBVIOUS
<1>1. /\ v = 0 /\ t = 0 /\ fineX = 0 /\ wLatch = TRUE
      /\ addrInc = 0 /\ scrolling = FALSE /\ walk = 0
  BY DEF PowerOn, Scroll!Init
<1>2. 0 \in Word /\ 0 < 32768 /\ 0 \in 0..7 /\ 0 \in 0..MaxWalk
  BY ScrollBytes DEF Word
<1>4. ScrollInv
  <2>1. wLatch \in BOOLEAN /\ scrolling \in BOOLEAN
    BY <1>1, Zenon
  <2>2. /\ v \in Word /\ t \in Word /\ t < 32768 /\ fineX \in 0..7
        /\ addrInc \in {0, 1, 32} /\ walk \in 0..MaxWalk
    BY <1>1, <1>2
  <2> QED BY <2>1, <2>2 DEF ScrollInv
<1>3. Fields(v) = [coarseX |-> 0, coarseY |-> 0, nametable |-> 0, fineY |-> 0]
  BY <1>1 DEF Fields
<1> QED BY <1>1, <1>3, <1>4, SameFields DEF Scroll!Screen!Init, Scroll!Screen!Origin

LEMMA ScrollStep ==
  ScrollInv /\ [Work]_ppuVars => ScrollInv' /\ [Scroll!Screen!Next]_(Scroll!Screen!vars)
<1> SUFFICES ASSUME ScrollInv, [Work]_ppuVars
             PROVE  ScrollInv' /\ (Scroll!Screen!Next \/ UNCHANGED Scroll!Screen!vars)
  OBVIOUS
<1>1. CASE UNCHANGED scrollVars
  <2>1. UNCHANGED <<v, t, fineX, wLatch, addrInc, scrolling, walk>>
    BY <1>1 DEF scrollVars
  <2> QED BY <2>1 DEF ScrollInv, Scroll!Screen!vars, Scroll!FieldsOf
<1>2. CASE Scroll!Next
  BY <1>2, GameSteps, OtherSteps, RenderingSteps DEF Scroll!Next
<1> QED BY <1>1, <1>2 DEF Work, ppuVars

LEMMA ScrollInvariant == PpuSpec => []ScrollInv
<1> QED BY ScrollInit, ScrollStep, PTL DEF PpuSpec

(* For all bytes that a game writes, in every order of half-written pairs, *)
(* between any two steps of rendering, and when v has run over its fields: *)
(* the masks and shifts of ppu.rs set the fields that the registers are    *)
(* meant to set and leave the others.                                      *)
THEOREM WordsAreFields == PpuSpec => WordsHoldFields
<1> QED
  BY ScrollInit, ScrollStep, PTL
  DEF PpuSpec, WordsHoldFields, Scroll!WordsHoldFields, Scroll!Screen!Spec

-----------------------------------------------------------------------------
(* The three sides together.                                               *)

(* A PPU that is watched as a whole runs the clock of PpuTiming.           *)
LEMMA ClockRuns == PpuSpec => Spec
<1>1. PowerOn => Init
  BY DEF PowerOn
<1>2. [Work]_ppuVars => [Next]_vars
  BY DEF Work, ppuVars
<1> QED BY <1>1, <1>2, PTL DEF PpuSpec, Spec

(* For every geometry, every game and every picture the registers, the     *)
(* words and the flags of the PPU keep to the types of the code.           *)
THEOREM PpuTypeCorrect == PpuSpec => []PpuTypeOK
<1>1. ClockInv /\ ScrollInv /\ SpriteInv => PpuTypeOK
  <2>1. SpriteInv => Picture!SpritesTypeOK
    BY DEF SpriteInv, BeamOk, Picture!SpritesTypeOK
  <2> QED BY <2>1, ScrollInvIsType DEF ClockInv, PpuTypeOK
<1>2. Spec => []ClockInv
  BY ClockInit, ClockStep, PTL DEF Spec
<1> QED BY <1>1, <1>2, ClockRuns, ScrollInvariant, SpriteInvariant, PTL
=============================================================================
