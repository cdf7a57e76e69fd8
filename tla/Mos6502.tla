------------------------------- MODULE Mos6502 -------------------------------
(***************************************************************************)
(* The CPU (mos6502/src/cpu.rs, address_mode.rs, memory.rs): one           *)
(* instruction per tick, and between two ticks the interrupts that         *)
(* Nes::tick delivers (nes/src/nes.rs).  The CPU is a record, since        *)
(* `main`, the same program on a machine nobody interrupts, is another:    *)
(*    pc, r (the registers), f (the flags, 0 or 1 each), mem, extra        *)
(*    (extra_cycles) and cycles (what the last tick returned).             *)
(* Memory holds 0 where nothing was loaded or written (Memory::load), so   *)
(* mem maps only the addresses that were.  Addresses wrap at 2^16, as in   *)
(* the release build.                                                      *)
(***************************************************************************)
EXTENDS Alu, Instructions, SequencesExt

CONSTANTS
  Machines, \* what to start from: a CPU with a program in memory, and the
            \* bounds on how many NMIs, IRQs and resets come
  HandlerMemory, \* the addresses that only interrupt handlers write
  MaxNestedNmis \* bound: NMIs whose handlers run at once

VARIABLES
  cpu, \* struct Cpu
  jammed, \* a JAM or an unknown opcode: the process panicked
  frames, \* history: the interrupts whose handlers run, the innermost last,
          \* each with the pc, registers and flags that it found
  main, \* history: the CPU that runs the program uninterrupted
  bounds \* how many NMIs, IRQs and resets may still come

vars == <<cpu, jammed, frames, main, bounds>>

AddressSpace == 65536
Word(n) == n % AddressSpace

NMI_VECTOR == 65530
RESET_VECTOR == 65532
IRQ_VECTOR == 65534
STACK_TOP == 256

BitOf == [N |-> 128, V |-> 64, UNUSED |-> 32, B |-> 16, D |-> 8, I |-> 4,
          Z |-> 2, C |-> 1]

Registers == {"A", "X", "Y", "SP"}
Addresses == 0 .. AddressSpace - 1

(* A CPU whose fields hold values of the code's types.                     *)
IsCpu(c) ==
  /\ DOMAIN c = {"pc", "r", "f", "mem", "extra", "cycles"}
  /\ c.pc \in Addresses
  /\ c.r \in [Registers -> Byte]
  /\ c.f \in [DOMAIN BitOf -> Carry]
  /\ \A address \in DOMAIN c.mem : address \in Addresses /\ c.mem[address] \in Byte
  /\ c.extra \in Nat /\ c.cycles \in Nat

ASSUME SignIsBit7 == Sign = 128
ASSUME MachinesAssumption ==
  /\ MaxNestedNmis \in Nat
  /\ \A m \in Machines : /\ IsCpu(m.cpu)
                         /\ m.bounds \in [{"nmi", "irq", "reset"} -> Nat]
ASSUME HandlerMemoryAssumption ==
  HandlerMemory \cap {STACK_TOP + s : s \in Byte} = {}

-----------------------------------------------------------------------------
(* Bits of a byte *)

Bits(n) == {w \in {BitOf[b] : b \in DOMAIN BitOf} : (n \div w) % 2 = 1}

ByteOf(bits) ==
  LET Weight(w) == IF w \in bits THEN w ELSE 0
  IN Weight(128) + Weight(64) + Weight(32) + Weight(16)
     + Weight(8) + Weight(4) + Weight(2) + Weight(1)

And(m, n) == ByteOf(Bits(m) \cap Bits(n))
Or(m, n) == ByteOf(Bits(m) \cup Bits(n))
Xor(m, n) == ByteOf((Bits(m) \cup Bits(n)) \ (Bits(m) \cap Bits(n)))

flags_as_byte(f) == ByteOf({BitOf[b] : b \in {b \in DOMAIN f : f[b] = 1}})

-----------------------------------------------------------------------------
(* Memory and the stack *)

read8(c, address) ==
  IF address \in DOMAIN c.mem THEN c.mem[address] ELSE 0

write8(c, val, address) ==
  [c EXCEPT !.mem = [a \in DOMAIN @ \cup {address} |->
                       IF a = address THEN val ELSE @[a]]]

read16(c, address) == read8(c, address) + (256 * read8(c, Word(address + 1)))

push(c, val) ==
  [write8(c, val, STACK_TOP + c.r.SP) EXCEPT !.r.SP = Wrap(@ - 1)]

push_word(c, val) == push(push(c, val \div 256), val % 256)

(* The nth byte from the top, and the CPU without the top n bytes.         *)
Top(c, n) == read8(c, STACK_TOP + Wrap(c.r.SP + n))
Drop(c, n) == [c EXCEPT !.r.SP = Wrap(@ + n)]

set_flags_ignore_5_4(c, val) ==
  [c EXCEPT !.f = [b \in DOMAIN @ |->
     IF b \in {"UNUSED", "B"} THEN @[b] ELSE (val \div BitOf[b]) % 2]]

flags_set_neg_zero(c, res) ==
  [c EXCEPT !.f.Z = Flag(res = 0), !.f.N = Flag(is_signed(res))]

SetReg(c, reg, val) == flags_set_neg_zero([c EXCEPT !.r[reg] = val], val)

-----------------------------------------------------------------------------
(* Operands (AddressMode::resolve) *)

operand0(inst) == inst.operands[1]

(* A pointer whose second byte is read from the same page.                 *)
Pointer(c, low, high) ==
  read8(c, 256 * high + low) + (256 * read8(c, 256 * high + Wrap(low + 1)))

BaseAddress(c, inst) ==
  LET low == inst.operands[1]
      high == inst.operands[2]
  IN CASE inst.mode \in {"Abs", "AbsX", "AbsY"} -> 256 * high + low
       [] inst.mode = "Ind" -> Pointer(c, low, high)
       [] inst.mode = "IndX" -> Pointer(c, Wrap(low + c.r.X), 0)
       [] inst.mode = "IndY" -> Pointer(c, low, 0)
       [] inst.mode = "Zero" -> low
       [] inst.mode = "ZeroX" -> Wrap(low + c.r.X)
       [] inst.mode = "ZeroY" -> Wrap(low + c.r.Y)

Index(c, inst) ==
  CASE inst.mode = "AbsX" -> c.r.X
    [] inst.mode \in {"AbsY", "IndY"} -> c.r.Y
    [] OTHER -> 0

resolve(c, inst) == Word(BaseAddress(c, inst) + Index(c, inst))

SamePage(a, b) == a \div 256 = b \div 256

(* The CPU after resolving the operand: a page crossed costs cycles.       *)
Resolved(c, inst) ==
  IF inst.mode \in {"AbsX", "AbsY", "IndY"}
     /\ ~SamePage(BaseAddress(c, inst), resolve(c, inst))
  THEN [c EXCEPT !.extra = @ + num_extra_cycles(inst)]
  ELSE c

Value(c, inst) ==
  IF inst.mode = "Imm" THEN operand0(inst) ELSE read8(c, resolve(c, inst))

-----------------------------------------------------------------------------
(* The instructions (Cpu::execute), a family at a time *)

DeltaOf == [DEX |-> -1, DEY |-> -1, INX |-> 1, INY |-> 1]
CountedBy == [DEX |-> "X", DEY |-> "Y", INX |-> "X", INY |-> "Y"]

CountReg(c, op) ==
  SetReg(c, CountedBy[op], Wrap(c.r[CountedBy[op]] + DeltaOf[op]))

FlagOps == [CLC |-> <<"C", 0>>, CLD |-> <<"D", 0>>, CLI |-> <<"I", 0>>,
            CLV |-> <<"V", 0>>, SEC |-> <<"C", 1>>, SED |-> <<"D", 1>>,
            SEI |-> <<"I", 1>>]

SetFlag(c, op) == [c EXCEPT !.f[FlagOps[op][1]] = FlagOps[op][2]]

LoadedBy == [LDA |-> "A", LDX |-> "X", LDY |-> "Y"]

Load(c, inst) == SetReg(Resolved(c, inst), LoadedBy[inst.op], Value(c, inst))

Lax(c, inst) ==
  SetReg(SetReg(Resolved(c, inst), "A", Value(c, inst)), "X", Value(c, inst))

Moves == [TAX |-> <<"A", "X">>, TAY |-> <<"A", "Y">>, TSX |-> <<"SP", "X">>,
          TXA |-> <<"X", "A">>, TYA |-> <<"Y", "A">>]

Transfer(c, op) == SetReg(c, Moves[op][2], c.r[Moves[op][1]])

Stored(c, op) ==
  CASE op = "STA" -> c.r.A
    [] op = "STX" -> c.r.X
    [] op = "STY" -> c.r.Y
    [] op = "SAX" -> And(c.r.A, c.r.X)

Store(c, inst) ==
  write8(Resolved(c, inst), Stored(c, inst.op), resolve(c, inst))

Jump(c, inst) == [c EXCEPT !.pc = resolve(c, inst)]

JumpToSubroutine(c, inst) == Jump(push_word(c, Word(c.pc + 2)), inst)

ReturnFromSubroutine(c) ==
  [Drop(c, 2) EXCEPT !.pc = Word(Top(c, 1) + (256 * Top(c, 2)) + 1)]

(* Mutant: interrupts are masked before the flags are pushed.              *)
EnterMasking(c, pc, b, vector) ==
  LET pushed == push(push_word(c, pc),
                     flags_as_byte([c.f EXCEPT !.B = b, !.UNUSED = 1, !.I = 1]))
  IN [pushed EXCEPT !.f.I = 1, !.pc = read16(pushed, vector)]

(* Mutant: interrupts are not masked.                                      *)
EnterUnmasked(c, pc, b, vector) ==
  LET pushed == push(push_word(c, pc),
                     flags_as_byte([c.f EXCEPT !.B = b, !.UNUSED = 1]))
  IN [pushed EXCEPT !.pc = read16(pushed, vector)]

(* Pushes pc and the flags, with B and the unused bit as given, and goes   *)
(* where the vector points with interrupts disabled.                       *)
Enter(c, pc, b, vector) ==
  LET pushed == push(push_word(c, pc),
                     flags_as_byte([c.f EXCEPT !.B = b, !.UNUSED = 1]))
  IN [pushed EXCEPT !.f.I = 1, !.pc = read16(pushed, vector)]

Break(c) == Enter(c, Word(c.pc + 2), 1, IRQ_VECTOR)

ReturnFromInterrupt(c) ==
  [set_flags_ignore_5_4(Drop(c, 3), Top(c, 1)) EXCEPT
     !.pc = Top(c, 2) + (256 * Top(c, 3))]

BranchesOn == [BNE |-> <<"Z", 0>>, BEQ |-> <<"Z", 1>>, BPL |-> <<"N", 0>>,
               BMI |-> <<"N", 1>>, BCC |-> <<"C", 0>>, BCS |-> <<"C", 1>>,
               BVC |-> <<"V", 0>>, BVS |-> <<"V", 1>>]

branch_if(c, offset, cond) ==
  LET next == Word(c.pc + 2)
      target == Word(next + Signed(offset))
  IN IF offset = 0 \/ ~cond THEN c
     ELSE [c EXCEPT !.pc = target,
                    !.extra = @ + (IF SamePage(next, target) THEN 1 ELSE 2)]

Branch(c, inst) ==
  branch_if(c, operand0(inst),
            c.f[BranchesOn[inst.op][1]] = BranchesOn[inst.op][2])

ComparesReg == [CMP |-> "A", CPX |-> "X", CPY |-> "Y"]

Compare(c, reg, val) ==
  LET difference == cmp(c.r[reg], val)
  IN flags_set_neg_zero([c EXCEPT !.f.C = difference.C], difference.res)

(* The accumulator and a value, for the opcodes that combine the two.      *)
Arithmetic(c, sum) ==
  SetReg([c EXCEPT !.f.V = sum.V, !.f.C = sum.C], "A", sum.res)

Combine(c, op, val) ==
  CASE op = "ADC" -> Arithmetic(c, add_with_carry(c.r.A, val, c.f.C))
    [] op \in {"SBC", "USBC"} ->
         Arithmetic(c, sub_with_borrow(c.r.A, val, c.f.C))
    [] op = "AND" -> SetReg(c, "A", And(c.r.A, val))
    [] op = "ORA" -> SetReg(c, "A", Or(c.r.A, val))
    [] op = "EOR" -> SetReg(c, "A", Xor(c.r.A, val))
    [] op \in DOMAIN ComparesReg -> Compare(c, ComparesReg[op], val)

(* What the opcodes that modify a byte make of it, and the carry.          *)
Modified(c, op, val) ==
  CASE op = "DEC" -> [res |-> Wrap(val - 1), C |-> c.f.C]
    [] op = "INC" -> [res |-> Wrap(val + 1), C |-> c.f.C]
    [] op = "LSR" -> shift_right(val)
    [] op = "ASL" -> shift_left(val)
    [] op = "ROL" -> rotate_left(val, c.f.C)
    [] op = "ROR" -> rotate_right(val, c.f.C)

ModifyAccumulator(c, op) ==
  LET m == Modified(c, op, c.r.A)
  IN SetReg([c EXCEPT !.f.C = m.C], "A", m.res)

ModifyMemory(c, inst, op) ==
  LET m == Modified(c, op, Value(c, inst))
      written == write8(Resolved(c, inst), m.res, resolve(c, inst))
  IN flags_set_neg_zero([written EXCEPT !.f.C = m.C], m.res)

(* The undocumented opcodes that modify memory and then combine it with    *)
(* the accumulator.                                                        *)
Combination == [DCP |-> <<"DEC", "CMP">>, ISC |-> <<"INC", "SBC">>,
                SLO |-> <<"ASL", "ORA">>, RLA |-> <<"ROL", "AND">>,
                SRE |-> <<"LSR", "EOR">>, RRA |-> <<"ROR", "ADC">>]

ModifyAndCombine(c, inst) ==
  LET both == Combination[inst.op]
  IN Combine(ModifyMemory(c, inst, both[1]), both[2],
             Modified(c, both[1], Value(c, inst)).res)

(* ANC, ANC2 and ALR set the flags of the AND, and store it nowhere.       *)
AndForFlags(c, inst) ==
  LET res == And(c.r.A, Value(c, inst))
      carry == IF inst.op = "ALR" THEN res % 2 ELSE Flag(is_signed(res))
  IN flags_set_neg_zero([c EXCEPT !.f.C = carry], res)

TestBits(c, inst) ==
  LET val == Value(c, inst)
  IN [c EXCEPT !.f.Z = Flag(And(c.r.A, val) = 0),
               !.f.N = Flag(128 \in Bits(val)), !.f.V = Flag(64 \in Bits(val))]

Pushed(c, op) ==
  IF op = "PHA" THEN c.r.A
  ELSE flags_as_byte([c.f EXCEPT !.UNUSED = 1, !.B = 1])

(* What an instruction does; NOP only resolves its operand.                *)
Effect(c, inst) ==
  LET op == inst.op
  IN CASE op = "NOP" -> Resolved(c, inst)
       [] op \in DOMAIN CountedBy -> CountReg(c, op)
       [] op \in DOMAIN FlagOps -> SetFlag(c, op)
       [] op \in DOMAIN LoadedBy -> Load(c, inst)
       [] op = "LAX" -> Lax(c, inst)
       [] op \in DOMAIN Moves -> Transfer(c, op)
       [] op = "TXS" -> [c EXCEPT !.r.SP = c.r.X]
       [] op \in {"STA", "STX", "STY", "SAX"} -> Store(c, inst)
       [] op = "JMP" -> Jump(c, inst)
       [] op = "JSR" -> JumpToSubroutine(c, inst)
       [] op = "RTS" -> ReturnFromSubroutine(c)
       [] op = "BRK" -> Break(c)
       [] op = "RTI" -> ReturnFromInterrupt(c)
       [] op \in DOMAIN BranchesOn -> Branch(c, inst)
       [] op \in {"LSR", "ASL", "ROL", "ROR"} /\ inst.mode = "Impl" ->
            ModifyAccumulator(c, op)
       [] op \in {"DEC", "INC", "LSR", "ASL", "ROL", "ROR"}
          /\ inst.mode # "Impl" -> ModifyMemory(c, inst, op)
       [] op \in DOMAIN Combination -> ModifyAndCombine(c, inst)
       [] op \in {"PHA", "PHP"} -> push(c, Pushed(c, op))
       [] op = "PLA" -> SetReg(Drop(c, 1), "A", Top(c, 1))
       [] op = "PLP" -> set_flags_ignore_5_4(Drop(c, 1), Top(c, 1))
       [] op = "BIT" -> TestBits(Resolved(c, inst), inst)
       [] op \in {"ANC", "ANC2", "ALR"} -> AndForFlags(c, inst)
       [] OTHER -> Combine(Resolved(c, inst), op, Value(c, inst))

(* An instruction that left pc where it was is taken for one that did not  *)
(* jump: the next one follows.                                             *)
Advanced(before, after, inst) ==
  IF before.pc = after.pc /\ inst.op # "JMP"
  THEN [after EXCEPT !.pc = Word(@ + inst.size)]
  ELSE after

execute(c, inst) ==
  LET done == Advanced(c, Effect(c, inst), inst)
  IN [done EXCEPT !.cycles = inst.cycles + done.extra, !.extra = 0]

fetch_next_instruction(c) ==
  disassemble(read8(c, c.pc), read8(c, Word(c.pc + 1)),
              read8(c, Word(c.pc + 2)))

Executable(c) ==
  /\ read8(c, c.pc) \in Known
  /\ RowOf[read8(c, c.pc)].op # "JAM"

-----------------------------------------------------------------------------
(* Interrupts *)

interrupt(c, vector) == [Enter(c, c.pc, 0, vector) EXCEPT !.extra = @ + 7]

AtReset(c) ==
  [c EXCEPT !.r = [A |-> 0, X |-> 0, Y |-> 0, SP |-> \hfd],
            !.f = [b \in DOMAIN BitOf |-> Flag(b \in {"UNUSED", "I"})],
            !.pc = read16(c, RESET_VECTOR)]

-----------------------------------------------------------------------------
(* The machine *)

Init ==
  /\ \E machine \in Machines :
       /\ cpu = machine.cpu
       /\ bounds = machine.bounds
  /\ main = cpu
  /\ jammed = FALSE
  /\ frames = <<>>

Count(event) ==
  /\ bounds[event] > 0
  /\ bounds' = [bounds EXCEPT ![event] = @ - 1]

(* RTI ends the innermost handler.                                         *)
FramesAfter(inst) ==
  IF inst.op = "RTI" /\ frames # <<>> THEN Front(frames) ELSE frames

tick ==
  /\ ~jammed /\ Executable(cpu)
  /\ LET inst == fetch_next_instruction(cpu)
     IN /\ cpu' = execute(cpu, inst)
        /\ frames' = FramesAfter(inst)
        /\ main' = IF frames = <<>> /\ Executable(main)
                   THEN execute(main, fetch_next_instruction(main))
                   ELSE main
  /\ UNCHANGED <<jammed, bounds>>

Jam ==
  /\ ~jammed /\ ~Executable(cpu)
  /\ jammed' = TRUE
  /\ UNCHANGED <<cpu, frames, main, bounds>>

Interrupted(event) ==
  [event |-> event, pc |-> cpu.pc, r |-> cpu.r, f |-> cpu.f]

nmi ==
  /\ ~jammed /\ Count("nmi")
  /\ Len(SelectSeq(frames, LAMBDA frame : frame.event = "nmi")) < MaxNestedNmis
  /\ cpu' = interrupt(cpu, NMI_VECTOR)
  /\ frames' = Append(frames, Interrupted("nmi"))
  /\ UNCHANGED <<jammed, main>>

irq ==
  /\ ~jammed /\ Count("irq")
  /\ cpu.f.I = 0
  /\ cpu' = interrupt(cpu, IRQ_VECTOR)
  /\ frames' = Append(frames, Interrupted("irq"))
  /\ UNCHANGED <<jammed, main>>

(* The Reset button: the registers and pc start over, memory stays.        *)
reset ==
  /\ ~jammed /\ Count("reset")
  /\ cpu' = AtReset(cpu)
  /\ main' = AtReset(main)
  /\ frames' = <<>>
  /\ UNCHANGED jammed

Next == tick \/ Jam \/ nmi \/ irq \/ reset

Spec == Init /\ [][Next]_vars

-----------------------------------------------------------------------------
(* Properties *)

Frame == [event : {"nmi", "irq"}, pc : Addresses, r : [Registers -> Byte],
          f : [DOMAIN BitOf -> Carry]]

(* Registers, flags and memory hold values of the code's types.            *)
TypeOK ==
  /\ IsCpu(cpu) /\ IsCpu(main)
  /\ jammed \in BOOLEAN
  /\ frames \in Seq(Frame)
  /\ bounds \in [{"nmi", "irq", "reset"} -> Nat]

(* What the program can tell of a CPU: not the cycles, not what lies below *)
(* its stack, not what only the handlers write.                            *)
Dead(c) == {STACK_TOP + s : s \in 0 .. c.r.SP}

Visible(c) ==
  LET own == {a \in DOMAIN c.mem : a \notin Dead(c) \cup HandlerMemory}
  IN [pc |-> c.pc, r |-> c.r, f |-> c.f, mem |-> [a \in own |-> c.mem[a]]]

(* Interrupts are transparent: whenever no handler runs, the program is    *)
(* exactly where it would be on a machine that was never interrupted, with *)
(* the same registers, flags, stack and memory, wherever the NMIs and IRQs *)
(* fell and however deep the NMIs nested.                                  *)
InterruptsAreTransparent == frames = <<>> => Visible(cpu) = Visible(main)

(* An IRQ is never taken while a handler runs: entering a handler masks    *)
(* it, and only the matching RTI, at the end, gives the mask back.         *)
HandlersAreNotInterruptedByIrq ==
  \A k \in 2 .. Len(frames) : frames[k].event = "nmi"

(* The cells that the next instruction reads and writes.                   *)
Addressed ==
  {"Abs", "AbsX", "AbsY", "Ind", "IndX", "IndY", "Zero", "ZeroX", "ZeroY"}

Writing == {"STA", "STX", "STY", "SAX", "DEC", "INC", "LSR", "ASL", "ROL", "ROR"}
           \cup DOMAIN Combination
NotReading == {"NOP", "JMP", "JSR", "STA", "STX", "STY", "SAX"}

PushedBy == [PHA |-> 1, PHP |-> 1, JSR |-> 2, BRK |-> 3]
PulledBy == [PLA |-> 1, PLP |-> 1, RTS |-> 2, RTI |-> 3]

OperandCell(c, inst) ==
  IF inst.mode \in Addressed THEN {resolve(c, inst)} ELSE {}

PointerCells(c, inst) ==
  LET Cells(low, high) == {256 * high + low, 256 * high + Wrap(low + 1)}
      low0 == inst.operands[1]
  IN CASE inst.mode = "Ind" -> Cells(low0, inst.operands[2])
       [] inst.mode = "IndX" -> Cells(Wrap(low0 + c.r.X), 0)
       [] inst.mode = "IndY" -> Cells(low0, 0)
       [] OTHER -> {}

Writes(c, inst) ==
  (IF inst.op \in Writing THEN OperandCell(c, inst) ELSE {})
  \cup (IF inst.op \in DOMAIN PushedBy
        THEN {STACK_TOP + Wrap(c.r.SP - n) : n \in 0 .. PushedBy[inst.op] - 1}
        ELSE {})

Reads(c, inst) ==
  {c.pc, Word(c.pc + 1), Word(c.pc + 2)} \cup PointerCells(c, inst)
  \cup (IF inst.op \notin NotReading THEN OperandCell(c, inst) ELSE {})
  \cup (IF inst.op \in DOMAIN PulledBy
        THEN {STACK_TOP + Wrap(c.r.SP + n) : n \in 1 .. PulledBy[inst.op]}
        ELSE {})
  \cup (IF inst.op = "BRK" THEN {IRQ_VECTOR, Word(IRQ_VECTOR + 1)} ELSE {})

(* The cells in which the handlers left something else.                    *)
Disturbed ==
  {a \in DOMAIN cpu.mem \cup DOMAIN main.mem :
     a \notin DOMAIN cpu.mem \cap DOMAIN main.mem \/ cpu.mem[a] # main.mem[a]}

(* The program reads no disturbed cell, and raises the stack over none.    *)
ProgramInOrder(inst) ==
  Disturbed \cap (Reads(cpu, inst)
                   \cup (Dead(cpu) \ (Dead(cpu') \cup Writes(cpu, inst)))) = {}

(* A handler writes to its own memory or below the three bytes that the    *)
(* interrupt pushed, leaves IRQs masked, and returns with the registers    *)
(* and the stack that it found, and not to its own RTI.                    *)
HandlerInOrder(inst, frame) ==
  IF inst.op = "RTI"
  THEN cpu.r = [frame.r EXCEPT !.SP = @ - 3] /\ cpu.pc # frame.pc
  ELSE /\ Writes(cpu, inst)
            \subseteq HandlerMemory \cup {STACK_TOP + s : s \in 0 .. frame.r.SP - 3}
       /\ inst.op # "CLI"
       /\ inst.op = "PLP" => 4 \in Bits(Top(cpu, 1))

(* What InterruptsAreTransparent asks of the program and the handlers,     *)
(* step by step; also that an interrupt finds room on the stack, and a     *)
(* nested one what the first pushed still there, and that Reset finds the  *)
(* vector and the stack as they were.                                      *)
StepInOrder ==
  /\ tick => LET inst == fetch_next_instruction(cpu)
             IN IF frames = <<>> THEN ProgramInOrder(inst)
                ELSE HandlerInOrder(inst, Last(frames))
  /\ nmi \/ irq => /\ cpu.r.SP >= 3
                   /\ frames # <<>> => cpu.r.SP <= Last(frames).r.SP - 3
  /\ reset => Disturbed \cap ({RESET_VECTOR, Word(RESET_VECTOR + 1)}
                                \cup (Dead(main) \ Dead(main'))) = {}

InOrder == [][StepInOrder]_vars

(* The value that an addition or a subtraction takes: the operand, or what *)
(* the undocumented opcodes just wrote to memory.                          *)
Operand(inst) ==
  IF inst.op \in {"ISC", "RRA"} THEN read8(cpu', resolve(cpu, inst))
  ELSE Value(cpu, inst)

(* The carry an addition takes: RRA adds the bit that it rotated out.      *)
CarryIn(inst) ==
  IF inst.op = "RRA" THEN Value(cpu, inst) % 2 ELSE cpu.f.C

Exact(inst) ==
  LET sum == IF inst.op \in {"ADC", "RRA"}
             THEN cpu.r.A + Operand(inst) + CarryIn(inst)
             ELSE cpu.r.A - Operand(inst) - (1 - CarryIn(inst)) + 256
      signedSum == IF inst.op \in {"ADC", "RRA"}
             THEN Signed(cpu.r.A) + Signed(Operand(inst)) + CarryIn(inst)
             ELSE Signed(cpu.r.A) - Signed(Operand(inst)) - (1 - CarryIn(inst))
  IN /\ cpu'.r.A + (256 * cpu'.f.C) = sum
     /\ cpu'.f.V = Flag(signedSum \notin -128 .. 127)
     /\ cpu'.f.V = 0 => Signed(cpu'.r.A) = signedSum

(* Every addition and subtraction is exact: the accumulator and the carry  *)
(* together are the unsigned result, and V is set just when the signed one *)
(* does not fit, for the documented opcodes and those that do two things   *)
(* in one (add_with_carry, sub_with_borrow, is_overflow).                  *)
ArithmeticIsExact ==
  [][tick => LET inst == fetch_next_instruction(cpu)
             IN inst.op \in {"ADC", "RRA", "SBC", "USBC", "ISC"} => Exact(inst)
    ]_vars
=============================================================================
