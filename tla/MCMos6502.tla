------------------------------ MODULE MCMos6502 ------------------------------
(***************************************************************************)
(* Machines for TLC to start from.  One for each opcode byte, with values  *)
(* at the boundaries of a byte in the accumulator and the operand, next to *)
(* a JMP to itself; and a program with a loop, a subroutine and            *)
(* a stack, whose NMI and IRQ handlers change every register and flag.     *)
(***************************************************************************)
EXTENDS Debugger

Boundary == {0, 1, 127, 128, 255}

(* The bytes of a program from an address on.                              *)
At(address, bytes) ==
  [a \in address .. address + Len(bytes) - 1 |-> bytes[a - address + 1]]

Started(mem, a, x, carry) ==
  [pc |-> \h04f0, r |-> [A |-> a, X |-> x, Y |-> x, SP |-> \hfd],
   f |-> [b \in DOMAIN BitOf |->
            IF b \in {"I", "UNUSED"} THEN 1 ELSE IF b = "C" THEN carry ELSE 0],
   mem |-> mem, extra |-> 0, cycles |-> 0]

(* Every cell that an operand can name holds v: on the zero page and on    *)
(* page 3, with X and Y 1 or 255.  IRQ and BRK go to a JMP to itself.      *)
Cells(v) ==
  [a \in {\h3f, \h40, \h0340, \h0341, \h043f} |-> v] @@ At(\h41, <<3, 3>>)

Trap == At(\h0600, <<\h4c, 0, 6>>) @@ At(IRQ_VECTOR, <<0, 6>>)

Single(byte, v) ==
  LET immediate == byte \in Known /\ RowOf[byte].mode \in {"Imm", "Rel"}
  IN At(\h04f0, <<byte, IF immediate THEN v ELSE \h40, 3, \h4c, 0, 6>>)
     @@ Cells(v) @@ Trap

Adding == {byte \in Known :
             RowOf[byte].op \in {"ADC", "SBC", "USBC", "ISC", "RRA"}}

Starts(bytes, values) ==
  {Started(Single(byte, v), a, IF c = 0 THEN 1 ELSE 255, c) :
     byte \in bytes, a \in values, v \in values, c \in Carry}

Singles == Starts(Adding, Boundary) \cup Starts((0 .. 255) \ Adding, {0, 255})

(* CLI; LDX #2; loop: TXA; ADC #127; PHA; JSR sub; PLA; ROL; DEX; BNE loop;*)
(* CLV; here: JMP here.    sub: EOR $20; STA $20; PHP; PLP; RTS.           *)
Program ==
  At(\h0200, <<\h58, \ha2, 2, \h8a, \h69, 127, \h48, \h20, 0, 3, \h68, \h2a,
               \hca, \hd0, \hf4, \hb8, \h4c, \h10, 2>>)
  @@ At(\h0300, <<\h45, \h20, \h85, \h20, \h08, \h28, \h60>>)

(* NMI: PHA; TXA; PHA; LDA #128; ADC #128; INC $30; PLA; TAX; PLA; RTI.    *)
(* IRQ: PHA; SEC; LDA #127; ADC $31; STA $31; PLA; RTI.                    *)
Handlers ==
  At(\h0500, <<\h48, \h8a, \h48, \ha9, 128, \h69, 128, \he6, \h30, \h68, \haa,
               \h68, \h40>>)
  @@ At(\h0580, <<\h48, \h38, \ha9, 127, \h65, \h31, \h85, \h31, \h68, \h40>>)
  @@ At(NMI_VECTOR, <<0, 5, 0, 2, \h80, 5>>)

MCHandlerMemory == {\h30, \h31}

Playing == AtReset([Started(Program @@ Handlers, 0, 0, 0) EXCEPT !.pc = \h0200])

Bounds(n, i, r) == [nmi |-> n, irq |-> i, reset |-> r]

MCMachines ==
  {[cpu |-> Playing, bounds |-> b] : b \in {Bounds(1, 1, 0), Bounds(1, 0, 1)}}
  \cup {[cpu |-> c, bounds |-> Bounds(0, 0, 0)] : c \in Singles}

(* LDX #1; loop: DEX; NOP; BNE loop; INX; BNE loop.                        *)
MCDebugged ==
  {[Playing EXCEPT !.mem = At(\h0200, <<\ha2, 1, \hca, \hea, \hd0, \hfc, \he8,
                                       \hd0, \hf9>>)]}

MCBreakpoints ==
  SUBSET {[at |-> "address", address |-> \h0206],
          [at |-> "opcode", opcode |-> "INX"],
          [at |-> "sequence", opcodes |-> <<"BNE", "DEX", "NOP">>],
          [at |-> "sequence", opcodes |-> <<"DEX", "NOP">>]}

(* A handler that takes longer than a frame meets the next NMI.            *)
MCOverrun == {[cpu |-> Playing, bounds |-> Bounds(2, 0, 0)]}
=============================================================================
